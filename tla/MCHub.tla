------------------------------- MODULE MCHub -------------------------------
(* The instance of run hub: the control plane as in MCDozeHub, and the pool  *)
(* of fake addresses, which shares no state with it.  A behaviour is that of *)
(* one of them, and the other stays as it begins.                            *)
EXTENDS MCDozeHub, FakeIPPool

CONSTANTS h1, h2, h3

Names == {h1, h2, h3}

(* Maps that a Lookup has been torn in promise nothing until their next      *)
(* flush: such a state is checked, and not followed.                         *)
Whole == \A p \in Pools : ~torn[p]

(* A reload and a death of the process in one behaviour are checked and not  *)
(* followed.                                                                 *)
OneTrouble == reloads + deaths <= 1

Limits == Worlds /\ Whole /\ OneTrouble

HubInit == DozeInit /\ FakeInit /\ (driven \/ persistent)

HubNext ==
    \/ FakeInit /\ persistent /\ DozeNext /\ UNCHANGED poolVars
    \/ DozeInit /\ driven /\ FakeNext /\ UNCHANGED dozeVars

HubSpec == HubInit /\ [][HubNext]_<<dozeVars, poolVars>>
=============================================================================
