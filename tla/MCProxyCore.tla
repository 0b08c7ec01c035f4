---------------------------- MODULE MCProxyCore ----------------------------
(* Instances of two parts of the proxy core, which share no state: the       *)
(* control channel in a dialogue of one flight each, and the concurrent map. *)
(* A behaviour is that of one of them, and the other stays as it begins.     *)
EXTENDS OpenVpnControl, ConcurrentMap

CONSTANTS k1, k2, k3

(* The server answers when it has one message, the client speaks first. *)
Finished == <<1>>
Hello == <<0>>

(* k1 and k3 share a bucket and a tag, k2 has its tag in another bucket. *)
Clashing == {[k \in Keys |-> [h1 |-> IF k = k2 THEN 1 ELSE 0, h2 |-> 1]]}

(* A map that the next key in the bucket of k1 makes grow, and one that      *)
(* shrinks when k1 is deleted.                                               *)
Maps == {[len |-> 2, keys |-> <<k1, k2>>], [len |-> 4, keys |-> <<k1>>]}

(* k2 is only there to be counted.  Two calls may be any two, a third meets  *)
(* a load, stores and deletions, and a third thread only stores k1.  The     *)
(* thread that calls first is 1.                                             *)
Workload ==
    /\ \A t \in Threads : local[t].key # k2 /\ (~At(t, "idle") => calls >= t)
    /\ calls > 2 => \A t \in Threads : local[t].op \notin {"loadOrStore", "clear"}
    /\ local[3].op \in {"store", Nil}
    /\ ~At(3, "idle") => local[3].key = k1 /\ local[2].op \in {"store", Nil} /\ local[1].op # "load"

(* The fault hits the first epoch, or the change from it; what arrives twice *)
(* may still arrive in the last.                                             *)
EarlyFault == faults' # faults => epoch = 0

ProxyInit == ControlInit /\ MapInit

ProxyNext ==
    \/ MapInit /\ tables[table].len = MinLen /\ ControlNext /\ EarlyFault
       /\ UNCHANGED mapVars
    \/ ControlInit /\ MapNext /\ Workload' /\ UNCHANGED controlVars

FairSpec ==
    ProxyInit /\ [][ProxyNext]_<<controlVars, mapVars>> /\ ControlFairness
=============================================================================
