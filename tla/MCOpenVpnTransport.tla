------------------------- MODULE MCOpenVpnTransport -------------------------
(* Instances of the modules below and above the control channel.  They share *)
(* no state: a behaviour is one module's, and the others stay as they begin, *)
(* where none of their fair actions is enabled.                              *)
EXTENDS OpenVpnWrite, OpenVpnData, OpenVpnOutbound

TransportInit == WriteInit /\ DataInit /\ OutboundInit

(* Once a second deadline is set no data is written. *)
Workload ==
    writeDeadlineGeneration - writeGeneration = LastDeadline =>
        \A w \in DataWriters : pc[w] = "idle"

TransportNext ==
    \/ DataInit /\ OutboundInit /\ WriteNext /\ Workload'
       /\ UNCHANGED <<dataVars, outboundVars>>
    \/ WriteInit /\ OutboundInit /\ DataNext /\ UNCHANGED <<writeVars, outboundVars>>
    \/ WriteInit /\ DataInit /\ OutboundNext /\ UNCHANGED <<writeVars, dataVars>>

FairSpec ==
    /\ TransportInit /\ [][TransportNext]_<<writeVars, dataVars, outboundVars>>
    /\ WriteFairness /\ DataFairness /\ OutboundFairness

-----------------------------------------------------------------------------
(* The liveness of the three: a cancelled writer returns, a paused sender    *)
(* goes on, a failed link gives its place up and Close returns.              *)
TransportEnds == WritersReturn /\ PausedGoOn /\ LinksEnd
=============================================================================
