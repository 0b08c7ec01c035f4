---------------------------- MODULE MCRunOrphan ----------------------------
(* The instance of run run_orphan: two flows of the Android host as in       *)
(* MCRunState, the leak watchdog, and the frames of the desktop.  They share *)
(* no state: a behaviour is that of one, and the others stay as they begin.  *)
EXTENDS MCRunState, LeakWatchdog, FrameCodec

(* Two threads put a round off at one time, and leave at most three tasks    *)
(* with those that they found.                                               *)
WatchBound ==
    LET busy == Cardinality({t \in Threads : ~IsFree(t)})
    IN busy <= 2 /\ busy + Cardinality(posted) <= 3

OrphanBound == WatchBound /\ ThreeAtOnce

OrphanInit == Init /\ WatchInit /\ CodecInit

OrphanNext ==
    \/ WatchInit /\ CodecInit /\ Next /\ UNCHANGED <<watchVars, codecVars>>
    \/ Init /\ prepared /\ CodecInit /\ WatchNext /\ UNCHANGED <<vars, codecVars>>
    \/ Init /\ prepared /\ WatchInit /\ CodecNext /\ UNCHANGED <<vars, watchVars>>

OrphanSpec == OrphanInit /\ [][OrphanNext]_<<vars, watchVars, codecVars>>
=============================================================================
