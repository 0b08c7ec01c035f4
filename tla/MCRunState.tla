----------------------------- MODULE MCRunState -----------------------------
(* Instances of RunState for TLC: symmetry, and what a run lets happen.      *)
EXTENDS RunState, TLC

Symmetry == Permutations(Flows)

(* All that can happen to a bind or to what a pause leaves behind. *)
HostEntries == {"start", "stop", "sync", "revoke", "pause", "auto", "crash"}

(* What a user can press. *)
Buttons == {"start", "stop", "tile", "restart", "pause", "resume"}

StartStop  == {"start", "stop"}
PauseAuto  == {"start", "pause", "auto"}
PauseCrash == {"start", "pause", "crash"}

(* How much is under way in the host: the flows, and of the main thread, the *)
(* timer, the Dart side, a stop, a connection, the dialog and a pause that   *)
(* is over, those that are.                                                  *)
Others ==
    <<main # "idle", timer # "idle", auto # "idle", stops # {}, connecting,
      dialog, due>>

UnderWay ==
    Cardinality({f \in Flows : at[f] # "free"})
    + Cardinality({i \in DOMAIN Others : Others[i]})

FourAtOnce  == UnderWay <= 4
ThreeAtOnce == UnderWay <= 3

(* A restart waits beside two of these at most. *)
FewAtRestart == restart => UnderWay <= 2
=============================================================================
