----------------------------- MODULE MCDozeHub -----------------------------
(* Model values for CoreHub and DozeHub, and two sums of small worlds.  A    *)
(* state outside its world is checked, and not followed.                     *)
EXTENDS DozeHub, TLC

CONSTANTS r1, r2, jvm, p1, p2

TwoRequests == {r1, r2}
OneSuspender == {jvm}
TwoPorts == {p1, p2}
OnePort == {p1}
SetupEntries == {"clearChecks", "setupLock"}

Symmetry == Permutations(TwoRequests) \cup Permutations(TwoPorts)

(* run hub: with MaxChanges = 0 the module is never installed.  Where nobody *)
(* suspends, two requests of any kind meet, and no setup fails after the last *)
(* success; where anyone may suspend, two of the three threads meet: setups  *)
(* that succeed, no more than MaxSetups, a shutdown and the suspender, with  *)
(* one port.                                                                 *)
OtherSteps == {"startLock", "stopLock", "updateLock", "changeLock",
               "externalLock", "fetch", "sideLock"}

Worlds ==
    IF driven THEN failed => made < MaxSetups
    ELSE /\ \A t \in Callers : pc[t] \notin OtherSteps
         /\ Cardinality({t \in Threads : pc[t] # "idle"}) <= 2
         /\ currentConfig # None => currentConfig.port = p1
         /\ ~failed
         /\ made = MaxSetups =>
               \A t \in Callers : pc[t] \notin {"clearChecks", "clearWG", "setupLock"}

(* run hub_doze: where the module suspends the core one request runs, and    *)
(* none meets the last change; where anyone may, two of two requests and the *)
(* suspender do.                                                             *)
Scenario ==
    IF driven THEN pc[r2] = "idle" /\ (changes = MaxChanges => pc[r1] = "idle")
    ELSE Cardinality({t \in Threads : pc[t] # "idle"}) <= 2

=============================================================================
