---------------------------- MODULE LeakWatchdog ----------------------------
(* The leak watchdog of the Android host (LeakWatchdog.kt): one object, from *)
(* its start to its stop.  It asks the same question through the tunnel and  *)
(* beside it, a round of three endpoints at a time, and tells the user of a  *)
(* leak or of a dead tunnel after two rounds that agree.                     *)
(*                                                                           *)
(* Rounds are put off by the main thread, the connectivity thread, the       *)
(* thread that starts the VPN and the one that has judged a round.  They     *)
(* share pendingTask without a lock: scheduleRound is four steps.  Delays    *)
(* are left open, but for the least interval of two rounds.                  *)
EXTENDS Naturals, Sequences

CONSTANTS
    MaxTasks,   \* tasks that are posted, or about to be
    MaxQueued,  \* rounds that wait for the executor's thread
    NoTask

ASSUME WatchdogAssumption ==
    {MaxTasks, MaxQueued} \subseteq Nat \ {0} /\ NoTask \notin Nat

Tasks == 1 .. MaxTasks
Threads == {"main", "net", "starter", "executor"}
Problems == {"leak", "down"}

VARIABLES
    started, stopped, screenOn,
    soon,            \* is the last round less than MIN_INTERVAL_MS ago?
    pendingTask,
    posted,          \* the tasks in the handler of the main thread
    calls,           \* of each thread: where it is in scheduleRound
    queued, probing, \* the executor: rounds that wait, and one at work
    leakStreak, downStreak, currentProblem,
    verdicts,        \* history: the last two rounds that had an answer
    owed             \* history: has a round asked for another to confirm it?

switches == <<started, stopped, screenOn>>
handler == <<pendingTask, posted>>
judgement == <<leakStreak, downStreak, currentProblem, verdicts>>
watchVars == <<switches, soon, handler, calls, queued, probing, judgement, owed>>

Free == [at |-> "free", task |-> NoTask]
IsFree(t) == calls[t].at = "free"

WatchTypeOK ==
    /\ {started, stopped, screenOn, soon, probing, owed} \subseteq BOOLEAN
    /\ pendingTask \in Tasks \cup {NoTask} /\ posted \subseteq Tasks
    /\ calls \in [Threads -> [at : {"free", "read", "remove", "set", "post"},
                              task : Tasks \cup {NoTask}]]
    /\ queued \in 0 .. MaxQueued
    /\ {leakStreak, downStreak} \subseteq 0 .. 2 /\ 0 \in {leakStreak, downStreak}
    /\ currentProblem \in Problems \cup {"none"}
    /\ verdicts \in Seq(Problems \cup {"fine"}) /\ Len(verdicts) <= 2

WatchInit ==
    /\ started = FALSE /\ stopped = FALSE /\ screenOn = FALSE
    /\ soon = FALSE
    /\ pendingTask = NoTask /\ posted = {}
    /\ calls = [t \in Threads |-> Free]
    /\ queued = 0 /\ probing = FALSE
    /\ leakStreak = 0 /\ downStreak = 0 /\ currentProblem = "none"
    /\ verdicts = <<>> /\ owed = FALSE

-----------------------------------------------------------------------------
(* scheduleRound *)
ScheduleRound(t) == IsFree(t) /\ calls' = [calls EXCEPT ![t].at = "read"]

At(t, here, there, task) ==
    /\ calls[t].at = here
    /\ calls' = [calls EXCEPT ![t] = [at |-> there, task |-> task]]
    /\ UNCHANGED <<switches, soon, queued, probing, judgement, owed>>

ReadPending(t) ==
    /\ \/ stopped /\ At(t, "read", "free", NoTask)
       \/ ~stopped /\ At(t, "read", "remove", pendingTask)
    /\ UNCHANGED handler

RemoveOld(t) ==
    /\ At(t, "remove", "set", NoTask)
    /\ posted' = posted \ {calls[t].task} /\ UNCHANGED pendingTask

InUse == posted \cup {pendingTask} \cup {calls[t].task : t \in Threads}

SetPending(t) ==
    \E k \in Tasks \ InUse :
        /\ \A j \in Tasks \ InUse : k <= j
        /\ At(t, "set", "post", k)
        /\ pendingTask' = k /\ UNCHANGED posted

Post(t) ==
    /\ At(t, "post", "free", NoTask)
    /\ posted' = posted \cup {calls[t].task} /\ UNCHANGED pendingTask

-----------------------------------------------------------------------------
(* start and stop exclude each other; stop runs on the main thread. *)
StartWatch ==
    /\ ~stopped /\ started' = TRUE
    /\ screenOn' \in (IF started THEN {screenOn} ELSE BOOLEAN)
    /\ ScheduleRound("starter")
    /\ UNCHANGED <<stopped, soon, handler, queued, probing, judgement, owed>>

StopWatch ==
    /\ started /\ ~stopped /\ IsFree("main") /\ IsFree("starter")
    /\ stopped' = TRUE /\ started' = FALSE
    /\ pendingTask' = NoTask /\ posted' = {} /\ queued' = 0 /\ owed' = FALSE
    /\ UNCHANGED <<screenOn, soon, calls, probing, judgement>>

(* What puts a round off: a network, the screen, the timer of half an hour. *)
NetworkChanged ==
    /\ started /\ ~stopped /\ ScheduleRound("net")
    /\ UNCHANGED <<switches, soon, handler, queued, probing, judgement, owed>>

ScreenStateChanged ==
    /\ started /\ ~stopped /\ IsFree("main")
    /\ screenOn' = ~screenOn
    /\ IF screenOn' THEN ScheduleRound("main") ELSE UNCHANGED calls
    /\ UNCHANGED <<started, stopped, soon, handler, queued, probing, judgement, owed>>

TimerTicks ==
    /\ started /\ ~stopped /\ screenOn /\ ScheduleRound("main")
    /\ UNCHANGED <<switches, soon, handler, queued, probing, judgement, owed>>

(* Mutant: a task that is early is dropped. *)
RunTaskDrops(k) ==
    /\ k \in posted /\ IsFree("main")
    /\ posted' = posted \ {k} /\ pendingTask' = NoTask
    /\ \/ (stopped \/ ~started \/ soon) /\ UNCHANGED <<calls, soon, queued>>
       \/ /\ ~stopped /\ started /\ ~soon /\ queued < MaxQueued
          /\ soon' = TRUE /\ queued' = queued + 1 /\ UNCHANGED calls
    /\ UNCHANGED <<switches, probing, judgement, owed>>

(* A task, with runRound: a round that comes too early is put off again. *)
RunTask(k) ==
    /\ k \in posted /\ IsFree("main")
    /\ posted' = posted \ {k} /\ pendingTask' = NoTask
    /\ \/ (stopped \/ ~started) /\ UNCHANGED <<calls, soon, queued>>
       \/ /\ ~stopped /\ started /\ soon
          /\ ScheduleRound("main") /\ UNCHANGED <<soon, queued>>
       \/ /\ ~stopped /\ started /\ ~soon /\ queued < MaxQueued
          /\ soon' = TRUE /\ queued' = queued + 1 /\ UNCHANGED calls
    /\ UNCHANGED <<switches, probing, judgement, owed>>

IntervalOver ==
    /\ soon /\ soon' = FALSE
    /\ UNCHANGED <<switches, handler, calls, queued, probing, judgement, owed>>

-----------------------------------------------------------------------------
(* doRound, on the executor's one thread.  It is given up, without another,  *)
(* when there is no physical network or the VPN is stopped or paused: before *)
(* it begins or after an endpoint.                                           *)
BeginRound ==
    /\ queued > 0 /\ ~probing /\ IsFree("executor")
    /\ queued' = queued - 1 /\ probing' = TRUE /\ owed' = FALSE
    /\ UNCHANGED <<switches, soon, handler, calls, judgement>>

GiveUpRound ==
    /\ probing /\ probing' = FALSE
    /\ UNCHANGED <<switches, soon, handler, calls, queued, judgement, owed>>

Verdict(real, answers, agreements) ==
    IF ~real THEN "silent"
    ELSE IF answers = 0 THEN "down"
    ELSE IF agreements >= 2 THEN "leak" ELSE "fine"

Recent(v) == IF Len(verdicts) < 2 THEN Append(verdicts, v) ELSE <<verdicts[2], v>>
Longer(streak) == IF streak = 2 THEN 2 ELSE streak + 1

(* Mutant: a round with a leak does not end a streak of dead tunnels. *)
CountLeakOnly(v) ==
    /\ leakStreak' = IF v = "leak" THEN Longer(leakStreak) ELSE 0
    /\ downStreak' = IF v = "down" THEN Longer(downStreak)
                     ELSE IF v = "leak" THEN downStreak ELSE 0

CountStreaks(v) ==
    /\ leakStreak' = IF v = "leak" THEN Longer(leakStreak) ELSE 0
    /\ downStreak' = IF v = "down" THEN Longer(downStreak) ELSE 0

Judge(v) ==
    /\ CountStreaks(v) /\ verdicts' = Recent(v)
    /\ \/ v = "fine" /\ currentProblem' = "none" /\ UNCHANGED <<calls, owed>>
       \/ /\ v \in Problems /\ {leakStreak', downStreak'} \subseteq {0, 1}
          /\ ScheduleRound("executor") /\ owed' = TRUE
          /\ UNCHANGED currentProblem
       \/ /\ v \in Problems /\ 2 \in {leakStreak', downStreak'}
          /\ currentProblem' = v /\ UNCHANGED <<calls, owed>>

(* Three endpoints, each asked directly and through the tunnel. *)
EndRound(real, answers, agreements) ==
    /\ probing /\ started /\ ~stopped
    /\ agreements <= answers /\ (agreements > 0 => real)
    /\ probing' = FALSE
    /\ LET v == Verdict(real, answers, agreements) IN
       IF v = "silent" THEN UNCHANGED <<judgement, calls, owed>> ELSE Judge(v)
    /\ UNCHANGED <<switches, soon, handler, queued>>

-----------------------------------------------------------------------------
WatchNext ==
    \/ StartWatch \/ StopWatch \/ NetworkChanged \/ ScreenStateChanged
    \/ TimerTicks \/ IntervalOver \/ BeginRound \/ GiveUpRound
    \/ \E k \in Tasks : RunTask(k)
    \/ \E t \in Threads :
          ReadPending(t) \/ RemoveOld(t) \/ SetPending(t) \/ Post(t)
    \/ \E real \in BOOLEAN, answers, agreements \in 0 .. 3 :
          EndRound(real, answers, agreements)

WatchSpec == WatchInit /\ [][WatchNext]_watchVars

-----------------------------------------------------------------------------
(* The user is told of a problem after two rounds in a row have seen it.     *)
(* Rounds without an answer of the physical network may lie between them,    *)
(* rounds with another answer may not.                                       *)
AlertsConfirmed ==
    [][currentProblem' # currentProblem /\ currentProblem' # "none"
        => verdicts' = <<currentProblem', currentProblem'>>]_watchVars

(* A first suspicion is followed up: the round that is to confirm it is      *)
(* posted, about to be, or waits for the thread, however many others have    *)
(* put a round off at the same time and taken each other's task away.        *)
FollowedUp ==
    owed => posted # {} \/ queued > 0 \/ \E t \in Threads : ~IsFree(t)

(* The watchdog as a whole: its types and its promise of a second round.     *)
WatchInv == WatchTypeOK /\ FollowedUp
=============================================================================
