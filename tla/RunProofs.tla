----------------------------- MODULE RunProofs ------------------------------
(* Proofs about three state machines that share no step: LeakWatchdog, for   *)
(* any number of tasks and of rounds that wait, RunState, for any flows,     *)
(* entries and number of stops, and FrameCodec, for any base, any limit and  *)
(* any number of frames.                                                     *)
EXTENDS RunState, LeakWatchdog, FrameCodec, SequenceTheorems, WellFoundedInduction,
        TLAPS

-----------------------------------------------------------------------------
(* LeakWatchdog                                                              *)
(*                                                                           *)
(* A promised round is lost only where somebody takes away the last trace of *)
(* it: a thread that leaves scheduleRound, a task that runs, the executor    *)
(* that begins.  Each leaves another trace behind unless the watchdog has    *)
(* been stopped, and a stopped one owes nothing (OwedAlive).                 *)

LEMMA Bounds == MaxTasks \in Nat /\ MaxQueued \in Nat /\ NoTask \notin Tasks
  BY WatchdogAssumption DEF Tasks

(* The type invariant in parts: the switches, the tasks, the judgement. *)
CallsOK ==
    /\ calls \in [Threads -> [at : {"free", "read", "remove", "set", "post"},
                              task : Tasks \cup {NoTask}]]
    /\ \A t \in Threads : calls[t].at = "post" => calls[t].task \in Tasks
SwitchesOK == /\ started \in BOOLEAN /\ stopped \in BOOLEAN /\ screenOn \in BOOLEAN
              /\ soon \in BOOLEAN /\ probing \in BOOLEAN /\ owed \in BOOLEAN
TasksOK == /\ pendingTask \in Tasks \cup {NoTask} /\ posted \subseteq Tasks
           /\ CallsOK /\ queued \in 0 .. MaxQueued
JudgedOK == /\ leakStreak \in 0 .. 2 /\ downStreak \in 0 .. 2
            /\ leakStreak = 0 \/ downStreak = 0
            /\ currentProblem \in Problems \cup {"none"}
VerdictsOK == verdicts \in Seq(Problems \cup {"fine"}) /\ Len(verdicts) \in {0, 1, 2}
TypeParts == SwitchesOK /\ TasksOK /\ JudgedOK /\ VerdictsOK

OwedAlive == owed => started /\ ~stopped

LastVerdict == verdicts[Len(verdicts)]

(* A streak begins with its own verdict, the last that was given. *)
StreakOK ==
    /\ leakStreak # 0 => verdicts # <<>> /\ LastVerdict = "leak"
    /\ downStreak # 0 => verdicts # <<>> /\ LastVerdict = "down"

WatchProofInv == TypeParts /\ FollowedUp /\ OwedAlive /\ StreakOK

Switching == StartWatch \/ StopWatch \/ NetworkChanged \/ ScreenStateChanged
             \/ TimerTicks

-----------------------------------------------------------------------------
(* What ScheduleRound and its steps leave in `calls`. *)
LEMMA ScheduledType ==
  ASSUME CallsOK, NEW t \in Threads, ScheduleRound(t)
  PROVE  CallsOK' /\ calls'[t].at = "read"
  BY DEF CallsOK, ScheduleRound

LEMMA AtType ==
  ASSUME CallsOK, NEW t \in Threads, NEW here, NEW task \in Tasks \cup {NoTask},
         NEW there \in {"free", "read", "remove", "set", "post"},
         there = "post" => task \in Tasks, At(t, here, there, task)
  PROVE  CallsOK' /\ calls'[t].at = there
  BY DEF CallsOK, At

LEMMA SwitchingKeeps ==
  ASSUME WatchProofInv, Switching
  PROVE  WatchProofInv'
  <1> USE DEF WatchProofInv, TypeParts, handler, judgement, switches
  <1>1. \/ UNCHANGED calls
        \/ \E t \in Threads : ScheduleRound(t)
    BY DEF Switching, StartWatch, StopWatch, NetworkChanged, ScreenStateChanged,
       TimerTicks, Threads
  <1>2. CallsOK' /\ (calls' # calls => \E t \in Threads : ~IsFree(t)')
    BY <1>1, ScheduledType DEF TasksOK, CallsOK, IsFree
  <1>3. SwitchesOK'
    BY Zenon DEF SwitchesOK, Switching, StartWatch, StopWatch, NetworkChanged,
       ScreenStateChanged, TimerTicks
  <1>4. TasksOK'
    BY <1>2, Bounds DEF TasksOK, Switching, StartWatch, StopWatch, NetworkChanged,
       ScreenStateChanged, TimerTicks
  <1>5. JudgedOK' /\ VerdictsOK' /\ StreakOK'
    BY DEF JudgedOK, VerdictsOK, StreakOK, LastVerdict, Switching, StartWatch,
       StopWatch,
       NetworkChanged, ScreenStateChanged, TimerTicks
  <1>6. FollowedUp' /\ OwedAlive'
    BY <1>2 DEF FollowedUp, OwedAlive, IsFree, Switching, StartWatch, StopWatch,
       NetworkChanged, ScreenStateChanged, TimerTicks
  <1> QED BY <1>3, <1>4, <1>5, <1>6

LEMMA SchedulingKeeps ==
  ASSUME WatchProofInv, NEW t \in Threads,
         ReadPending(t) \/ RemoveOld(t) \/ SetPending(t) \/ Post(t)
  PROVE  WatchProofInv'
  <1> USE DEF WatchProofInv, TypeParts, handler, judgement, switches
  <1>1. CallsOK /\ UNCHANGED <<switches, soon, queued, probing, judgement, owed>>
    BY DEF ReadPending, RemoveOld, SetPending, Post, At, SwitchesOK, TasksOK,
       CallsOK, JudgedOK, VerdictsOK
  <1>2. CASE ReadPending(t)
    <2>1. CallsOK' /\ (~stopped => ~IsFree(t)')
      BY <1>1, <1>2, AtType DEF ReadPending, SwitchesOK, TasksOK, CallsOK,
         JudgedOK, VerdictsOK, IsFree
    <2> QED BY <1>1, <1>2, <2>1 DEF ReadPending, SwitchesOK, TasksOK, CallsOK,
       JudgedOK, VerdictsOK, FollowedUp,
         OwedAlive, StreakOK, LastVerdict
  <1>3. CASE RemoveOld(t)
    <2>1. CallsOK' /\ ~IsFree(t)'
      BY <1>1, <1>3, AtType DEF RemoveOld, IsFree
    <2> QED BY <1>1, <1>3, <2>1 DEF RemoveOld, SwitchesOK, TasksOK, CallsOK,
       JudgedOK, VerdictsOK, FollowedUp,
         OwedAlive, StreakOK, LastVerdict
  <1>4. CASE SetPending(t)
    <2>1. PICK k \in Tasks : At(t, "set", "post", k) /\ pendingTask' = k
                             /\ UNCHANGED posted
      BY <1>4 DEF SetPending
    <2>2. CallsOK' /\ ~IsFree(t)'
      BY <1>1, <2>1, AtType DEF IsFree
    <2> QED BY <1>1, <2>1, <2>2 DEF SwitchesOK, TasksOK, CallsOK, JudgedOK,
       VerdictsOK, FollowedUp, OwedAlive,
         StreakOK, LastVerdict
  <1>5. CASE Post(t)
    <2>1. CallsOK' /\ posted' = posted \cup {calls[t].task} /\ calls[t].task \in Tasks
      BY <1>1, <1>5, AtType DEF Post, At, CallsOK
    <2> QED BY <1>1, <1>5, <2>1 DEF Post, SwitchesOK, TasksOK, CallsOK, JudgedOK,
       VerdictsOK, FollowedUp, OwedAlive,
         StreakOK, LastVerdict
  <1> QED BY <1>2, <1>3, <1>4, <1>5

LEMMA RunKeeps ==
  ASSUME WatchProofInv, NEW k \in Tasks, RunTask(k)
  PROVE  WatchProofInv'
  <1> USE DEF WatchProofInv, TypeParts, handler, judgement, switches
  <1>1. CallsOK' /\ (calls' = calls \/ \E t \in Threads : ~IsFree(t)')
    BY ScheduledType DEF RunTask, SwitchesOK, TasksOK, CallsOK, JudgedOK,
       VerdictsOK, Threads, IsFree
  <1>2. SwitchesOK' /\ JudgedOK' /\ VerdictsOK'
    BY DEF RunTask, SwitchesOK, JudgedOK, VerdictsOK
  <1>5. TasksOK'
    BY <1>1, Bounds DEF RunTask, TasksOK
  <1>3. FollowedUp' /\ OwedAlive'
    <2>1. owed => started /\ ~stopped
      BY DEF OwedAlive
    <2>2. CASE UNCHANGED calls /\ queued' = queued + 1
      BY <2>1, <2>2 DEF RunTask, FollowedUp, OwedAlive, TasksOK
    <2>3. CASE ScheduleRound("main")
      BY <2>1, <2>3, ScheduledType DEF RunTask, FollowedUp, OwedAlive, TasksOK,
         IsFree, Threads
    <2> QED BY <2>1, <2>2, <2>3 DEF RunTask, FollowedUp, OwedAlive
  <1>4. StreakOK'
    BY DEF RunTask, StreakOK, LastVerdict
  <1> QED BY <1>2, <1>3, <1>4, <1>5

LEMMA ExecutorKeeps ==
  ASSUME WatchProofInv, IntervalOver \/ BeginRound \/ GiveUpRound
  PROVE  WatchProofInv'
  <1> USE DEF WatchProofInv, TypeParts, handler, judgement, switches, IntervalOver,
              BeginRound, GiveUpRound
  <1>1. SwitchesOK' /\ JudgedOK' /\ VerdictsOK'
    BY DEF SwitchesOK, JudgedOK, VerdictsOK
  <1>3. TasksOK'
    BY Bounds DEF TasksOK, CallsOK
  <1>2. FollowedUp' /\ OwedAlive' /\ StreakOK'
    BY DEF FollowedUp, OwedAlive, StreakOK, LastVerdict, IsFree
  <1> QED BY <1>1, <1>2, <1>3

-----------------------------------------------------------------------------
(* The two verdicts that are kept: the new one is the last. *)
LEMMA AppendToOne ==
  ASSUME NEW S, NEW s \in Seq(S), NEW v \in S, Len(s) = 1
  PROVE  Append(s, v) = <<s[1], v>>
  <1>1. Append(s, v) \in Seq(S) /\ Len(Append(s, v)) = 2
    OBVIOUS
  <1>2. s[1] \in S
    <2>1. 1 \in 1 .. Len(s)
      OBVIOUS
    <2> QED BY <2>1, ElementOfSeq
  <1>3. <<s[1], v>> \in Seq(S) /\ Len(<<s[1], v>>) = 2
    BY <1>2
  <1>4. Append(s, v)[1] = <<s[1], v>>[1]
    BY AppendProperties, SMTT(30)
  <1>5. Append(s, v)[2] = <<s[1], v>>[2]
    BY AppendProperties
  <1>6. \A i \in 1 .. Len(Append(s, v)) : Append(s, v)[i] = <<s[1], v>>[i]
    BY <1>1, <1>4, <1>5
  <1> QED BY <1>1, <1>3, <1>6, SeqEqual

LEMMA RecentVerdicts ==
  ASSUME VerdictsOK, NEW v \in Problems \cup {"fine"}
  PROVE  /\ Recent(v) \in Seq(Problems \cup {"fine"})
         /\ Len(Recent(v)) \in {1, 2} /\ Recent(v)[Len(Recent(v))] = v
         /\ verdicts # <<>> => Recent(v) = <<LastVerdict, v>>
  <1> DEFINE V == Problems \cup {"fine"}
  <1>1. verdicts \in Seq(V) /\ Len(verdicts) \in {0, 1, 2} /\ v \in V
    BY DEF VerdictsOK
  <1> HIDE DEF V
  <1>2. CASE Len(verdicts) = 0
    <2>1. verdicts = <<>> /\ Recent(v) = Append(verdicts, v)
      BY <1>1, <1>2, EmptySeq DEF Recent
    <2>2. Recent(v) \in Seq(V) /\ Len(Recent(v)) = 1 /\ Recent(v)[1] = v
      BY <1>1, <1>2, <2>1
    <2> QED BY <2>1, <2>2 DEF V
  <1>3. CASE Len(verdicts) = 1
    <2>1. Recent(v) = <<verdicts[1], v>>
      BY <1>1, <1>3, AppendToOne DEF Recent
    <2>2. verdicts[1] \in V /\ LastVerdict = verdicts[1]
      <3>1. 1 \in 1 .. Len(verdicts)
        BY <1>3
      <3> QED BY <1>1, <1>3, <3>1, ElementOfSeq DEF LastVerdict
    <2>3. Recent(v) \in Seq(V) /\ Len(Recent(v)) = 2 /\ Recent(v)[2] = v
      BY <1>1, <2>1, <2>2
    <2> QED BY <2>1, <2>2, <2>3 DEF V
  <1>4. CASE Len(verdicts) = 2
    <2>1. Recent(v) = <<verdicts[2], v>>
      BY <1>4 DEF Recent
    <2>2. verdicts[2] \in V /\ LastVerdict = verdicts[2]
      <3>1. 2 \in 1 .. Len(verdicts)
        BY <1>4
      <3> QED BY <1>1, <1>4, <3>1, ElementOfSeq DEF LastVerdict
    <2>3. Recent(v) \in Seq(V) /\ Len(Recent(v)) = 2 /\ Recent(v)[2] = v
      BY <1>1, <2>1, <2>2
    <2> QED BY <2>1, <2>2, <2>3 DEF V
  <1> QED BY <1>1, <1>2, <1>3, <1>4

LEMMA JudgeKeeps ==
  ASSUME WatchProofInv, NEW v \in Problems \cup {"fine"}, Judge(v),
         started, ~stopped, probing' = FALSE,
         UNCHANGED <<switches, soon, handler, queued>>
  PROVE  /\ WatchProofInv'
         /\ currentProblem' # currentProblem /\ currentProblem' # "none"
              => verdicts' = <<currentProblem', currentProblem'>>
  <1> USE DEF WatchProofInv, TypeParts, handler, switches, Problems
  <1>1. /\ leakStreak' \in 0 .. 2 /\ downStreak' \in 0 .. 2
        /\ leakStreak' # 0 => v = "leak" /\ downStreak' = 0
        /\ downStreak' # 0 => v = "down" /\ leakStreak' = 0
        /\ leakStreak' = 2 => leakStreak # 0
        /\ downStreak' = 2 => downStreak # 0
    BY DEF Judge, CountStreaks, Longer, SwitchesOK, TasksOK, CallsOK, JudgedOK,
       VerdictsOK
  <1>2. verdicts' = Recent(v)
    BY DEF Judge
  <1>3. /\ verdicts' \in Seq(Problems \cup {"fine"}) /\ Len(verdicts') \in {1, 2}
        /\ verdicts' # <<>> /\ LastVerdict' = v
        /\ verdicts # <<>> => verdicts' = <<LastVerdict, v>>
    <2>1. /\ verdicts' \in Seq(Problems \cup {"fine"}) /\ Len(verdicts') \in {1, 2}
          /\ verdicts'[Len(verdicts')] = v
          /\ verdicts # <<>> => verdicts' = <<LastVerdict, v>>
      BY <1>2, RecentVerdicts DEF TypeParts
    <2>2. verdicts' # <<>>
      BY <2>1
    <2> QED BY <2>1, <2>2 DEF LastVerdict
  <1>4. CallsOK' /\ (owed' => (owed /\ UNCHANGED calls) \/ \E t \in Threads : ~IsFree(t)')
    BY ScheduledType DEF Judge, SwitchesOK, TasksOK, CallsOK, JudgedOK, VerdictsOK,
       Threads, IsFree
  <1>5. TypeParts'
    BY <1>1, <1>3, <1>4 DEF SwitchesOK, TasksOK, CallsOK, JudgedOK, VerdictsOK,
       Judge
  <1>6. FollowedUp' /\ OwedAlive'
    BY <1>4 DEF FollowedUp, OwedAlive, IsFree
  <1>7. StreakOK'
    BY <1>1, <1>3 DEF StreakOK
  <1>8. ASSUME currentProblem' # currentProblem, currentProblem' # "none"
        PROVE  verdicts' = <<currentProblem', currentProblem'>>
    <2>1. currentProblem' = v /\ 2 \in {leakStreak', downStreak'}
      BY <1>8 DEF Judge
    <2>2. verdicts # <<>> /\ LastVerdict = v
      BY <1>1, <2>1 DEF StreakOK
    <2> QED BY <1>3, <2>1, <2>2
  <1> QED BY <1>5, <1>6, <1>7, <1>8

LEMMA EndKeeps ==
  ASSUME WatchProofInv, NEW real \in BOOLEAN, NEW answers \in 0 .. 3,
         NEW agreements \in 0 .. 3, EndRound(real, answers, agreements)
  PROVE  /\ WatchProofInv'
         /\ currentProblem' # currentProblem /\ currentProblem' # "none"
              => verdicts' = <<currentProblem', currentProblem'>>
  <1> DEFINE v == Verdict(real, answers, agreements)
  <1>1. CASE v = "silent"
    <2> USE <1>1 DEF WatchProofInv, TypeParts, handler, judgement, switches,
       EndRound
    <2>1. TypeParts'
      BY DEF SwitchesOK, TasksOK, CallsOK, JudgedOK, VerdictsOK
    <2>2. FollowedUp' /\ OwedAlive' /\ StreakOK'
      BY DEF FollowedUp, OwedAlive, StreakOK, LastVerdict, IsFree
    <2> QED BY <2>1, <2>2
  <1>2. CASE v # "silent"
    <2>1. v \in Problems \cup {"fine"}
      BY <1>2 DEF Verdict, Problems
    <2> QED BY <1>2, <2>1, JudgeKeeps DEF EndRound
  <1> QED BY <1>1, <1>2

-----------------------------------------------------------------------------
LEMMA WatchStep ==
  ASSUME WatchProofInv, [WatchNext]_watchVars
  PROVE  /\ WatchProofInv'
         /\ currentProblem' # currentProblem /\ currentProblem' # "none"
              => verdicts' = <<currentProblem', currentProblem'>>
  <1>1. CASE UNCHANGED watchVars
    BY <1>1 DEF watchVars, switches, handler, judgement, WatchProofInv, WatchInv,
       SwitchesOK, TasksOK, CallsOK, JudgedOK, VerdictsOK,
       TypeParts, FollowedUp, OwedAlive, StreakOK, LastVerdict, IsFree
  <1>2. CASE Switching
    BY <1>2, SwitchingKeeps DEF Switching, StartWatch, StopWatch, NetworkChanged,
       ScreenStateChanged, TimerTicks, judgement
  <1>3. CASE IntervalOver \/ BeginRound \/ GiveUpRound
    BY <1>3, ExecutorKeeps DEF IntervalOver, BeginRound, GiveUpRound, judgement
  <1>4. ASSUME NEW k \in Tasks, RunTask(k)
        PROVE  WatchProofInv' /\ currentProblem' = currentProblem
    BY <1>4, RunKeeps DEF RunTask, judgement
  <1>5. ASSUME NEW t \in Threads,
               ReadPending(t) \/ RemoveOld(t) \/ SetPending(t) \/ Post(t)
        PROVE  WatchProofInv' /\ currentProblem' = currentProblem
    BY <1>5, SchedulingKeeps DEF ReadPending, RemoveOld, SetPending, Post, At,
       judgement
  <1>6. ASSUME NEW real \in BOOLEAN, NEW answers \in 0 .. 3,
     NEW agreements \in 0 .. 3,
               EndRound(real, answers, agreements)
        PROVE  /\ WatchProofInv'
               /\ currentProblem' # currentProblem /\ currentProblem' # "none"
                    => verdicts' = <<currentProblem', currentProblem'>>
    BY <1>6, EndKeeps
  <1> QED BY <1>1, <1>2, <1>3, <1>4, <1>5, <1>6 DEF WatchNext, Switching

THEOREM WatchProofInvHolds == WatchSpec => []WatchProofInv
  <1>1. WatchInit => WatchProofInv
    <2> SUFFICES ASSUME WatchInit PROVE WatchProofInv
      OBVIOUS
    <2> USE DEF WatchInit
    <2>1. SwitchesOK
      BY Zenon DEF SwitchesOK
    <2>4. JudgedOK
      BY DEF JudgedOK
    <2>2. TasksOK /\ VerdictsOK
      BY Bounds DEF TasksOK, CallsOK, VerdictsOK, Free
    <2>3. FollowedUp /\ OwedAlive /\ StreakOK
      BY DEF FollowedUp, OwedAlive, StreakOK
    <2> QED BY <2>1, <2>2, <2>3, <2>4 DEF WatchProofInv, TypeParts
  <1> QED BY <1>1, WatchStep, PTL DEF WatchSpec

(* A suspicion is followed up by a round of its own, whatever threads put    *)
(* rounds off and take each other's task away (scheduleRound has no lock).   *)
THEOREM WatchInvHolds == WatchSpec => []WatchInv
  <1>1. WatchProofInv => WatchInv
    <2>1. SwitchesOK => {started, stopped, screenOn, soon, probing,
       owed} \subseteq BOOLEAN
      BY Zenon DEF SwitchesOK
    <2>2. JudgedOK => {leakStreak, downStreak} \subseteq 0 .. 2
                      /\ 0 \in {leakStreak, downStreak}
      BY DEF JudgedOK
    <2>3. VerdictsOK => verdicts \in Seq(Problems \cup {"fine"}) /\ Len(verdicts) <= 2
      <3>1. 0 <= 2 /\ 1 <= 2 /\ 2 <= 2
        OBVIOUS
      <3> QED BY <3>1 DEF VerdictsOK
    <2> QED BY <2>1, <2>2, <2>3, Zenon DEF WatchProofInv, WatchInv, WatchTypeOK,
       TypeParts, TasksOK,
         CallsOK, JudgedOK, VerdictsOK
  <1> QED BY <1>1, WatchProofInvHolds, PTL

(* The user is told only what two rounds in a row have seen, silent rounds   *)
(* between them not counted (judge in LeakWatchdog.kt).                      *)
THEOREM AlertsConfirmedHolds == WatchSpec => AlertsConfirmed
  <1>1. WatchProofInv /\ [WatchNext]_watchVars
          => [currentProblem' # currentProblem /\ currentProblem' # "none"
                => verdicts' = <<currentProblem', currentProblem'>>]_watchVars
    BY WatchStep
  <1> QED BY <1>1, WatchProofInvHolds, PTL DEF WatchSpec, AlertsConfirmed

-----------------------------------------------------------------------------
(* RunState *)

USE RunAssumption DEF state, flags, binding, consent, pause, core, world,
                      thread, flow

(* The stops whose lock is not cleared yet stay within MaxClears: one that   *)
(* is under way has its place kept.                                          *)
StopsFit ==
    main \in {"stopLock", "uninstall", "stopTun", "release"}
        => clears < MaxClears

ClearsOK == clears \in 0 .. MaxClears /\ StopsFit

TypeInv == TypeOK /\ StopsFit

(* The start of the Dart side, the consent and the connection.               *)
LEMMA StartStepType ==
  ASSUME TypeInv, NEW m \in Modes,
         Start(m)
  PROVE  TypeInv'
  <1> USE DEF TypeInv, TypeOK, CancelPauseSilently, ForgetPause,
              StartService, BindService, Launch
  <1>1. ClearsOK'
    BY DEF ClearsOK, StopsFit, TaskType, MainPlaces, Start
  <1>2. RunType'
    BY DEF RunType, Start
  <1>3. BindType'
    BY DEF BindType, Start
  <1>4. PauseType'
    BY DEF PauseType, Start
  <1>5. CoreType'
    BY DEF CoreType, Start
  <1>6. TaskType'
    BY DEF TaskType, MainPlaces, Start
  <1>7. FlowType'
    BY DEF FlowType, RunType, FlowPlaces, Starting, Start
  <1> QED BY <1>1, <1>2, <1>3, <1>4, <1>5, <1>6, <1>7 DEF ClearsOK

LEMMA BindStepType ==
  ASSUME TypeInv, Consent \/ ServiceConnected \/ BindTimeout
  PROVE  TypeInv'
  <1> USE DEF TypeInv, TypeOK, StartService, BindService, Launch,
              UpdateRunState
  <1>1. ClearsOK'
    BY DEF ClearsOK, StopsFit, TaskType, MainPlaces, Consent,
           ServiceConnected, BindTimeout
  <1>2. RunType'
    <2>1. CASE Consent
      BY <2>1 DEF RunType, Consent
    <2>2. CASE ServiceConnected
      BY <2>2 DEF RunType, ServiceConnected
    <2>3. CASE BindTimeout
      BY <2>3 DEF RunType, BindTimeout
    <2> QED BY <2>1, <2>2, <2>3
  <1>3. BindType'
    BY DEF BindType, Consent, ServiceConnected, BindTimeout
  <1>4. PauseType'
    BY DEF PauseType, Consent, ServiceConnected, BindTimeout
  <1>5. CoreType'
    BY DEF CoreType, Consent, ServiceConnected, BindTimeout
  <1>6. TaskType'
    <2>1. CASE Consent
      BY <2>1 DEF TaskType, MainPlaces, Consent
    <2>2. CASE ServiceConnected
      BY <2>2 DEF TaskType, MainPlaces, ServiceConnected
    <2>3. CASE BindTimeout
      BY <2>3 DEF TaskType, MainPlaces, BindTimeout
    <2> QED BY <2>1, <2>2, <2>3
  <1>7. FlowType'
    BY DEF FlowType, RunType, FlowPlaces, Starting, Consent,
           ServiceConnected, BindTimeout
  <1> QED BY <1>1, <1>2, <1>3, <1>4, <1>5, <1>6, <1>7 DEF ClearsOK

LEMMA AskType ==
  ASSUME TypeInv, NEW f \in Flows, Ask(f)
  PROVE  TypeInv'
  <1> USE DEF TypeInv, TypeOK, Goto, EndFlow, BindService, Ask
  <1>1. ClearsOK'
    BY DEF ClearsOK, StopsFit, TaskType, MainPlaces
  <1>2. RunType'
    BY DEF RunType
  <1>3. BindType'
    BY DEF BindType
  <1>4. PauseType'
    BY DEF PauseType
  <1>5. CoreType'
    BY DEF CoreType
  <1>6. TaskType'
    BY DEF TaskType, MainPlaces
  <1>7. FlowType'
    BY DEF FlowType, FlowPlaces, Starting
  <1> QED BY <1>1, <1>2, <1>3, <1>4, <1>5, <1>6, <1>7 DEF ClearsOK

(* The flows.                                                                *)
LEMMA FlowStepType ==
  ASSUME TypeInv, NEW f \in Flows,
         \/ Prepare(f) \/ ClaimStart(f) \/ ClaimResume(f) \/ Wake(f)
         \/ Establish(f) \/ StartFails(f) \/ Check(f) \/ StartTun(f)
         \/ Commit(f) \/ Watch(f)
  PROVE  TypeInv'
  <1> USE DEF TypeInv, TypeOK, Goto, EndFlow, UpdateRunState, BindService,
              OthersStart
  <1>1. ClearsOK'
    BY DEF ClearsOK, StopsFit, TaskType, MainPlaces, Prepare, ClaimStart,
           ClaimResume, Wake, Establish, StartFails, Check, StartTun,
           Commit, Watch
  <1>2. RunType'
    <2>1. CASE Prepare(f)
      BY <2>1 DEF RunType, Prepare
    <2>2. CASE ClaimStart(f)
      BY <2>2 DEF RunType, ClaimStart
    <2>3. CASE ClaimResume(f)
      BY <2>3 DEF RunType, FlowType, ClaimResume
    <2>4. CASE Wake(f)
      BY <2>4 DEF RunType, Wake
    <2>5. CASE Establish(f)
      BY <2>5 DEF RunType, Establish
    <2>6. CASE StartFails(f)
      BY <2>6 DEF RunType, StartFails
    <2>7. CASE Check(f)
      BY <2>7 DEF RunType, Check
    <2>8. CASE StartTun(f)
      BY <2>8 DEF RunType, StartTun
    <2>9. CASE Commit(f)
      BY <2>9 DEF RunType, Commit
    <2>10. CASE Watch(f)
      BY <2>10 DEF RunType, Watch
    <2> QED BY <2>1, <2>2, <2>3, <2>4, <2>5, <2>6, <2>7, <2>8, <2>9, <2>10
  <1>3. BindType'
    BY DEF BindType, Prepare, ClaimStart, ClaimResume, Wake, Establish,
           StartFails, Check, StartTun, Commit, Watch
  <1>4. PauseType'
    BY DEF PauseType, Prepare, ClaimStart, ClaimResume, Wake, Establish,
           StartFails, Check, StartTun, Commit, Watch
  <1>5. CoreType'
    BY DEF CoreType, Prepare, ClaimStart, ClaimResume, Wake, Establish,
           StartFails, Check, StartTun, Commit, Watch
  <1>6. TaskType'
    <2>1. CASE Prepare(f)
      BY <2>1 DEF TaskType, MainPlaces, Prepare
    <2>2. CASE ClaimStart(f)
      BY <2>2 DEF TaskType, MainPlaces, ClaimStart
    <2>3. CASE ClaimResume(f)
      BY <2>3 DEF TaskType, MainPlaces, ClaimResume
    <2>4. CASE Wake(f)
      BY <2>4 DEF TaskType, MainPlaces, Wake
    <2>5. CASE Establish(f)
      BY <2>5 DEF TaskType, MainPlaces, Establish
    <2>6. CASE StartFails(f)
      BY <2>6 DEF TaskType, MainPlaces, StartFails
    <2>7. CASE Check(f)
      BY <2>7 DEF TaskType, MainPlaces, Check
    <2>8. CASE StartTun(f)
      BY <2>8 DEF TaskType, MainPlaces, StartTun
    <2>9. CASE Commit(f)
      BY <2>9 DEF TaskType, MainPlaces, Commit
    <2>10. CASE Watch(f)
      BY <2>10 DEF TaskType, MainPlaces, Watch
    <2> QED BY <2>1, <2>2, <2>3, <2>4, <2>5, <2>6, <2>7, <2>8, <2>9, <2>10
  <1>7. FlowType'
    <2>1. CASE Prepare(f)
      BY <2>1 DEF FlowType, RunType, FlowPlaces, Starting, Prepare
    <2>2. CASE ClaimStart(f)
      BY <2>2, ZenonT(30) DEF FlowType, RunType, FlowPlaces, Starting, ClaimStart
    <2>3. CASE ClaimResume(f)
      BY <2>3 DEF FlowType, RunType, FlowPlaces, Starting, ClaimResume
    <2>4. CASE Wake(f)
      BY <2>4 DEF FlowType, RunType, FlowPlaces, Starting, Wake
    <2>5. CASE Establish(f)
      BY <2>5 DEF FlowType, RunType, FlowPlaces, Starting, Establish
    <2>6. CASE StartFails(f)
      BY <2>6 DEF FlowType, RunType, FlowPlaces, Starting, StartFails
    <2>7. CASE Check(f)
      BY <2>7 DEF FlowType, RunType, FlowPlaces, Starting, Check
    <2>8. CASE StartTun(f)
      BY <2>8 DEF FlowType, RunType, FlowPlaces, Starting, StartTun
    <2>9. CASE Commit(f)
      BY <2>9 DEF FlowType, RunType, FlowPlaces, Starting, Commit
    <2>10. CASE Watch(f)
      BY <2>10 DEF FlowType, RunType, FlowPlaces, Starting, Watch
    <2> QED BY <2>1, <2>2, <2>3, <2>4, <2>5, <2>6, <2>7, <2>8, <2>9, <2>10
  <1> QED BY <1>1, <1>2, <1>3, <1>4, <1>5, <1>6, <1>7 DEF ClearsOK

(* The stops.                                                                *)
LEMMA MainStepType ==
  ASSUME TypeInv, \/ StopLock \/ Uninstall \/ StopTun \/ Release \/ SmartLock
         \/ SmartSuspend
  PROVE  TypeInv'
  <1> USE DEF TypeInv, TypeOK, SmartStopEnds, UpdateRunState
  <1>1. ClearsOK'
    BY DEF ClearsOK, StopsFit, TaskType, MainPlaces, StopLock, Uninstall,
           StopTun, Release, SmartLock, SmartSuspend
  <1>2. RunType'
    <2>1. CASE StopLock
      BY <2>1 DEF RunType, StopLock
    <2>2. CASE Uninstall
      BY <2>2 DEF RunType, Uninstall
    <2>3. CASE StopTun
      BY <2>3 DEF RunType, StopTun
    <2>4. CASE Release
      BY <2>4 DEF RunType, Release
    <2>5. CASE SmartLock
      BY <2>5 DEF RunType, SmartLock
    <2>6. CASE SmartSuspend
      BY <2>6 DEF RunType, SmartSuspend
    <2> QED BY <2>1, <2>2, <2>3, <2>4, <2>5, <2>6
  <1>3. BindType'
    BY DEF BindType, StopLock, Uninstall, StopTun, Release, SmartLock,
           SmartSuspend
  <1>4. PauseType'
    BY DEF PauseType, StopLock, Uninstall, StopTun, Release, SmartLock,
           SmartSuspend
  <1>5. CoreType'
    BY DEF CoreType, StopLock, Uninstall, StopTun, Release, SmartLock,
           SmartSuspend
  <1>6. TaskType'
    BY ZenonT(30) DEF TaskType, MainPlaces, StopLock, Uninstall, StopTun, Release,
           SmartLock, SmartSuspend
  <1>7. FlowType'
    BY DEF FlowType, RunType, FlowPlaces, Starting, StopLock, Uninstall,
           StopTun, Release, SmartLock, SmartSuspend
  <1> QED BY <1>1, <1>2, <1>3, <1>4, <1>5, <1>6, <1>7 DEF ClearsOK

LEMMA StopStepType ==
  ASSUME TypeInv, Stop \/ StopArrives \/ Revoke \/ ClearStopping
  PROVE  TypeInv'
  <1> USE DEF TypeInv, TypeOK, CallStop, CancelPauseSilently, ForgetPause
  <1>1. ClearsOK'
    BY DEF ClearsOK, StopsFit, TaskType, MainPlaces, Stop, StopArrives,
           Revoke, ClearStopping
  <1>2. RunType'
    <2>1. CASE Stop
      BY <2>1 DEF RunType, Stop
    <2>2. CASE StopArrives
      BY <2>2 DEF RunType, StopArrives
    <2>3. CASE Revoke
      BY <2>3 DEF RunType, Revoke
    <2>4. CASE ClearStopping
      BY <2>4 DEF RunType, ClearStopping
    <2> QED BY <2>1, <2>2, <2>3, <2>4
  <1>3. BindType'
    BY DEF BindType, Stop, StopArrives, Revoke, ClearStopping
  <1>4. PauseType'
    BY DEF PauseType, Stop, StopArrives, Revoke, ClearStopping
  <1>5. CoreType'
    BY DEF CoreType, Stop, StopArrives, Revoke, ClearStopping
  <1>6. TaskType'
    <2>1. CASE Stop
      BY <2>1 DEF TaskType, MainPlaces, Stop
    <2>2. CASE StopArrives
      BY <2>2 DEF TaskType, MainPlaces, StopArrives
    <2>3. CASE Revoke
      BY <2>3 DEF TaskType, MainPlaces, Revoke
    <2>4. CASE ClearStopping
      BY <2>4 DEF TaskType, MainPlaces, ClearStopping
    <2> QED BY <2>1, <2>2, <2>3, <2>4
  <1>7. FlowType'
    BY DEF FlowType, RunType, FlowPlaces, Starting, Stop, StopArrives,
           Revoke, ClearStopping
  <1> QED BY <1>1, <1>2, <1>3, <1>4, <1>5, <1>6, <1>7 DEF ClearsOK

(* A pause and its end.                                                      *)
LEMMA PauseStepType ==
  ASSUME TypeInv, \/ Pause \/ Due \/ TimerFires \/ TimerClears \/ TimerResumes
         \/ ResumeNow \/ ResumeFromNotification \/ AlarmFires
         \/ RestorePause
  PROVE  TypeInv'
  <1> USE DEF TypeInv, TypeOK, EndPause, Resume, HandleStart, EnterPending,
              Launch, ForgetPause
  <1>1. ClearsOK'
    BY DEF ClearsOK, StopsFit, TaskType, MainPlaces, Pause, Due, TimerFires,
           TimerClears, TimerResumes, ResumeNow, ResumeFromNotification,
           AlarmFires, RestorePause
  <1>2. RunType'
    BY DEF RunType, Pause, Due, TimerFires, TimerClears, TimerResumes,
           ResumeNow, ResumeFromNotification, AlarmFires, RestorePause
  <1>3. BindType'
    BY DEF BindType, Pause, Due, TimerFires, TimerClears, TimerResumes,
           ResumeNow, ResumeFromNotification, AlarmFires, RestorePause
  <1>4. PauseType'
    BY DEF PauseType, Pause, Due, TimerFires, TimerClears, TimerResumes,
           ResumeNow, ResumeFromNotification, AlarmFires, RestorePause
  <1>5. CoreType'
    BY DEF CoreType, Pause, Due, TimerFires, TimerClears, TimerResumes,
           ResumeNow, ResumeFromNotification, AlarmFires, RestorePause
  <1>6. TaskType'
    <2>1. CASE Pause
      BY <2>1 DEF TaskType, MainPlaces, Pause
    <2>2. CASE Due
      BY <2>2 DEF TaskType, MainPlaces, Due
    <2>3. CASE TimerFires
      BY <2>3 DEF TaskType, MainPlaces, TimerFires
    <2>4. CASE TimerClears
      BY <2>4 DEF TaskType, MainPlaces, TimerClears
    <2>5. CASE TimerResumes
      BY <2>5 DEF TaskType, MainPlaces, TimerResumes
    <2>6. CASE ResumeNow
      BY <2>6 DEF TaskType, MainPlaces, ResumeNow
    <2>7. CASE ResumeFromNotification
      BY <2>7 DEF TaskType, MainPlaces, ResumeFromNotification
    <2>8. CASE AlarmFires
      BY <2>8 DEF TaskType, MainPlaces, AlarmFires
    <2>9. CASE RestorePause
      BY <2>9 DEF TaskType, MainPlaces, RestorePause
    <2> QED BY <2>1, <2>2, <2>3, <2>4, <2>5, <2>6, <2>7, <2>8, <2>9
  <1>7. FlowType'
    <2>1. CASE Pause
      BY <2>1 DEF FlowType, RunType, FlowPlaces, Starting, Pause
    <2>2. CASE Due
      BY <2>2 DEF FlowType, RunType, FlowPlaces, Starting, Due
    <2>3. CASE TimerFires
      BY <2>3 DEF FlowType, RunType, FlowPlaces, Starting, TimerFires
    <2>4. CASE TimerClears
      BY <2>4 DEF FlowType, RunType, FlowPlaces, Starting, TimerClears
    <2>5. CASE TimerResumes
      BY <2>5 DEF FlowType, RunType, FlowPlaces, Starting, TimerResumes
    <2>6. CASE ResumeNow
      BY <2>6 DEF FlowType, RunType, FlowPlaces, Starting, ResumeNow
    <2>7. CASE ResumeFromNotification
      BY <2>7 DEF FlowType, RunType, FlowPlaces, Starting,
         ResumeFromNotification
    <2>8. CASE AlarmFires
      BY <2>8, ZenonT(30) DEF FlowType, RunType, FlowPlaces, Starting, AlarmFires
    <2>9. CASE RestorePause
      BY <2>9 DEF FlowType, RunType, FlowPlaces, Starting, RestorePause
    <2> QED BY <2>1, <2>2, <2>3, <2>4, <2>5, <2>6, <2>7, <2>8, <2>9
  <1> QED BY <1>1, <1>2, <1>3, <1>4, <1>5, <1>6, <1>7 DEF ClearsOK

(* The requests to the Dart side and its smart-stop check.                   *)
LEMMA RequestStepType ==
  ASSUME TypeInv, \/ RequestStart \/ RequestStop \/ PendingTimeout
         \/ RequestRestart \/ RestartStarts \/ SyncStatus
  PROVE  TypeInv'
  <1> USE DEF TypeInv, TypeOK, HandleStart, HandleStop, EnterPending,
              UpdateRunState
  <1>1. ClearsOK'
    BY DEF ClearsOK, StopsFit, TaskType, MainPlaces, RequestStart,
           RequestStop, PendingTimeout, RequestRestart, RestartStarts,
           SyncStatus
  <1>2. RunType'
    BY DEF RunType, RequestStart, RequestStop, PendingTimeout,
           RequestRestart, RestartStarts, SyncStatus
  <1>3. BindType'
    BY DEF BindType, RequestStart, RequestStop, PendingTimeout,
           RequestRestart, RestartStarts, SyncStatus
  <1>4. PauseType'
    BY DEF PauseType, RequestStart, RequestStop, PendingTimeout,
           RequestRestart, RestartStarts, SyncStatus
  <1>5. CoreType'
    BY DEF CoreType, RequestStart, RequestStop, PendingTimeout,
           RequestRestart, RestartStarts, SyncStatus
  <1>6. TaskType'
    <2>1. CASE RequestStart
      BY <2>1 DEF TaskType, MainPlaces, RequestStart
    <2>2. CASE RequestStop
      BY <2>2 DEF TaskType, MainPlaces, RequestStop
    <2>3. CASE PendingTimeout
      BY <2>3 DEF TaskType, MainPlaces, PendingTimeout
    <2>4. CASE RequestRestart
      BY <2>4 DEF TaskType, MainPlaces, RequestRestart
    <2>5. CASE RestartStarts
      BY <2>5 DEF TaskType, MainPlaces, RestartStarts
    <2>6. CASE SyncStatus
      BY <2>6 DEF TaskType, MainPlaces, SyncStatus
    <2> QED BY <2>1, <2>2, <2>3, <2>4, <2>5, <2>6
  <1>7. FlowType'
    BY DEF FlowType, RunType, FlowPlaces, Starting, RequestStart,
           RequestStop, PendingTimeout, RequestRestart, RestartStarts,
           SyncStatus
  <1> QED BY <1>1, <1>2, <1>3, <1>4, <1>5, <1>6, <1>7 DEF ClearsOK

LEMMA AutoStepType ==
  ASSUME TypeInv, \/ AutoCheck \/ AutoStatus \/ SetSmartStopped \/ AutoStop
         \/ AutoResume
  PROVE  TypeInv'
  <1> USE DEF TypeInv, TypeOK, Launch
  <1>1. ClearsOK'
    BY DEF ClearsOK, StopsFit, TaskType, MainPlaces, AutoCheck, AutoStatus,
           SetSmartStopped, AutoStop, AutoResume
  <1>2. RunType'
    BY DEF RunType, AutoCheck, AutoStatus, SetSmartStopped, AutoStop,
           AutoResume
  <1>3. BindType'
    BY DEF BindType, AutoCheck, AutoStatus, SetSmartStopped, AutoStop,
           AutoResume
  <1>4. PauseType'
    BY DEF PauseType, AutoCheck, AutoStatus, SetSmartStopped, AutoStop,
           AutoResume
  <1>5. CoreType'
    BY DEF CoreType, AutoCheck, AutoStatus, SetSmartStopped, AutoStop,
           AutoResume
  <1>6. TaskType'
    <2>1. CASE AutoCheck
      BY <2>1 DEF TaskType, MainPlaces, AutoCheck
    <2>2. CASE AutoStatus
      BY <2>2 DEF TaskType, MainPlaces, AutoStatus
    <2>3. CASE SetSmartStopped
      BY <2>3 DEF TaskType, MainPlaces, SetSmartStopped
    <2>4. CASE AutoStop
      BY <2>4 DEF TaskType, MainPlaces, AutoStop
    <2>5. CASE AutoResume
      BY <2>5 DEF TaskType, MainPlaces, AutoResume
    <2> QED BY <2>1, <2>2, <2>3, <2>4, <2>5
  <1>7. FlowType'
    <2>1. CASE AutoCheck
      BY <2>1 DEF FlowType, RunType, FlowPlaces, Starting, AutoCheck
    <2>2. CASE AutoStatus
      BY <2>2 DEF FlowType, RunType, FlowPlaces, Starting, AutoStatus
    <2>3. CASE SetSmartStopped
      BY <2>3 DEF FlowType, RunType, FlowPlaces, Starting, SetSmartStopped
    <2>4. CASE AutoStop
      BY <2>4 DEF FlowType, RunType, FlowPlaces, Starting, AutoStop
    <2>5. CASE AutoResume
      BY <2>5 DEF FlowType, RunType, FlowPlaces, Starting, AutoResume
    <2> QED BY <2>1, <2>2, <2>3, <2>4, <2>5
  <1> QED BY <1>1, <1>2, <1>3, <1>4, <1>5, <1>6, <1>7 DEF ClearsOK

LEMMA CrashType ==
  ASSUME TypeInv, Crash
  PROVE  TypeInv'
  <1> USE DEF TypeInv, TypeOK
  <1>1. ClearsOK'
    BY DEF ClearsOK, StopsFit, TaskType, MainPlaces, Crash
  <1>2. RunType'
    BY DEF RunType, Crash
  <1>3. BindType'
    BY DEF BindType, Crash
  <1>4. PauseType'
    BY DEF PauseType, Crash
  <1>5. CoreType'
    BY DEF CoreType, Crash
  <1>6. TaskType'
    BY DEF TaskType, MainPlaces, Crash
  <1>7. FlowType'
    BY DEF FlowType, RunType, FlowPlaces, Starting, Crash
  <1> QED BY <1>1, <1>2, <1>3, <1>4, <1>5, <1>6, <1>7 DEF ClearsOK

LEMMA InitType == Init => TypeInv
<1> USE DEF Init, TypeInv, TypeOK
<1>1. Init => RunType              BY DEF RunType
<1>7. Init => ClearsOK             BY DEF ClearsOK, StopsFit
<1>2. Init => BindType             BY DEF BindType
<1>3. Init => PauseType            BY DEF PauseType
<1>4. Init => CoreType             BY DEF CoreType
<1>5. Init => TaskType             BY DEF TaskType, MainPlaces
<1>6. Init => FlowType             BY DEF FlowType, FlowPlaces, Starting
<1> QED BY <1>1, <1>2, <1>3, <1>4, <1>5, <1>6, <1>7 DEF ClearsOK

LEMMA TypeKept == TypeInv /\ [Next]_vars => TypeInv'
<1> SUFFICES ASSUME TypeInv, [Next]_vars PROVE TypeInv'
  OBVIOUS
<1>1. CASE UNCHANGED vars
  BY <1>1 DEF vars, TypeInv, StopsFit, TypeOK, RunType, BindType, PauseType,
              CoreType, TaskType, FlowType
<1>2. CASE Next
  <2>1. CASE \E m \in Modes : Start(m)
    BY <2>1, StartStepType
  <2>2. CASE \E f \in Flows : FlowStep(f)
    BY <2>2, AskType, FlowStepType DEF FlowStep
  <2>3. CASE MainStep
    BY <2>3, MainStepType DEF MainStep
  <2> QED
    BY <1>2, <2>1, <2>2, <2>3, BindStepType, StopStepType, PauseStepType,
       RequestStepType, AutoStepType, CrashType DEF Next
<1> QED BY <1>1, <1>2

(* The run state keeps its types, whoever acts. *)
THEOREM RunTypeCorrect == Spec => []TypeOK
<1>1. TypeInv => TypeOK
  BY DEF TypeInv
<1> QED BY InitType, TypeKept, <1>1, PTL DEF Spec

-----------------------------------------------------------------------------
(* The bind and the pause.  Both invariants are nearly inductive: the first  *)
(* needs nothing, the second that what is saved has its alarm.               *)

LEMMA BindStep ==
  ASSUME BindGuarded, BindService
  PROVE  isBinding' => bindJob'
  BY DEF BindGuarded, BindService

LEMMA BindKept == BindGuarded /\ [Next]_vars => BindGuarded'
<1> SUFFICES ASSUME BindGuarded, [Next]_vars PROVE BindGuarded'
  OBVIOUS
<1> USE DEF BindGuarded
<1>1. CASE UNCHANGED <<isBinding, bindJob>>
  BY <1>1
<1>2. ASSUME NEW m \in Modes, Start(m) PROVE BindGuarded'
  <2>1. \/ UNCHANGED <<isBinding, bindJob, connecting>>
        \/ BindService
    BY <1>2 DEF Start, StartService
  <2> QED BY <2>1, BindStep
<1>3. CASE Consent
  <2>1. \/ UNCHANGED <<isBinding, bindJob, connecting>>
        \/ BindService
    BY <1>3 DEF Consent, StartService
  <2> QED BY <2>1, BindStep
<1>4. CASE ServiceConnected
  BY <1>4 DEF ServiceConnected
<1>5. CASE BindTimeout
  BY <1>5 DEF BindTimeout
<1>6. ASSUME NEW f \in Flows, ClaimResume(f) PROVE BindGuarded'
  BY <1>6, BindStep DEF ClaimResume
<1>7. CASE Crash
  BY <1>7 DEF Crash
<1>8. ASSUME NEW f \in Flows, Ask(f) PROVE BindGuarded'
  BY <1>8, BindStep DEF Ask
<1>9. ASSUME NEW f \in Flows, FlowStep(f), ~ClaimResume(f), ~Ask(f)
      PROVE  UNCHANGED <<isBinding, bindJob>>
  BY <1>9 DEF FlowStep, Prepare, ClaimStart, Wake, Establish, StartFails,
              Check, StartTun, Commit, Watch
<1>10. ASSUME MainStep PROVE UNCHANGED <<isBinding, bindJob>>
  BY <1>10 DEF MainStep, StopLock, Uninstall, StopTun, Release, SmartLock,
              SmartSuspend
<1>11. ASSUME \/ Stop \/ StopArrives \/ Revoke \/ ClearStopping
              \/ Pause \/ Due \/ TimerFires \/ TimerClears \/ TimerResumes
              \/ ResumeNow \/ ResumeFromNotification \/ AlarmFires
              \/ RestorePause
       PROVE  UNCHANGED <<isBinding, bindJob>>
  BY <1>11 DEF Stop, StopArrives, Revoke, ClearStopping, CallStop, Pause, Due,
               TimerFires, TimerClears, TimerResumes, ResumeNow,
               ResumeFromNotification, AlarmFires, RestorePause
<1>12. ASSUME \/ RequestStart \/ RequestStop \/ PendingTimeout
              \/ RequestRestart \/ RestartStarts \/ SyncStatus
              \/ AutoCheck \/ AutoStatus \/ SetSmartStopped \/ AutoStop
              \/ AutoResume
       PROVE  UNCHANGED <<isBinding, bindJob>>
  BY <1>12 DEF RequestStart, RequestStop, PendingTimeout, RequestRestart,
               RestartStarts, SyncStatus, AutoCheck, AutoStatus,
               SetSmartStopped, AutoStop, AutoResume
<1>13. CASE UNCHANGED vars
  BY <1>13 DEF vars
<1> QED
  BY <1>1, <1>2, <1>3, <1>4, <1>5, <1>6, <1>7, <1>9, <1>10, <1>11, <1>12, <1>13,
     <1>8 DEF Next

(* No order of binds, connections and timeouts leaves isBinding set with     *)
(* nothing to reset it.                                                      *)
THEOREM BindGuardHolds == Spec => []BindGuarded
<1>1. Init => BindGuarded
  BY DEF Init, BindGuarded
<1> QED BY <1>1, BindKept, PTL DEF Spec

BackedUp == PauseBackedUp /\ (saved => alarm)

LEMMA BackupKept == BackedUp /\ [Next]_vars => BackedUp'
<1> SUFFICES ASSUME BackedUp, [Next]_vars PROVE BackedUp'
  OBVIOUS
<1> USE DEF BackedUp, PauseBackedUp, ForgetPause
<1>1. CASE UNCHANGED <<until, saved, alarm>>
  BY <1>1
<1>2. ASSUME NEW m \in Modes, Start(m) PROVE BackedUp'
  BY <1>2 DEF Start, CancelPauseSilently
<1>3. CASE Stop \/ StopArrives
  BY <1>3 DEF Stop, StopArrives, CallStop, CancelPauseSilently
<1>4. CASE Pause
  BY <1>4 DEF Pause
<1>5. CASE TimerFires \/ TimerClears
  BY <1>5 DEF TimerFires, TimerClears
<1>6. CASE ResumeNow \/ AlarmFires
  BY <1>6 DEF ResumeNow, AlarmFires, EndPause
<1>7. CASE RestorePause
  BY <1>7 DEF RestorePause
<1>8. CASE Crash
  BY <1>8 DEF Crash
<1>9. ASSUME NEW f \in Flows, FlowStep(f)
      PROVE  UNCHANGED <<until, saved, alarm>>
  BY <1>9 DEF FlowStep, Prepare, Ask, ClaimStart, ClaimResume, Wake, Establish,
              StartFails, Check, StartTun, Commit, Watch
<1>10. ASSUME MainStep PROVE UNCHANGED <<until, saved, alarm>>
  BY <1>10 DEF MainStep, StopLock, Uninstall, StopTun, Release, SmartLock,
               SmartSuspend, SmartStopEnds
<1>11. ASSUME \/ Consent \/ ServiceConnected \/ BindTimeout
              \/ Revoke \/ ClearStopping \/ Due \/ TimerResumes
              \/ ResumeFromNotification
       PROVE  UNCHANGED <<until, saved, alarm>>
  BY <1>11 DEF Consent, ServiceConnected, BindTimeout, Revoke, ClearStopping,
               Due, TimerResumes, ResumeFromNotification
<1>12. ASSUME \/ RequestStart \/ RequestStop \/ PendingTimeout
              \/ RequestRestart \/ RestartStarts \/ SyncStatus
              \/ AutoCheck \/ AutoStatus \/ SetSmartStopped \/ AutoStop
              \/ AutoResume
       PROVE  UNCHANGED <<until, saved, alarm>>
  BY <1>12 DEF RequestStart, RequestStop, PendingTimeout, RequestRestart,
               RestartStarts, SyncStatus, AutoCheck, AutoStatus,
               SetSmartStopped, AutoStop, AutoResume
<1>13. CASE UNCHANGED vars
  BY <1>13 DEF vars
<1> QED
  BY <1>1, <1>2, <1>3, <1>4, <1>5, <1>6, <1>7, <1>8, <1>9, <1>10, <1>11, <1>12,
     <1>13 DEF Next

(* A pause that is on can be taken up by the alarm, whatever buttons,        *)
(* timers, crashes and restored engines came before.                         *)
THEOREM PauseBackupHolds == Spec => []PauseBackedUp
<1>1. Init => BackedUp
  BY DEF Init, BackedUp, PauseBackedUp
<1>2. BackedUp => PauseBackedUp
  BY DEF BackedUp
<1> QED BY <1>1, <1>2, BackupKept, PTL DEF Spec

(* A pause that is on has its timer: set, about to be set by the call that   *)
(* paused, or at work.  The timer's work on it ends before it dispatches the *)
(* resume, so a pause set by then is never left to the old timer.            *)
TimerSet == until => armed \/ pausing \/ timer = "resume"

LEMMA TimerStaysSet ==
  ASSUME "crash" \notin Entries, TimerSet, [Next]_vars
  PROVE  TimerSet'
<1> USE DEF TimerSet, ForgetPause
<1>1. CASE \E m \in Modes : Start(m)
  BY <1>1 DEF Start, CancelPauseSilently
<1>2. CASE Stop \/ StopArrives
  BY <1>2 DEF Stop, StopArrives, CallStop, CancelPauseSilently
<1>3. CASE Pause
  BY <1>3 DEF Pause
<1>4. CASE TimerFires \/ TimerClears
  BY <1>4 DEF TimerFires, TimerClears
<1>5. CASE TimerResumes
  BY <1>5 DEF TimerResumes
<1>6. CASE ResumeNow \/ AlarmFires
  BY <1>6 DEF ResumeNow, AlarmFires, EndPause
<1>7. CASE SmartLock \/ SmartSuspend
  BY <1>7 DEF SmartLock, SmartSuspend, SmartStopEnds
<1>8. ASSUME NEW f \in Flows, FlowStep(f)
      PROVE  UNCHANGED <<until, armed, pausing, timer>>
  BY <1>8 DEF FlowStep, Prepare, Ask, ClaimStart, ClaimResume, Wake, Establish,
              StartFails, Check, StartTun, Commit, Watch
<1>9. ASSUME \/ StopLock \/ Uninstall \/ StopTun \/ Release
             \/ Consent \/ ServiceConnected \/ BindTimeout
             \/ Revoke \/ ClearStopping \/ Due \/ ResumeFromNotification
      PROVE  UNCHANGED <<until, armed, pausing, timer>>
  BY <1>9 DEF StopLock, Uninstall, StopTun, Release, Consent, ServiceConnected,
              BindTimeout, Revoke, ClearStopping, Due, ResumeFromNotification
<1>10. ASSUME \/ RequestStart \/ RequestStop \/ PendingTimeout
              \/ RequestRestart \/ RestartStarts \/ SyncStatus
              \/ AutoCheck \/ AutoStatus \/ SetSmartStopped \/ AutoStop
              \/ AutoResume
       PROVE  UNCHANGED <<until, armed, pausing, timer>>
  BY <1>10 DEF RequestStart, RequestStop, PendingTimeout, RequestRestart,
               RestartStarts, SyncStatus, AutoCheck, AutoStatus,
               SetSmartStopped, AutoStop, AutoResume
<1>11. CASE RestorePause \/ Crash
  BY <1>11 DEF RestorePause, Crash
<1>12. CASE UNCHANGED vars
  BY <1>12 DEF vars
<1> QED
  BY <1>1, <1>2, <1>3, <1>4, <1>5, <1>6, <1>7, <1>8, <1>9, <1>10, <1>11, <1>12
     DEF Next, MainStep

(* In a process that does not die a pause that is on is ended by pauseJob,   *)
(* whatever starts, stops, presses and smart-stops race with the call that   *)
(* arms it only at its end (handlePause).                                    *)
THEOREM TimerKeptHolds == "crash" \notin Entries /\ Spec => []TimerKept
<1> SUFFICES ASSUME "crash" \notin Entries PROVE Spec => []TimerKept
  OBVIOUS
<1>1. Init => TimerSet
  BY DEF Init, TimerSet
<1>2. TimerSet => TimerKept
  BY DEF TimerSet, TimerKept
<1> QED BY <1>1, <1>2, TimerStaysSet, PTL DEF Spec

-----------------------------------------------------------------------------
(* The tunnel.  What the proof asks of the world: the activity answers the   *)
(* tile (a stop over the service is soft), a proxy is not started (it needs  *)
(* no consent, which a later start of a VPN may lack), the consent is not    *)
(* taken back, and no tile is opened.                                        *)
OneWorld ==
    /\ UI = TRUE /\ Modes = {"vpn"}
    /\ "revoke" \notin Entries /\ "sync" \notin Entries

Consented ==
    /\ tun => prepared
    /\ \A f \in Flows : at[f] \in {"check", "startTun", "commit"} => prepared

Single ==
    ~overlap => \A f, g \in Flows :
        at[f] \in Starting /\ at[g] \in Starting => f = g

Committing == \E f \in Flows : at[f] = "commit"
NoneStarts == \A f \in Flows : at[f] \notin Starting

(* A session is somebody's: it is about to be ended, its flow is about to    *)
(* look at the run state again, or the state is START and nothing else that  *)
(* starts could take it.                                                     *)
Safe ==
    ~overlap /\ tun =>
        StopIsComing \/ Committing \/ (runState = "START" /\ NoneStarts)

Owned == Consented /\ Single /\ Safe

(* What every step does but those of the flows that start. *)
Steady ==
    /\ tun' => tun
    /\ prepared => prepared'
    /\ StopIsComing => StopIsComing' \/ ~tun'
    /\ runState = "START" => runState' = "START" \/ StopIsComing' \/ ~tun'

Waiting == {"free", "prepare", "ask", "resumeClaim", "claim"}

FlowsSteady ==
    /\ overlap' = overlap
    /\ \A f \in Flows :
           \/ at'[f] = at[f]
           \/ at[f] \in Waiting /\ at'[f] \in Waiting

LEMMA OwnedSteady ==
  ASSUME Owned, Steady, FlowsSteady
  PROVE  Owned'
<1> USE DEF FlowsSteady, Waiting
<1>1. Consented'
  BY DEF Owned, Consented, Steady
<1>2. Single'
  BY DEF Owned, Single, Starting
<1>3. Committing => Committing'
  BY DEF Committing
<1>4. NoneStarts => NoneStarts'
  BY DEF NoneStarts, Starting
<1>5. Safe'
  BY <1>3, <1>4 DEF Owned, Safe, Steady
<1> QED BY <1>1, <1>2, <1>5 DEF Owned

LEMMA LaunchSteady ==
  ASSUME TypeInv, NEW k, NEW m, NEW p \in {"prepare", "resumeClaim"},
         Launch(p, k, m)
  PROVE  FlowsSteady
BY DEF TypeInv, TypeOK, FlowType, Launch, FlowsSteady, Waiting

LEMMA ResumeSteady ==
  ASSUME TypeInv, Resume
  PROVE  FlowsSteady /\ (runState = "START" => runState' = "START")
BY LaunchSteady DEF Resume, HandleStart, EnterPending, FlowsSteady, Launch

LEMMA StartServiceSteady ==
  ASSUME TypeInv, NEW svc, StartService(svc)
  PROVE  FlowsSteady
BY LaunchSteady DEF StartService, FlowsSteady

(* The actions of the main thread and of the world are all steady. *)

LEMMA OwnedBind ==
  ASSUME TypeInv, Owned, OneWorld,
         \/ \E m \in Modes : Start(m)
         \/ Consent \/ ServiceConnected \/ BindTimeout
  PROVE  Owned'
<1>1. Steady
  BY DEF Steady, StopIsComing, Start, Consent, ServiceConnected, BindTimeout,
         UpdateRunState
<1>2. \/ UNCHANGED flow
      \/ Launch("prepare", "start", None)
  BY DEF Start, Consent, ServiceConnected, BindTimeout, StartService
<1>3. FlowsSteady
  BY <1>2, LaunchSteady DEF FlowsSteady
<1> QED BY <1>1, <1>3, OwnedSteady

LEMMA OwnedMain ==
  ASSUME TypeInv, Owned, OneWorld, MainStep
  PROVE  Owned'
<1>1. Steady
  <2> USE DEF Steady, StopIsComing, UpdateRunState
  <2>1. CASE StopLock
    BY <2>1 DEF StopLock
  <2>2. CASE Uninstall
    BY <2>2 DEF Uninstall
  <2>3. CASE StopTun
    BY <2>3 DEF StopTun
  <2>4. CASE Release \/ SmartLock \/ SmartSuspend
    BY <2>4 DEF Release, SmartLock, SmartSuspend, SmartStopEnds
  <2> QED BY <2>1, <2>2, <2>3, <2>4 DEF MainStep
<1>2. FlowsSteady
  BY DEF FlowsSteady, MainStep, StopLock, Uninstall, StopTun, Release,
         SmartLock, SmartSuspend
<1> QED BY <1>1, <1>2, OwnedSteady

LEMMA OwnedStop ==
  ASSUME TypeInv, Owned, OneWorld,
         Stop \/ StopArrives \/ Revoke \/ ClearStopping
  PROVE  Owned'
<1>1. Steady
  <2> USE DEF Steady, StopIsComing
  <2>1. CASE Stop
    BY <2>1 DEF Stop, CallStop
  <2>2. CASE StopArrives
    <3>1. PICK s \in stops : CallStop(s = "forced") /\ stops' = stops \ {s}
      BY <2>2 DEF StopArrives
    <3>2. s = "forced" => main' = "stopLock" /\ force'
      BY <3>1 DEF CallStop
    <3>3. s # "forced" /\ "forced" \in stops => "forced" \in stops'
      BY <3>1
    <3> QED BY <3>1, <3>2, <3>3 DEF CallStop
  <2>3. CASE Revoke \/ ClearStopping
    BY <2>3 DEF Revoke, OneWorld, ClearStopping
  <2> QED BY <2>1, <2>2, <2>3
<1>2. FlowsSteady
  BY DEF FlowsSteady, Stop, StopArrives, CallStop, Revoke, ClearStopping
<1> QED BY <1>1, <1>2, OwnedSteady

LEMMA OwnedPause ==
  ASSUME TypeInv, Owned, OneWorld,
         \/ Pause \/ Due \/ TimerFires \/ TimerClears \/ TimerResumes
         \/ ResumeNow \/ ResumeFromNotification \/ AlarmFires \/ RestorePause
  PROVE  Owned'
<1> USE DEF Steady, StopIsComing
<1>1. CASE TimerResumes
  <2>1. Steady /\ FlowsSteady
    BY <1>1, ResumeSteady DEF TimerResumes
  <2> QED BY <2>1, OwnedSteady
<1>2. CASE ResumeNow \/ ResumeFromNotification
  <2>1. Steady /\ FlowsSteady
    BY <1>2, ResumeSteady DEF ResumeNow, EndPause, ResumeFromNotification
  <2> QED BY <2>1, OwnedSteady
<1>3. CASE AlarmFires
  <2>1. Resume \/ UNCHANGED <<state, flow>>
    BY <1>3 DEF AlarmFires, EndPause
  <2>2. Steady /\ FlowsSteady
    BY <1>3, <2>1, ResumeSteady DEF AlarmFires, FlowsSteady
  <2> QED BY <2>2, OwnedSteady
<1>4. CASE Pause \/ Due \/ TimerFires \/ TimerClears \/ RestorePause
  <2>1. Steady /\ FlowsSteady
    BY <1>4 DEF Pause, Due, TimerFires, TimerClears, RestorePause, FlowsSteady
  <2> QED BY <2>1, OwnedSteady
<1> QED BY <1>1, <1>2, <1>3, <1>4

LEMMA OwnedRequest ==
  ASSUME TypeInv, Owned, OneWorld,
         \/ RequestStart \/ RequestStop \/ PendingTimeout
         \/ RequestRestart \/ RestartStarts \/ SyncStatus
         \/ AutoCheck \/ AutoStatus \/ SetSmartStopped \/ AutoStop \/ AutoResume
  PROVE  Owned'
<1> USE DEF Steady, StopIsComing, HandleStart, HandleStop, EnterPending,
            OneWorld
<1>1. CASE AutoResume
  <2>1. Steady
    BY <1>1 DEF AutoResume
  <2>2. FlowsSteady
    BY <1>1, LaunchSteady DEF AutoResume
  <2> QED BY <2>1, <2>2, OwnedSteady
<1>2. CASE RequestStop \/ RequestRestart
  <2>1. Steady /\ FlowsSteady
    BY <1>2 DEF RequestStop, RequestRestart, FlowsSteady
  <2> QED BY <2>1, OwnedSteady
<1>3. CASE \/ RequestStart \/ PendingTimeout \/ RestartStarts \/ SyncStatus
           \/ AutoCheck \/ AutoStatus \/ SetSmartStopped \/ AutoStop
  <2>1. Steady
    BY <1>3 DEF RequestStart, PendingTimeout, RestartStarts, SyncStatus,
                AutoCheck, AutoStatus, SetSmartStopped, AutoStop
  <2>2. FlowsSteady
    BY <1>3 DEF RequestStart, PendingTimeout, RestartStarts, SyncStatus,
                AutoCheck, AutoStatus, SetSmartStopped, AutoStop, FlowsSteady
  <2> QED BY <2>1, <2>2, OwnedSteady
<1> QED BY <1>1, <1>2, <1>3

(* The flows.  One that does not start yet, or no longer, is steady too. *)

LEMMA OwnedFlow ==
  ASSUME TypeInv, Owned, OneWorld, NEW f \in Flows, FlowStep(f)
  PROVE  Owned'
<1> USE DEF TypeInv, TypeOK, FlowType, Goto, EndFlow, UpdateRunState
<1>0. CASE Ask(f)
  <2>1. Steady
    BY <1>0 DEF Steady, Ask, StopIsComing
  <2>2. FlowsSteady
    BY <1>0 DEF FlowsSteady, Waiting, Ask
  <2> QED BY <2>1, <2>2, OwnedSteady
<1>1. CASE Prepare(f)
  <2>1. options = "vpn" /\ ~prepared => ~tun /\ ~tun'
    BY <1>1 DEF Owned, Consented, Prepare
  <2>2. Steady
    BY <1>1, <2>1 DEF Steady, Prepare, StopIsComing
  <2>3. FlowsSteady
    BY <1>1 DEF FlowsSteady, Waiting, Prepare
  <2> QED BY <2>2, <2>3, OwnedSteady
<1>2. CASE ClaimStart(f)
  <2>1. CASE runState = "START"
    <3>1. Steady /\ FlowsSteady
      BY <1>2, <2>1 DEF ClaimStart, Steady, FlowsSteady, Waiting, StopIsComing
    <3> QED BY <3>1, OwnedSteady
  <2>2. CASE runState # "START"
    <3>1. Consented'
      BY <1>2, <2>2 DEF ClaimStart, Owned, Consented
    <3>2. Single'
      BY <1>2, <2>2, ZenonT(30) DEF ClaimStart, Owned, Single, OthersStart, Starting
    <3>3. ~overlap' => ~Committing
      BY <1>2, <2>2 DEF ClaimStart, OthersStart, Committing, Starting
    <3>4. Safe'
      BY <1>2, <2>2, <3>3 DEF ClaimStart, Owned, Safe, StopIsComing
    <3> QED BY <3>1, <3>2, <3>4 DEF Owned
  <2> QED BY <2>1, <2>2
<1>3. CASE ClaimResume(f)
  <2>1. CASE at'[f] = "free"
    <3>1. Steady /\ FlowsSteady
      BY <1>3, <2>1 DEF ClaimResume, Steady, FlowsSteady, Waiting, StopIsComing
    <3> QED BY <3>1, OwnedSteady
  <2>2. CASE at'[f] # "free"
    <3>0. /\ at' = [at EXCEPT ![f] = "wake"] /\ runState # "START"
          /\ overlap' = (overlap \/ OthersStart(f))
          /\ UNCHANGED <<tun, prepared, main, force, stops>>
      BY <1>3, <2>2 DEF ClaimResume
    <3>1. Consented'
      BY <3>0 DEF Owned, Consented
    <3>2. Single'
      BY <3>0 DEF Owned, Single, OthersStart, Starting
    <3>3. ~overlap' => ~Committing
      BY <1>3, <3>0 DEF ClaimResume, OthersStart, Committing, Starting
    <3>4. Safe'
      BY <3>0, <3>3 DEF Owned, Safe, StopIsComing
    <3> QED BY <3>1, <3>2, <3>4 DEF Owned
  <2> QED BY <2>1, <2>2
<1>4. CASE Wake(f) \/ Establish(f) \/ StartFails(f) \/ Check(f)
  <2>0. /\ at[f] \in Starting \ {"commit"}
        /\ UNCHANGED <<tun, prepared, overlap>>
        /\ \A g \in Flows \ {f} : at'[g] = at[g]
        /\ at'[f] \in Starting \cup {"free"} /\ at'[f] # "commit"
        /\ StopIsComing => StopIsComing'
    BY <1>4 DEF Wake, Establish, StartFails, Check, Starting, StopIsComing
  <2>1. Consented'
    <3>1. at'[f] \in {"check", "startTun", "commit"} => prepared
      <4>1. MayStart(f) => prepared
        BY DEF MayStart, OneWorld
      <4> QED
        BY <1>4, <4>1 DEF Wake, Establish, StartFails, Check, Owned, Consented
    <3> QED BY <2>0, <3>1 DEF Owned, Consented
  <2>2. Single'
    BY <2>0 DEF Owned, Single, Starting
  <2>3. ~NoneStarts
    BY <2>0 DEF NoneStarts
  <2>4. Committing => Committing'
    BY <2>0 DEF Committing
  <2>5. Safe'
    BY <2>0, <2>3, <2>4 DEF Owned, Safe
  <2> QED BY <2>1, <2>2, <2>5 DEF Owned
<1>5. CASE StartTun(f)
  <2>1. Consented'
    BY <1>5 DEF StartTun, Owned, Consented
  <2>2. Single'
    BY <1>5 DEF StartTun, Owned, Single, Starting
  <2>3. Committing'
    BY <1>5 DEF StartTun, Committing
  <2> QED BY <2>1, <2>2, <2>3 DEF Owned, Safe
<1>6. CASE Commit(f)
  <2>1. Consented'
    BY <1>6 DEF Commit, Owned, Consented
  <2>2. Single'
    BY <1>6 DEF Commit, Owned, Single, Starting
  <2>3. ~overlap => NoneStarts'
    BY <1>6 DEF Commit, Owned, Single, NoneStarts, Starting
  <2>4. runState' = "START" \/ ~tun'
    BY <1>6 DEF Commit
  <2>5. UNCHANGED overlap
    BY <1>6 DEF Commit
  <2> QED BY <2>1, <2>2, <2>3, <2>4, <2>5 DEF Owned, Safe
<1>7. CASE Watch(f)
  <2>1. Consented' /\ Single'
    BY <1>7 DEF Watch, Owned, Consented, Single, Starting
  <2>2. /\ Committing => Committing'
        /\ NoneStarts => NoneStarts'
    BY <1>7 DEF Watch, Committing, NoneStarts, Starting
  <2>3. StopIsComing => StopIsComing'
    BY <1>7 DEF Watch, StopIsComing
  <2> QED BY <1>7, <2>1, <2>2, <2>3 DEF Watch, Owned, Safe
<1> QED BY <1>0, <1>1, <1>2, <1>3, <1>4, <1>5, <1>6, <1>7 DEF FlowStep

LEMMA OwnedKept ==
  ASSUME OneWorld, TypeInv, Owned, [Next]_vars
  PROVE  Owned'
<1>1. CASE UNCHANGED vars
  BY <1>1 DEF vars, Owned, Consented, Single, Safe, StopIsComing, Committing,
              NoneStarts
<1>2. CASE Crash
  BY <1>2 DEF Crash, Owned, Consented, Single, Safe, Starting
<1> QED
  BY <1>1, <1>2, OwnedBind, OwnedMain, OwnedStop, OwnedPause, OwnedRequest,
     OwnedFlow DEF Next

(* No session of the core is left running in the state STOP with nobody to   *)
(* end it, whichever stops, pauses, resumes and deaths meet a start: what    *)
(* performStartCore checks twice for.                                        *)
THEOREM NoOrphanHolds ==
  ASSUME OneWorld
  PROVE  Spec => []NoOrphanTunnel
<1>1. Init => Owned
  BY DEF Init, Owned, Consented, Single, Safe, Starting
<1>2. Owned /\ TypeInv /\ [Next]_vars => Owned'
  BY OwnedKept
<1>3. Owned => NoOrphanTunnel
  BY DEF Owned, Safe, NoOrphanTunnel, Committing
<1> QED BY <1>1, <1>2, <1>3, InitType, TypeKept, PTL DEF Spec

-----------------------------------------------------------------------------
(* FrameCodec                                                                *)
(*                                                                           *)
(* However the stream is cut, frames come out whole and in order.            *)
(*                                                                           *)
(* Loop is a recursive function of the offset, and the prover takes nothing  *)
(* of one for granted: TurnsIs shows that a function with that equation      *)
(* exists, by the least offset from the end at which there would be none.    *)
(* What the loop gives is shown in the same way (LoopTypes, LoopGives).  The *)
(* invariant says how the bytes not decoded yet are made of the frames not   *)
(* handed out yet (Cuts).                                                    *)

LEMMA CodecSizes ==
  /\ Base \in Nat /\ Base > 1 /\ MaxLength \in Nat /\ MaxFrames \in Nat
  /\ MaxLength + 1 < Base * Base
  BY CodecAssumption

(* A number below Base * Base is told by its two digits.                     *)
LEMMA Header ==
  ASSUME NEW n \in Nat, n < Base * Base
  PROVE  /\ n % Base \in Bytes /\ n \div Base \in Bytes
         /\ (n % Base) + Base * (n \div Base) = n
  <1>1. Base \in Nat /\ Base > 1
    BY CodecSizes
  <1>2. n % Base \in 0 .. Base - 1 /\ n \div Base \in Nat
    BY <1>1
  <1>3. (n % Base) + Base * (n \div Base) = n
    BY <1>1
  <1>4. n \div Base < Base
    <2> DEFINE q == n \div Base
    <2>1. q \in Nat /\ Base * q <= n
      BY <1>1, <1>2, <1>3
    <2> HIDE DEF q
    <2>2. q >= Base => Base * q >= Base * Base
      BY <1>1, <2>1
    <2> QED
      BY <1>1, <2>1, <2>2 DEF q
  <1> QED
    BY <1>1, <1>2, <1>3, <1>4 DEF Bytes

LEMMA LengthIs ==
  ASSUME NEW buffer \in Seq(Bytes), NEW offset \in Nat, offset + 2 <= Len(buffer)
  PROVE  /\ LengthAt(buffer, offset) \in Nat
         /\ buffer[offset + 1] \in Nat /\ buffer[offset + 2] \in Nat
  <1>1. buffer[offset + 1] \in Bytes /\ buffer[offset + 2] \in Bytes
    OBVIOUS
  <1>2. Bytes \subseteq Nat /\ Base \in Nat
    BY CodecSizes DEF Bytes
  <1>3. \A x, y \in Nat : x + Base * y \in Nat
    BY <1>2
  <1> QED
    BY <1>1, <1>2, <1>3 DEF LengthAt

LEMMA LeastNumber ==
  ASSUME NEW T, T \subseteq Nat, T # {}
  PROVE  \E g \in T : \A n \in T : g <= n
  <1> DEFINE R == OpToRel(<, Nat)
  <1>1. IsWellFoundedOn(R, Nat)
    BY NatLessThanWellFounded
  <1>2. \A x, y \in Nat : x < y => <<x, y>> \in R
    BY DEF OpToRel
  <1> HIDE DEF R
  <1>3. PICK g \in T : \A y \in T : ~ (<<y, g>> \in R)
    BY <1>1, WFMin
  <1>4. ASSUME NEW n \in T PROVE g <= n
    <2>1. n \in Nat /\ g \in Nat /\ ~ (<<n, g>> \in R)
      BY <1>3
    <2>2. ~ (n < g)
      BY <2>1, <1>2
    <2> QED
      BY <2>1, <2>2
  <1> QED
    BY <1>4

-----------------------------------------------------------------------------
(* The loop as a function of the offset *)

Turns(buffer) ==
    CHOOSE from : from = [offset \in 0 .. Len(buffer) |-> Turn(buffer, offset, from)]

LEMMA LoopIs ==
  ASSUME NEW buffer
  PROVE  Loop(buffer) = Turns(buffer)[0]
  BY DEF Loop, Turns

(* A turn needs the loop at a later offset only, and within the buffer.      *)
LEMMA TurnLooksAhead ==
  ASSUME NEW buffer \in Seq(Bytes), NEW o \in 0 .. Len(buffer), NEW f, NEW g,
         \A x \in o + 1 .. Len(buffer) : f[x] = g[x]
  PROVE  Turn(buffer, o, f) = Turn(buffer, o, g)
  <1>1. CASE Len(buffer) - o < HeaderLength
    BY <1>1 DEF Turn
  <1>2. CASE ~ (Len(buffer) - o < HeaderLength)
    <2> DEFINE n == LengthAt(buffer, o)
               next == o + HeaderLength + n
    <2>1. n \in Nat /\ Len(buffer) \in Nat /\ o \in Nat
      BY <1>2, LengthIs DEF HeaderLength
    <2> HIDE DEF n
    <2>2. ~ (Len(buffer) - o < HeaderLength + n) => f[next] = g[next]
      BY <2>1 DEF HeaderLength
    <2> QED
      BY <2>2 DEF Turn, n
  <1> QED
    BY <1>1, <1>2

LEMMA TurnsIs ==
  ASSUME NEW buffer \in Seq(Bytes)
  PROVE  \A o \in 0 .. Len(buffer) : Turns(buffer)[o] = Turn(buffer, o, Turns(buffer))
  <1> DEFINE L == Len(buffer)
             D == 0 .. L
             Good(f, k) == /\ DOMAIN f = D /\ f = [o \in D |-> f[o]]
                           /\ \A o \in D : o + k > L => f[o] = Turn(buffer, o, f)
             T == {k \in Nat : k <= L + 1 /\ ~ \E f : Good(f, k)}
  <1>1. L \in Nat
    OBVIOUS
  <1> HIDE DEF L
  <1>2. ASSUME T # {} PROVE FALSE
    <2>1. PICK k \in T : \A n \in T : k <= n
      <3>1. T \subseteq Nat
        OBVIOUS
      <3> HIDE DEF T
      <3> QED BY <1>2, <3>1, LeastNumber
    <2>2. k \in Nat /\ k <= L + 1 /\ ~ \E f : Good(f, k)
      BY <2>1
    <2>3. k # 0
      <3> DEFINE f == [o \in D |-> 0]
      <3>1. Good(f, 0)
        BY <1>1
      <3> HIDE DEF f, Good
      <3> QED BY <3>1, <2>2
    <2>4. k - 1 \in Nat /\ k - 1 <= L + 1 /\ k - 1 \notin T
      BY <1>1, <2>1, <2>2, <2>3
    <2>5. PICK f : Good(f, k - 1)
      BY <2>4
    <2> DEFINE p == L + 1 - k
               g == [f EXCEPT ![p] = Turn(buffer, p, f)]
    <2>6. p \in D
      BY <1>1, <2>2, <2>3
    <2>7. \A o \in D : o # p => g[o] = f[o]
      BY <2>5
    <2>8. g[p] = Turn(buffer, p, f) /\ DOMAIN g = D /\ g = [o \in D |-> g[o]]
      BY <2>5, <2>6
    <2> HIDE DEF g
    <2>9. ASSUME NEW o \in D, o + k > L PROVE g[o] = Turn(buffer, o, g)
      <3>1. o >= p /\ p \in Nat /\ o \in Nat
        BY <1>1, <2>2, <2>6, <2>9
      <3>2. \A x \in o + 1 .. L : g[x] = f[x]
        BY <3>1, <2>7, <1>1
      <3>3. Turn(buffer, o, g) = Turn(buffer, o, f)
        BY <3>2, TurnLooksAhead DEF L
      <3>4. CASE o = p
        BY <3>3, <3>4, <2>8
      <3>5. CASE o # p
        <4>1. o + (k - 1) > L
          BY <3>1, <3>5, <1>1, <2>2
        <4> QED
          BY <4>1, <3>3, <3>5, <2>5, <2>7
      <3> QED
        BY <3>4, <3>5
    <2>10. Good(g, k)
      BY <2>8, <2>9
    <2> QED
      BY <2>2, <2>10
  <1>3. PICK f : Good(f, L + 1)
    <2>1. L + 1 \in Nat /\ L + 1 <= L + 1 /\ L + 1 \notin T
      BY <1>1, <1>2
    <2> QED
      BY <2>1
  <1>4. f = [o \in D |-> Turn(buffer, o, f)]
    <2>1. \A o \in D : o + (L + 1) > L
      BY <1>1
    <2> QED
      BY <1>3, <2>1
  <1>5. Turns(buffer) = [o \in 0 .. Len(buffer) |-> Turn(buffer, o, Turns(buffer))]
    BY <1>4 DEF Turns, L
  <1> QED
    BY <1>5

(* What holds at an offset if it holds at all later ones holds everywhere.   *)
LEMMA Backwards ==
  ASSUME NEW L \in Nat, NEW S,
         \A o \in 0 .. L : (\A x \in o + 1 .. L : x \in S) => o \in S
  PROVE  \A o \in 0 .. L : o \in S
  <1> DEFINE T == {k \in Nat : k <= L /\ ~ (L - k \in S)}
  <1>1. ASSUME T # {} PROVE FALSE
    <2>1. PICK k \in T : \A n \in T : k <= n
      <3>1. T \subseteq Nat
        OBVIOUS
      <3> HIDE DEF T
      <3> QED BY <1>1, <3>1, LeastNumber
    <2>2. k \in Nat /\ k <= L /\ ~ (L - k \in S)
      BY <2>1
    <2>3. PICK x \in (L - k) + 1 .. L : x \notin S
      BY <2>2
    <2>4. L - x \in Nat /\ L - x < k /\ L - (L - x) = x
      BY <2>2, <2>3
    <2>5. L - x \in T
      BY <2>3, <2>4, <2>2
    <2> HIDE DEF T
    <2> QED
      BY <2>1, <2>2, <2>4, <2>5
  <1>2. ASSUME NEW o \in 0 .. L, o \notin S PROVE FALSE
    <2>1. L - o \in Nat /\ L - o <= L /\ L - (L - o) = o
      OBVIOUS
    <2>2. L - o \in T
      BY <2>1, <1>2
    <2> HIDE DEF T
    <2> QED
      BY <2>2, <1>1
  <1> QED
    BY <1>2

-----------------------------------------------------------------------------
(* What a turn gives *)

LEMMA SeqOfIs ==
  ASSUME NEW S, NEW n \in Nat
  PROVE  \A q : q \in SeqOf(S, n) <=> q \in Seq(S) /\ Len(q) <= n
  <1>1. \A q : q \in SeqOf(S, n) <=> \E m \in 0 .. n : q \in [1 .. m -> S]
    BY DEF SeqOf
  <1>2. ASSUME NEW q, NEW m \in 0 .. n, q \in [1 .. m -> S]
        PROVE  q \in Seq(S) /\ Len(q) <= n
    <2>1. m \in Nat /\ m <= n
      OBVIOUS
    <2>2. q \in Seq(S)
      BY <1>2, <2>1
    <2>3. Len(q) = m
      BY <1>2, <2>1, <2>2
    <2> QED
      BY <2>1, <2>2, <2>3
  <1>3. ASSUME NEW q \in Seq(S), Len(q) <= n
        PROVE  \E m \in 0 .. n : q \in [1 .. m -> S]
    <2>1. Len(q) \in 0 .. n /\ q \in [1 .. Len(q) -> S]
      BY <1>3
    <2> QED
      BY <2>1
  <1> QED
    BY <1>1, <1>2, <1>3

(* A buffer without a whole frame at its start. *)
NoFrame(buffer) ==
    \/ Len(buffer) < HeaderLength
    \/ /\ LengthAt(buffer, 0) <= MaxLength
       /\ Len(buffer) < HeaderLength + LengthAt(buffer, 0)

Whole == SeqOf(Bytes, MaxLength)
Pieces == [frames : Seq(Whole), throws : BOOLEAN, rest : {q \in Seq(Bytes) : NoFrame(q)}]

LEMMA RestIs ==
  ASSUME NEW buffer \in Seq(Bytes), NEW o \in 0 .. Len(buffer)
  PROVE  /\ SubSeq(buffer, o + 1, Len(buffer)) \in Seq(Bytes)
         /\ Len(SubSeq(buffer, o + 1, Len(buffer))) = Len(buffer) - o
         /\ o + 2 <= Len(buffer) =>
                LengthAt(SubSeq(buffer, o + 1, Len(buffer)), 0) = LengthAt(buffer, o)
  <1> DEFINE q == SubSeq(buffer, o + 1, Len(buffer))
  <1>1. o \in Nat /\ Len(buffer) \in Nat /\ o <= Len(buffer)
    OBVIOUS
  <1>2. q \in Seq(Bytes) /\ Len(q) = Len(buffer) - o
    BY <1>1, SubSeqProperties
  <1>3. \A i \in 1 .. Len(buffer) - o : q[i] = buffer[o + i]
    <2>1. \A i \in 1 .. Len(buffer) - o : q[i] = buffer[(o + 1) + i - 1]
      BY <1>1, <1>2, SubSeqProperties
    <2> QED
      BY <2>1, <1>1
  <1> HIDE DEF q
  <1>4. ASSUME o + 2 <= Len(buffer) PROVE LengthAt(q, 0) = LengthAt(buffer, o)
    <2>1. q[1] = buffer[o + 1] /\ q[2] = buffer[o + 2]
      BY <1>1, <1>3, <1>4
    <2> QED
      BY <2>1 DEF LengthAt
  <1> QED
    BY <1>2, <1>4 DEF q

(* The turn cuts a frame of n bytes off, before what the loop gives after it. *)
CutsOff(buffer, o, n, f) ==
    LET d == SubSeq(buffer, o + 3, o + 2 + n)
        next == f[o + 2 + n]
    IN /\ Turn(buffer, o, f) =
              [frames |-> <<d>> \o next.frames, throws |-> next.throws, rest |-> next.rest]
       /\ d \in Whole /\ Len(d) = n /\ \A i \in 1 .. n : d[i] = buffer[o + 2 + i]

LEMMA TurnCuts ==
  ASSUME NEW buffer \in Seq(Bytes), NEW o \in Nat, NEW n \in Nat, NEW f,
         o + 2 <= Len(buffer), LengthAt(buffer, o) = n, n <= MaxLength,
         o + 2 + n <= Len(buffer), f[o + 2 + n] \in Pieces
  PROVE  CutsOff(buffer, o, n, f)
  <1> DEFINE d == SubSeq(buffer, o + 3, o + 2 + n)
  <1>1. Len(buffer) \in Nat /\ MaxLength \in Nat
    BY CodecSizes
  <1>2. \A i \in o + 3 .. o + 2 + n : buffer[i] \in Bytes
    BY <1>1
  <1>3. /\ d \in Seq(Bytes) /\ Len(d) = n
        /\ \A i \in 1 .. (o + 2 + n) - (o + 3) + 1 : d[i] = buffer[(o + 3) + i - 1]
    <2>1. o + 3 \in Int /\ o + 2 + n \in Int
      OBVIOUS
    <2>2. /\ d \in Seq(Bytes)
          /\ Len(d) = IF o + 3 <= o + 2 + n THEN (o + 2 + n) - (o + 3) + 1 ELSE 0
          /\ \A i \in 1 .. (o + 2 + n) - (o + 3) + 1 : d[i] = buffer[(o + 3) + i - 1]
      BY <1>2, <2>1, SubSeqProperties
    <2> QED
      BY <2>2
  <1>4. \A i \in 1 .. n : d[i] = buffer[o + 2 + i]
    <2>1. \A i \in 1 .. n : i \in 1 .. (o + 2 + n) - (o + 3) + 1 /\ (o + 3) + i - 1 = o + 2 + i
      OBVIOUS
    <2> HIDE DEF d
    <2> QED
      BY <1>3, <2>1
  <1>5. d \in Whole
    BY <1>1, <1>3, SeqOfIs DEF Whole
  <1>6. Turn(buffer, o, f) = [f[o + 2 + n] EXCEPT !.frames = <<d>> \o @]
    <2>1. o + HeaderLength + n = o + 2 + n /\ o + HeaderLength + 1 = o + 3
      BY DEF HeaderLength
    <2>2. ~ (Len(buffer) - o < HeaderLength) /\ ~ (Len(buffer) - o < HeaderLength + n)
      BY <1>1 DEF HeaderLength
    <2>3. ~ TooLarge(n)
      BY <1>1 DEF TooLarge
    <2> QED
      BY <2>1, <2>2, <2>3 DEF Turn
  <1> HIDE DEF d
  <1>7. DOMAIN f[o + 2 + n] = {"frames", "throws", "rest"}
    BY DEF Pieces
  <1>8. f[o + 2 + n] = [frames |-> f[o + 2 + n].frames, throws |-> f[o + 2 + n].throws,
                        rest |-> f[o + 2 + n].rest]
    BY DEF Pieces
  <1>9. Turn(buffer, o, f) = [frames |-> <<d>> \o f[o + 2 + n].frames,
                              throws |-> f[o + 2 + n].throws, rest |-> f[o + 2 + n].rest]
    BY <1>6, <1>8
  <1> QED
    BY <1>3, <1>4, <1>5, <1>9 DEF d, CutsOff

(* A frame that is not there yet is kept.                                    *)
LEMMA TurnKeeps ==
  ASSUME NEW buffer \in Seq(Bytes), NEW o \in 0 .. Len(buffer), NEW f,
         \/ Len(buffer) < o + 2
         \/ LengthAt(buffer, o) <= MaxLength /\ Len(buffer) < o + 2 + LengthAt(buffer, o)
  PROVE  /\ Turn(buffer, o, f) = [frames |-> <<>>, throws |-> FALSE,
                                  rest |-> SubSeq(buffer, o + 1, Len(buffer))]
         /\ Turn(buffer, o, f) \in Pieces
  <1> DEFINE q == SubSeq(buffer, o + 1, Len(buffer))
  <1>1. o \in Nat /\ Len(buffer) \in Nat /\ o <= Len(buffer) /\ MaxLength \in Nat
    BY CodecSizes
  <1>2. /\ q \in Seq(Bytes) /\ Len(q) = Len(buffer) - o
        /\ o + 2 <= Len(buffer) => LengthAt(q, 0) = LengthAt(buffer, o)
    BY RestIs
  <1>3. Breaks(buffer, o) = [frames |-> <<>>, throws |-> FALSE, rest |-> q]
    BY DEF Breaks
  <1> HIDE DEF q
  <1>4. o + 2 <= Len(buffer) => LengthAt(buffer, o) \in Nat
    BY <1>1, LengthIs
  <1>5. Turn(buffer, o, f) = Breaks(buffer, o)
    <2>1. CASE Len(buffer) < o + 2
      <3>1. Len(buffer) - o < HeaderLength
        BY <1>1, <2>1 DEF HeaderLength
      <3> QED
        BY <3>1 DEF Turn
    <2>2. CASE ~ (Len(buffer) < o + 2)
      <3>1. /\ ~ (Len(buffer) - o < HeaderLength) /\ ~ TooLarge(LengthAt(buffer, o))
            /\ Len(buffer) - o < HeaderLength + LengthAt(buffer, o)
        BY <1>1, <1>4, <2>2 DEF HeaderLength, TooLarge
      <3> QED
        BY <3>1 DEF Turn
    <2> QED
      BY <2>1, <2>2
  <1>6. NoFrame(q)
    <2>1. CASE Len(buffer) < o + 2
      BY <1>1, <1>2, <2>1 DEF NoFrame, HeaderLength
    <2>2. CASE ~ (Len(buffer) < o + 2)
      BY <1>1, <1>2, <1>4, <2>2 DEF NoFrame, HeaderLength
    <2> QED
      BY <2>1, <2>2
  <1>7. [frames |-> <<>>, throws |-> FALSE, rest |-> q] \in Pieces
    BY <1>2, <1>6 DEF Pieces
  <1> QED
    BY <1>3, <1>5, <1>7 DEF q

LEMMA LoopTypes ==
  ASSUME NEW buffer \in Seq(Bytes)
  PROVE  \A o \in 0 .. Len(buffer) : Turns(buffer)[o] \in Pieces
  <1> DEFINE L == Len(buffer)
             f == Turns(buffer)
             S == {o \in 0 .. L : f[o] \in Pieces}
  <1>1. L \in Nat /\ MaxLength \in Nat
    BY CodecSizes
  <1>2. \A o \in 0 .. L : f[o] = Turn(buffer, o, f)
    BY TurnsIs
  <1> HIDE DEF f
  <1>3. ASSUME NEW o \in 0 .. L, \A x \in o + 1 .. L : x \in S
        PROVE  o \in S
    <2> DEFINE n == LengthAt(buffer, o)
    <2>1. o \in Nat /\ (o + 2 <= L => n \in Nat)
      BY LengthIs
    <2>2. CASE L < o + 2 \/ (n <= MaxLength /\ L < o + 2 + n)
      BY <1>2, <2>2, TurnKeeps
    <2>3. CASE o + 2 <= L /\ n > MaxLength
      <3>1. Throws(buffer) \in Pieces
        BY DEF Throws, Pieces, NoFrame, HeaderLength
      <3>2. ~ (L - o < HeaderLength) /\ TooLarge(n)
        BY <1>1, <2>1, <2>3 DEF HeaderLength, TooLarge
      <3>3. Turn(buffer, o, f) = Throws(buffer)
        BY <3>2 DEF Turn
      <3> QED
        BY <3>1, <3>3, <1>2
    <2>4. CASE o + 2 <= L /\ n <= MaxLength /\ o + 2 + n <= L
      <3>1. o + 2 + n \in o + 1 .. L /\ o + 2 + n \in Nat
        BY <1>1, <2>1, <2>4
      <3>2. f[o + 2 + n] \in Pieces
        BY <3>1, <1>3
      <3>3. CutsOff(buffer, o, n, f)
        <4>1. n \in Nat /\ o \in Nat /\ o + 2 <= Len(buffer) /\ LengthAt(buffer, o) = n
          BY <2>1, <2>4
        <4>2. n <= MaxLength /\ o + 2 + n <= Len(buffer)
          BY <2>4
        <4> HIDE DEF n, L
        <4> QED
          BY <4>1, <4>2, <3>2, TurnCuts
      <3> DEFINE d == SubSeq(buffer, o + 3, o + 2 + n)
      <3>31. d \in Whole
        BY <3>3 DEF CutsOff
      <3>32. Turn(buffer, o, f) =
                  [frames |-> <<d>> \o f[o + 2 + n].frames,
                   throws |-> f[o + 2 + n].throws, rest |-> f[o + 2 + n].rest]
        BY <3>3 DEF CutsOff
      <3> HIDE DEF d, n
      <3>4. <<d>> \in Seq(Whole) /\ f[o + 2 + n].frames \in Seq(Whole)
        BY <3>2, <3>31 DEF Pieces
      <3>5. <<d>> \o f[o + 2 + n].frames \in Seq(Whole)
        BY <3>4, ConcatProperties
      <3>6. Turn(buffer, o, f) \in Pieces
        BY <3>2, <3>32, <3>5 DEF Pieces
      <3> QED
        BY <3>6, <1>2
    <2> HIDE DEF n, L, S
    <2> QED
      BY <1>1, <2>1, <2>2, <2>3, <2>4
  <1> HIDE DEF S
  <1>4. \A o \in 0 .. L : o \in S
    BY <1>1, <1>3, Backwards
  <1> QED
    BY <1>4 DEF S, f

-----------------------------------------------------------------------------
(* What the loop gives for frames that fit *)

(* The bytes of the frame of data, from an offset on. *)
FrameAt(stream, o, data) ==
    /\ o + 2 + Len(data) <= Len(stream)
    /\ stream[o + 1] = Len(data) % Base /\ stream[o + 2] = Len(data) \div Base
    /\ \A i \in 1 .. Len(data) : stream[o + 2 + i] = data[i]

(* stream is made of the frames of s after the first h, and frame j ends at  *)
(* the offset c[j].                                                          *)
Cuts(s, h, c, stream) ==
    /\ c \in [h .. Len(s) -> 0 .. Len(stream)]
    /\ c[h] = 0 /\ c[Len(s)] = Len(stream)
    /\ \A i, j \in h .. Len(s) : i <= j => c[i] <= c[j]
    /\ \A j \in h + 1 .. Len(s) :
           c[j] = c[j - 1] + 2 + Len(s[j]) /\ FrameAt(stream, c[j - 1], s[j])

(* From the end of frame j on, the loop gives the frames that are whole and  *)
(* keeps the bytes after them.                                               *)
GivesTo(s, j, k, c, buffer) ==
    /\ c[k] <= Len(buffer)
    /\ Turns(buffer)[c[j]] = [frames |-> SubSeq(s, j + 1, k), throws |-> FALSE,
                              rest |-> SubSeq(buffer, c[k] + 1, Len(buffer))]

LEMMA FrameLength ==
  ASSUME NEW buffer \in Seq(Bytes), NEW stream, NEW o \in Nat, NEW data \in Whole,
         FrameAt(stream, o, data), o + 2 <= Len(buffer),
         \A i \in 1 .. Len(buffer) : buffer[i] = stream[i]
  PROVE  LengthAt(buffer, o) = Len(data) /\ Len(data) \in Nat /\ Len(data) <= MaxLength
  <1>1. MaxLength \in Nat /\ MaxLength + 1 < Base * Base /\ Base \in Nat /\ Base > 1
    BY CodecSizes
  <1>2. Len(data) \in Nat /\ Len(data) <= MaxLength
    BY <1>1, SeqOfIs DEF Whole
  <1>3. Base * Base \in Nat
    BY <1>1
  <1>4. Len(data) < Base * Base
    BY <1>1, <1>2, <1>3
  <1>5. (Len(data) % Base) + Base * (Len(data) \div Base) = Len(data)
    BY <1>2, <1>4, Header
  <1>6. o + 1 \in 1 .. Len(buffer) /\ o + 2 \in 1 .. Len(buffer)
    OBVIOUS
  <1>7. buffer[o + 1] = Len(data) % Base /\ buffer[o + 2] = Len(data) \div Base
    BY <1>6 DEF FrameAt
  <1> QED
    BY <1>2, <1>5, <1>7 DEF LengthAt

LEMMA FrameJoins ==
  ASSUME NEW s \in Seq(Whole), NEW j \in Nat, NEW k \in j + 1 .. Len(s),
         NEW d \in Seq(Bytes), Len(d) = Len(s[j + 1]), \A i \in 1 .. Len(d) : d[i] = s[j + 1][i]
  PROVE  <<d>> \o SubSeq(s, j + 2, k) = SubSeq(s, j + 1, k)
  <1>1. j + 1 \in 1 .. Len(s) /\ k \in j + 1 .. Len(s) /\ (j + 1) + 1 = j + 2
    OBVIOUS
  <1>2. s[j + 1] \in Whole
    BY <1>1
  <1>3. s[j + 1] \in Seq(Bytes)
    BY <1>2, SeqOfIs, CodecSizes DEF Whole
  <1>4. d = s[j + 1]
    <2> DEFINE e == s[j + 1]
    <2>1. e \in Seq(Bytes) /\ Len(d) = Len(e) /\ \A i \in 1 .. Len(d) : d[i] = e[i]
      BY <1>3
    <2> HIDE DEF e
    <2>2. d = e
      BY <2>1
    <2> QED
      BY <2>2 DEF e
  <1>5. SubSeq(s, j + 1, k) = <<s[j + 1]>> \o SubSeq(s, (j + 1) + 1, k)
    BY <1>1, SubSeqRecursiveFirst
  <1> QED
    BY <1>1, <1>4, <1>5

LEMMA LoopGives ==
  ASSUME NEW s \in Seq(Whole), NEW h \in 0 .. Len(s), NEW c, NEW stream \in Seq(Bytes),
         NEW buffer \in Seq(Bytes), Cuts(s, h, c, stream), Len(buffer) <= Len(stream),
         \A i \in 1 .. Len(buffer) : buffer[i] = stream[i]
  PROVE  \E k \in h .. Len(s) : GivesTo(s, h, k, c, buffer)
  <1> DEFINE N == Len(s)
             L == Len(buffer)
             f == Turns(buffer)
             S == {j \in 0 .. N : (h <= j /\ c[j] <= L) =>
                                      \E k \in j .. N : GivesTo(s, j, k, c, buffer)}
  <1>1. L \in Nat /\ N \in Nat /\ MaxLength \in Nat /\ h \in Nat /\ Len(stream) \in Nat
    BY CodecSizes
  <1>2. \A o \in 0 .. L : f[o] = Turn(buffer, o, f)
    BY TurnsIs
  <1>3. \A j \in h .. N : c[j] \in Nat
    <2>1. c \in [h .. N -> 0 .. Len(stream)]
      BY DEF Cuts
    <2>2. \A j \in h .. N : c[j] \in 0 .. Len(stream)
      BY <2>1
    <2> QED
      BY <2>2
  <1>4. ASSUME NEW j \in 0 .. N, \A x \in j + 1 .. N : x \in S, h <= j, c[j] <= L
        PROVE  \E k \in j .. N : GivesTo(s, j, k, c, buffer)
    <2>1. j \in h .. N /\ j \in Nat /\ c[j] \in Nat /\ c[j] \in 0 .. L
      BY <1>1, <1>3, <1>4
    <2> DEFINE Keeps == \/ L < c[j] + 2
                        \/ LengthAt(buffer, c[j]) <= MaxLength
                           /\ L < c[j] + 2 + LengthAt(buffer, c[j])
    <2>2. ASSUME Keeps PROVE \E k \in j .. N : GivesTo(s, j, k, c, buffer)
      <3>1. Turn(buffer, c[j], f) = [frames |-> <<>>, throws |-> FALSE,
                                     rest |-> SubSeq(buffer, c[j] + 1, L)]
        BY <2>1, <2>2, TurnKeeps
      <3>2. SubSeq(s, j + 1, j) = <<>>
        <4>1. j + 1 \in Int /\ j \in Int /\ j < j + 1
          BY <2>1
        <4> QED
          BY <4>1, SubSeqEmpty
      <3>3. GivesTo(s, j, j, c, buffer)
        BY <1>2, <2>1, <3>1, <3>2, <1>4 DEF GivesTo
      <3> QED
        BY <2>1, <3>3
    <2>3. CASE j = N
      <3>1. c[j] = L
        BY <1>1, <1>4, <2>1, <2>3 DEF Cuts
      <3>2. Keeps
        BY <1>1, <3>1
      <3> QED
        BY <2>2, <3>2
    <2>4. CASE j # N
      <3>1. j + 1 \in h + 1 .. N /\ j + 1 \in h .. N /\ (j + 1) - 1 = j /\ j + 1 \in 1 .. N
        BY <1>1, <2>1, <2>4
      <3> DEFINE data == s[j + 1]
                 n == Len(data)
      <3>2. data \in Whole
        BY <3>1
      <3>3. c[j + 1] = c[j] + 2 + n /\ FrameAt(stream, c[j], data)
        <4>1. c[j + 1] = c[(j + 1) - 1] + 2 + n /\ FrameAt(stream, c[(j + 1) - 1], data)
          BY <3>1 DEF Cuts
        <4> QED
          BY <4>1, <3>1
      <3> HIDE DEF data
      <3>4. c[j] + 2 <= L =>
                LengthAt(buffer, c[j]) = n /\ n \in Nat /\ n <= MaxLength
        BY <2>1, <3>2, <3>3, FrameLength
      <3>5. CASE c[j] + 2 <= L /\ c[j] + 2 + n <= L
        <4>1. j + 1 \in S /\ c[j + 1] <= L /\ h <= j + 1
          BY <1>1, <1>4, <2>1, <3>1, <3>3, <3>5
        <4>2. PICK k \in j + 1 .. N : GivesTo(s, j + 1, k, c, buffer)
          BY <4>1
        <4>3. c[j] + 2 + n \in 0 .. L /\ n \in Nat
          BY <2>1, <3>4, <3>5
        <4>4. f[c[j] + 2 + n] \in Pieces
          BY <4>3, LoopTypes
        <4>5. CutsOff(buffer, c[j], n, f)
          <5>1. c[j] \in Nat /\ n \in Nat /\ c[j] + 2 <= Len(buffer) /\ n <= MaxLength
            BY <2>1, <3>4, <3>5
          <5>2. LengthAt(buffer, c[j]) = n /\ c[j] + 2 + n <= Len(buffer)
            BY <3>4, <3>5
          <5> HIDE DEF n, f
          <5> QED
            BY <5>1, <5>2, <4>4, TurnCuts
        <4> DEFINE d == SubSeq(buffer, c[j] + 3, c[j] + 2 + n)
        <4>6. /\ d \in Whole /\ Len(d) = n /\ \A i \in 1 .. n : d[i] = buffer[c[j] + 2 + i]
              /\ Turn(buffer, c[j], f) =
                    [frames |-> <<d>> \o f[c[j] + 2 + n].frames,
                     throws |-> f[c[j] + 2 + n].throws, rest |-> f[c[j] + 2 + n].rest]
          BY <4>5 DEF CutsOff
        <4> HIDE DEF d
        <4>7. \A i \in 1 .. n : d[i] = data[i]
          <5>1. \A i \in 1 .. n : c[j] + 2 + i \in 1 .. L
            <6>1. PICK x \in Nat, m \in Nat, y \in Nat : x = c[j] /\ m = n /\ y = L
              BY <1>1, <2>1, <4>3
            <6>2. x \in Nat /\ m \in Nat /\ y \in Nat /\ x + 2 + m <= y
              BY <3>5, <6>1
            <6>3. \A i \in 1 .. m : x + 2 + i \in 1 .. y
              BY <6>2
            <6> QED
              BY <6>1, <6>3
          <5>2. \A i \in 1 .. n : stream[c[j] + 2 + i] = data[i]
            BY <3>3 DEF FrameAt
          <5> HIDE DEF n
          <5> QED
            BY <4>6, <5>1, <5>2
        <4>8. <<d>> \o SubSeq(s, j + 2, k) = SubSeq(s, j + 1, k)
          <5>1. d \in Seq(Bytes)
            BY <4>6, SeqOfIs, CodecSizes DEF Whole
          <5>2. Len(d) = Len(s[j + 1]) /\ \A i \in 1 .. Len(d) : d[i] = s[j + 1][i]
            BY <4>6, <4>7 DEF data
          <5> QED
            BY <2>1, <4>2, <5>1, <5>2, FrameJoins
        <4>9. f[c[j] + 2 + n] = [frames |-> SubSeq(s, j + 2, k), throws |-> FALSE,
                                 rest |-> SubSeq(buffer, c[k] + 1, L)]
          <5>1. f[c[j + 1]] = [frames |-> SubSeq(s, (j + 1) + 1, k), throws |-> FALSE,
                               rest |-> SubSeq(buffer, c[k] + 1, L)]
            BY <4>2 DEF GivesTo
          <5>2. (j + 1) + 1 = j + 2
            BY <2>1
          <5> QED
            BY <3>3, <5>1, <5>2
        <4>10. Turn(buffer, c[j], f) = [frames |-> SubSeq(s, j + 1, k), throws |-> FALSE,
                                        rest |-> SubSeq(buffer, c[k] + 1, L)]
          <5> DEFINE e == f[c[j] + 2 + n]
                     first == SubSeq(s, j + 2, k)
                     rest == SubSeq(buffer, c[k] + 1, L)
          <5>1. e.frames = first /\ e.throws = FALSE /\ e.rest = rest
            <6>1. e = [frames |-> first, throws |-> FALSE, rest |-> rest]
              BY <4>9
            <6> HIDE DEF e, first, rest
            <6> QED
              BY <6>1
          <5>2. Turn(buffer, c[j], f) =
                    [frames |-> <<d>> \o e.frames, throws |-> e.throws, rest |-> e.rest]
            BY <4>6
          <5> HIDE DEF e
          <5> QED
            BY <5>1, <5>2, <4>8
        <4>11. GivesTo(s, j, k, c, buffer)
          BY <1>2, <2>1, <4>2, <4>10 DEF GivesTo
        <4>12. k \in j .. N
          BY <2>1, <4>2
        <4> QED
          BY <4>11, <4>12
      <3>6. CASE ~ (c[j] + 2 <= L /\ c[j] + 2 + n <= L)
        <4>1. Keeps
          BY <1>1, <2>1, <3>4, <3>6
        <4> QED
          BY <2>2, <4>1
      <3> QED
        BY <3>5, <3>6
    <2> QED
      BY <2>3, <2>4
  <1>5. ASSUME NEW j \in 0 .. N, \A x \in j + 1 .. N : x \in S PROVE j \in S
    BY <1>4, <1>5
  <1>6. \A j \in 0 .. N : j \in S
    <2> HIDE DEF S, N
    <2> QED
      BY <1>1, <1>5, Backwards
  <1>7. c[h] <= L /\ h \in 0 .. N /\ h <= h
    BY <1>1 DEF Cuts
  <1> QED
    BY <1>6, <1>7

-----------------------------------------------------------------------------
(* The invariant *)

AllFit == \A i \in DOMAIN sent : Fits(sent[i])

(* The frames handed out are the first h, and the bytes kept and on their    *)
(* way are those of the others.                                              *)
AllAccounted ==
    /\ ~failed
    /\ \E h \in 0 .. Len(sent) :
           /\ handed = SubSeq(sent, 1, h)
           /\ \E c : Cuts(sent, h, c, builder \o wire)

CodecProofInv == CodecTypeOK /\ NoFrame(builder) /\ (AllFit => AllAccounted)

LEMMA FitsIs ==
  ASSUME CodecTypeOK
  PROVE  /\ sent \in Seq(Payloads)
         /\ AllFit => sent \in Seq(Whole)
  <1>1. MaxLength \in Nat /\ MaxLength + 1 \in Nat
    BY CodecSizes
  <1>2. sent \in Seq(Payloads)
    BY DEF CodecTypeOK
  <1>3. ASSUME AllFit PROVE sent \in Seq(Whole)
    <2>1. \A i \in 1 .. Len(sent) : sent[i] \in Whole
      <3>1. ASSUME NEW i \in 1 .. Len(sent) PROVE sent[i] \in Whole
        <4>1. sent[i] \in Payloads /\ i \in DOMAIN sent
          BY <1>2
        <4>2. sent[i] \in Seq(Bytes)
          BY <1>1, <4>1, SeqOfIs DEF Payloads
        <4>3. Len(sent[i]) <= MaxLength
          BY <1>3, <4>1 DEF AllFit, Fits
        <4> QED
          BY <1>1, <4>2, <4>3, SeqOfIs DEF Whole
      <3> QED
        BY <3>1
    <2> QED
      BY <1>2, <2>1
  <1> QED
    BY <1>2, <1>3

LEMMA CodecInits ==
  ASSUME CodecInit
  PROVE  CodecProofInv
  <1>1. CodecTypeOK
    <2>1. sent = <<>> /\ wire = <<>> /\ builder = <<>> /\ handed = <<>> /\ failed = FALSE
      BY DEF CodecInit
    <2>2. \A S : <<>> \in Seq(S)
      OBVIOUS
    <2> QED
      BY <2>1, <2>2 DEF CodecTypeOK
  <1>2. NoFrame(builder)
    BY DEF CodecInit, NoFrame, HeaderLength
  <1>3. AllAccounted
    <2> DEFINE c == [i \in 0 .. 0 |-> 0]
    <2>1. builder \o wire = <<>>
      BY DEF CodecInit
    <2>2. Cuts(<<>>, 0, c, <<>>)
      BY DEF Cuts
    <2>3. sent = <<>> /\ handed = <<>> /\ ~failed
      BY DEF CodecInit
    <2>4. SubSeq(<<>>, 1, 0) = <<>>
      BY SubSeqEmpty
    <2> HIDE DEF c
    <2> QED
      BY <2>1, <2>2, <2>3, <2>4 DEF AllAccounted
  <1> QED
    BY <1>1, <1>2, <1>3 DEF CodecProofInv

(* The bytes of a frame in the code. *)
LEMMA EncodeIs ==
  ASSUME NEW data \in Seq(Bytes), Len(data) <= MaxLength + 1
  PROVE  /\ Encode(data) \in Seq(Bytes) /\ Len(data) \in Nat
         /\ Len(Encode(data)) = 2 + Len(data)
         /\ Encode(data)[1] = Len(data) % Base /\ Encode(data)[2] = Len(data) \div Base
         /\ \A i \in 1 .. Len(data) : Encode(data)[2 + i] = data[i]
  <1> DEFINE head == <<Len(data) % Base, Len(data) \div Base>>
  <1>1. Len(data) \in Nat /\ Len(data) < Base * Base
    <2>1. MaxLength \in Nat /\ MaxLength + 1 < Base * Base /\ Base * Base \in Nat
      BY CodecSizes
    <2> QED
      BY <2>1
  <1>2. head \in Seq(Bytes) /\ Len(head) = 2
    BY <1>1, Header
  <1>3. head[1] = Len(data) % Base /\ head[2] = Len(data) \div Base
    OBVIOUS
  <1> HIDE DEF head
  <1>4. /\ head \o data \in Seq(Bytes) /\ Len(head \o data) = 2 + Len(data)
        /\ \A i \in 1 .. 2 + Len(data) :
               (head \o data)[i] = IF i <= 2 THEN head[i] ELSE data[i - 2]
    <2>1. /\ head \o data \in Seq(Bytes) /\ Len(head \o data) = Len(head) + Len(data)
          /\ \A i \in 1 .. Len(head) + Len(data) : (head \o data)[i] =
                 IF i <= Len(head) THEN head[i] ELSE data[i - Len(head)]
      BY <1>2, ConcatProperties
    <2>2. Len(head) = 2
      BY <1>2
    <2> QED
      BY <2>1, <2>2
  <1>5. (head \o data)[1] = head[1] /\ (head \o data)[2] = head[2]
    BY <1>1, <1>4
  <1>6. \A i \in 1 .. Len(data) : (head \o data)[2 + i] = data[i]
    BY <1>1, <1>4
  <1> QED
    BY <1>1, <1>3, <1>4, <1>5, <1>6 DEF Encode, head

(* A frame goes after those that are there. *)
LEMMA CutsAppend ==
  ASSUME NEW s \in Seq(Whole), NEW h \in 0 .. Len(s), NEW c, NEW stream \in Seq(Bytes),
         NEW data \in Whole, Cuts(s, h, c, stream)
  PROVE  \E e : Cuts(Append(s, data), h, e, stream \o Encode(data))
  <1> DEFINE N == Len(s)
             M == Len(stream)
             n == Len(data)
             s2 == Append(s, data)
             all == stream \o Encode(data)
             e == [i \in h .. N + 1 |-> IF i <= N THEN c[i] ELSE M + 2 + n]
  <1>1. MaxLength \in Nat /\ N \in Nat /\ M \in Nat /\ h \in Nat /\ h <= N
    BY CodecSizes
  <1>2. data \in Seq(Bytes) /\ n \in Nat /\ n <= MaxLength + 1
    BY <1>1, SeqOfIs DEF Whole
  <1>3. /\ Encode(data) \in Seq(Bytes) /\ Len(Encode(data)) = 2 + n
        /\ Encode(data)[1] = n % Base /\ Encode(data)[2] = n \div Base
        /\ \A i \in 1 .. n : Encode(data)[2 + i] = data[i]
    BY <1>2, EncodeIs
  <1>4. /\ Len(all) = M + 2 + n
        /\ \A i \in 1 .. M + (2 + n) :
               all[i] = IF i <= M THEN stream[i] ELSE Encode(data)[i - M]
    <2> HIDE DEF n
    <2>1. /\ Len(all) = M + Len(Encode(data))
          /\ \A i \in 1 .. M + Len(Encode(data)) :
                 all[i] = IF i <= M THEN stream[i] ELSE Encode(data)[i - M]
      BY <1>3, ConcatProperties
    <2>2. Len(Encode(data)) = 2 + n
      BY <1>3
    <2>3. /\ Len(all) = M + (2 + n)
          /\ \A i \in 1 .. M + (2 + n) :
                 all[i] = IF i <= M THEN stream[i] ELSE Encode(data)[i - M]
      BY <2>1, <2>2
    <2> HIDE DEF all, M
    <2> QED
      BY <1>1, <1>2, <2>3
  <1>5. Len(s2) = N + 1 /\ s2[N + 1] = data /\ \A i \in 1 .. N : s2[i] = s[i]
    <2>1. s2 \in Seq(Whole)
      OBVIOUS
    <2> QED
      BY <1>1
  <1>6. /\ \A i \in h .. N : c[i] \in Nat /\ c[i] <= M
        /\ c[h] = 0 /\ c[N] = M
        /\ \A i, j \in h .. N : i <= j => c[i] <= c[j]
    <2>1. c \in [h .. N -> 0 .. M] /\ c[h] = 0 /\ c[N] = M
      BY DEF Cuts
    <2>2. \A i \in h .. N : c[i] \in 0 .. M
      BY <2>1
    <2>3. \A i, j \in h .. N : i <= j => c[i] <= c[j]
      BY DEF Cuts
    <2> HIDE DEF N, M
    <2> QED
      BY <2>1, <2>2, <2>3, <1>1
  <1>7. \A j \in h + 1 .. N : c[j] = c[j - 1] + 2 + Len(s[j]) /\ FrameAt(stream, c[j - 1], s[j])
    BY DEF Cuts
  <1> HIDE DEF N, M, n, s2, all
  <1>8. /\ \A i \in h .. N : e[i] = c[i]
        /\ e[N + 1] = M + 2 + n
        /\ e \in [h .. N + 1 -> 0 .. M + 2 + n]
    <2>1. \A i \in h .. N : i \in h .. N + 1 /\ i <= N
      BY <1>1
    <2>2. N + 1 \in h .. N + 1 /\ ~ (N + 1 <= N)
      BY <1>1
    <2>3. ASSUME NEW i \in h .. N + 1
          PROVE  (IF i <= N THEN c[i] ELSE M + 2 + n) \in 0 .. M + 2 + n
      <3>1. i <= N => i \in h .. N
        BY <1>1
      <3> QED
        BY <1>1, <1>2, <1>6, <3>1
    <2> QED
      BY <2>1, <2>2, <2>3
  <1> HIDE DEF e
  <1>9. \A i, j \in h .. N + 1 : i <= j => e[i] <= e[j]
    <2>1. ASSUME NEW i \in h .. N + 1, NEW j \in h .. N + 1, i <= j PROVE e[i] <= e[j]
      <3>1. e[i] \in 0 .. M + 2 + n
        BY <1>8
      <3>2. CASE j = N + 1
        BY <3>1, <3>2, <1>1, <1>2, <1>8
      <3>3. CASE j # N + 1
        <4>1. j \in h .. N /\ i \in h .. N
          BY <1>1, <2>1, <3>3
        <4> QED
          BY <4>1, <2>1, <1>6, <1>8
      <3> QED
        BY <3>2, <3>3
    <2> QED
      BY <2>1
  <1>10. ASSUME NEW j \in h + 1 .. N + 1
         PROVE  e[j] = e[j - 1] + 2 + Len(s2[j]) /\ FrameAt(all, e[j - 1], s2[j])
    <2>1. CASE j = N + 1
      <3>1. e[j - 1] = M /\ e[j] = M + 2 + n /\ s2[j] = data
        <4>1. (N + 1) - 1 = N /\ N \in h .. N
          BY <1>1
        <4> QED
          BY <4>1, <2>1, <1>5, <1>6, <1>8
      <3>2. FrameAt(all, M, data)
        <4>1. M + 2 + n <= Len(all)
          BY <1>1, <1>2, <1>4
        <4>2. all[M + 1] = n % Base /\ all[M + 2] = n \div Base
          <5>1. M + 1 \in 1 .. M + (2 + n) /\ M + 2 \in 1 .. M + (2 + n)
            BY <1>1, <1>2
          <5>2. ~ (M + 1 <= M) /\ ~ (M + 2 <= M) /\ (M + 1) - M = 1 /\ (M + 2) - M = 2
            BY <1>1
          <5> QED
            BY <5>1, <5>2, <1>3, <1>4
        <4>3. ASSUME NEW i \in 1 .. n PROVE all[M + 2 + i] = data[i]
          <5>1. /\ M + 2 + i \in 1 .. M + (2 + n) /\ ~ (M + 2 + i <= M)
                /\ (M + 2 + i) - M = 2 + i
            BY <1>1, <1>2
          <5> QED
            BY <5>1, <1>3, <1>4
        <4> QED
          BY <4>1, <4>2, <4>3 DEF FrameAt, n
      <3> QED
        BY <3>1, <3>2 DEF n
    <2>2. CASE j # N + 1
      <3>1. j \in h + 1 .. N /\ j \in h .. N /\ j - 1 \in h .. N /\ j \in 1 .. N
        BY <1>1, <2>2
      <3>2. e[j] = c[j] /\ e[j - 1] = c[j - 1] /\ s2[j] = s[j]
        BY <3>1, <1>5, <1>8
      <3> DEFINE o == c[j - 1]
                 d == s[j]
      <3>3. o \in Nat /\ c[j] = o + 2 + Len(d) /\ FrameAt(stream, o, d)
        BY <3>1, <1>6, <1>7
      <3>31. d \in Whole
        BY <3>1 DEF N
      <3>32. Len(d) \in Nat
        BY <3>31, SeqOfIs, CodecSizes DEF Whole
      <3>33. o + 2 + Len(d) <= M
        BY <3>3 DEF FrameAt, M
      <3> HIDE DEF o, d
      <3>4. \A i \in 1 .. M : all[i] = stream[i]
        <4>1. \A i \in 1 .. M : i \in 1 .. M + (2 + n) /\ i <= M
          BY <1>1, <1>2
        <4> QED
          BY <4>1, <1>4
      <3>5. FrameAt(all, o, d)
        <4>1. o + 2 + Len(d) <= Len(all)
          BY <1>1, <1>2, <1>4, <3>3, <3>32, <3>33
        <4>2. o + 1 \in 1 .. M /\ o + 2 \in 1 .. M /\ \A i \in 1 .. Len(d) : o + 2 + i \in 1 .. M
          BY <1>1, <3>3, <3>32, <3>33
        <4>3. all[o + 1] = Len(d) % Base /\ all[o + 2] = Len(d) \div Base
          BY <3>3, <3>4, <4>2 DEF FrameAt
        <4>4. \A i \in 1 .. Len(d) : all[o + 2 + i] = d[i]
          BY <3>3, <3>4, <4>2 DEF FrameAt
        <4> QED
          BY <4>1, <4>3, <4>4 DEF FrameAt
      <3> QED
        BY <3>2, <3>3, <3>5 DEF o, d
    <2> QED
      BY <2>1, <2>2
  <1>11. e[h] = 0
    <2>1. h \in h .. N
      BY <1>1
    <2> QED
      BY <2>1, <1>6, <1>8
  <1>12. Cuts(s2, h, e, all)
    <2>1. e \in [h .. Len(s2) -> 0 .. Len(all)] /\ e[Len(s2)] = Len(all)
      BY <1>4, <1>5, <1>8
    <2> QED
      BY <2>1, <1>5, <1>9, <1>10, <1>11 DEF Cuts
  <1> QED
    BY <1>12 DEF s2, all

(* stream is buffer and then left; tail is stream from the offset m on.      *)
Divided(stream, buffer, left) ==
    /\ buffer \in Seq(Bytes) /\ stream \in Seq(Bytes) /\ Len(buffer) <= Len(stream)
    /\ \A i \in 1 .. Len(buffer) : buffer[i] = stream[i]
    /\ left \in Seq(Bytes) /\ Len(left) = Len(stream) - Len(buffer)
    /\ \A i \in 1 .. Len(stream) - Len(buffer) : left[i] = stream[Len(buffer) + i]
From(stream, m, tail) ==
    /\ tail \in Seq(Bytes) /\ Len(tail) = Len(stream) - m
    /\ \A i \in 1 .. Len(tail) : tail[i] = stream[m + i]

(* Frames that were cut off leave the others as they were.                   *)
LEMMA CutsRest ==
  ASSUME NEW s \in Seq(Whole), NEW h \in 0 .. Len(s), NEW c, NEW stream \in Seq(Bytes),
         Cuts(s, h, c, stream), NEW k \in h .. Len(s), NEW tail,
         From(stream, c[k], tail)
  PROVE  \E e : Cuts(s, k, e, tail)
  <1> DEFINE N == Len(s)
             M == Len(stream)
             e == [i \in k .. N |-> c[i] - c[k]]
  <1>1. N \in Nat /\ M \in Nat /\ h \in Nat /\ k \in Nat /\ h <= k /\ k <= N
    OBVIOUS
  <1>2. /\ \A i \in h .. N : c[i] \in Nat /\ c[i] <= M
        /\ c[N] = M
        /\ \A i, j \in h .. N : i <= j => c[i] <= c[j]
    <2>1. c \in [h .. N -> 0 .. M] /\ c[N] = M
      BY DEF Cuts
    <2>2. \A i \in h .. N : c[i] \in 0 .. M
      BY <2>1
    <2>3. \A i, j \in h .. N : i <= j => c[i] <= c[j]
      BY DEF Cuts
    <2> HIDE DEF N, M
    <2> QED
      BY <2>1, <2>2, <2>3, <1>1
  <1>3. \A j \in h + 1 .. N : c[j] = c[j - 1] + 2 + Len(s[j]) /\ FrameAt(stream, c[j - 1], s[j])
    BY DEF Cuts
  <1>4. Len(tail) = M - c[k] /\ \A i \in 1 .. Len(tail) : tail[i] = stream[c[k] + i]
    BY DEF From
  <1>5. \A i \in 1 .. N : Len(s[i]) \in Nat
    <2>1. \A i \in 1 .. N : s[i] \in Whole
      OBVIOUS
    <2> QED
      BY <2>1, SeqOfIs, CodecSizes DEF Whole
  <1> HIDE DEF N, M
  <1>6. \A i \in k .. N : i \in h .. N /\ c[i] \in Nat /\ c[k] <= c[i] /\ c[i] <= M
    <2>1. \A i \in k .. N : i \in h .. N /\ k \in h .. N /\ k <= i
      BY <1>1
    <2> QED
      BY <2>1, <1>2
  <1>7. c[k] \in Nat /\ c[k] <= M
    BY <1>1, <1>6
  <1>8. /\ \A i \in k .. N : e[i] = c[i] - c[k]
        /\ e \in [k .. N -> 0 .. Len(tail)]
    BY <1>1, <1>4, <1>6, <1>7
  <1> HIDE DEF e
  <1>9. \A i, j \in k .. N : i <= j => e[i] <= e[j]
    <2>1. ASSUME NEW i \in k .. N, NEW j \in k .. N, i <= j PROVE e[i] <= e[j]
      <3>1. c[i] <= c[j]
        BY <1>2, <1>6, <2>1
      <3> QED
        BY <3>1, <1>6, <1>7, <1>8
    <2> QED
      BY <2>1
  <1>10. ASSUME NEW j \in k + 1 .. N
         PROVE  e[j] = e[j - 1] + 2 + Len(s[j]) /\ FrameAt(tail, e[j - 1], s[j])
    <2>1. /\ j \in h + 1 .. N /\ j \in k .. N /\ j - 1 \in k .. N /\ j \in 1 .. N
      BY <1>1
    <2> DEFINE o == c[j - 1]
               d == s[j]
               q == c[k]
    <2>2. /\ o \in Nat /\ q \in Nat /\ q <= o /\ Len(d) \in Nat /\ Len(tail) = M - q
          /\ c[j] = o + 2 + Len(d) /\ FrameAt(stream, o, d)
      BY <2>1, <1>3, <1>4, <1>5, <1>6, <1>7
    <2>3. e[j] = c[j] - q /\ e[j - 1] = o - q
      BY <2>1, <1>8
    <2>4. o + 2 + Len(d) <= M
      BY <2>2 DEF FrameAt, M
    <2>5. \A i \in 1 .. Len(tail) : tail[i] = stream[q + i]
      BY <1>4
    <2> HIDE DEF o, d, q
    <2>6. FrameAt(tail, o - q, d)
      <3>1. (o - q) + 2 + Len(d) <= Len(tail)
        BY <1>1, <2>2, <2>4
      <3>2. /\ (o - q) + 1 \in 1 .. Len(tail) /\ q + ((o - q) + 1) = o + 1
            /\ (o - q) + 2 \in 1 .. Len(tail) /\ q + ((o - q) + 2) = o + 2
        BY <1>1, <2>2, <2>4
      <3>3. tail[(o - q) + 1] = Len(d) % Base /\ tail[(o - q) + 2] = Len(d) \div Base
        BY <2>2, <2>5, <3>2 DEF FrameAt
      <3>4. ASSUME NEW i \in 1 .. Len(d) PROVE tail[(o - q) + 2 + i] = d[i]
        <4>1. (o - q) + 2 + i \in 1 .. Len(tail) /\ q + ((o - q) + 2 + i) = o + 2 + i
          BY <1>1, <2>2, <2>4
        <4> QED
          BY <4>1, <2>2, <2>5 DEF FrameAt
      <3> QED
        BY <3>1, <3>3, <3>4 DEF FrameAt
    <2>7. c[j] - q = (o - q) + 2 + Len(d)
      BY <2>2
    <2> QED
      BY <2>3, <2>6, <2>7 DEF d
  <1>11. e[k] = 0 /\ e[N] = Len(tail)
    <2>1. k \in k .. N /\ N \in k .. N
      BY <1>1
    <2> QED
      BY <2>1, <1>2, <1>4, <1>7, <1>8
  <1>12. Cuts(s, k, e, tail)
    BY <1>8, <1>9, <1>10, <1>11 DEF Cuts, N
  <1> QED
    BY <1>12

(* A chunk and what is left of the stream after it. *)
LEMMA ChunkIs ==
  ASSUME NEW kept \in Seq(Bytes), NEW sea \in Seq(Bytes), NEW n \in 0 .. Len(sea),
         NEW buffer, buffer = kept \o SubSeq(sea, 1, n),
         NEW stream, stream = kept \o sea
  PROVE  Divided(stream, buffer, SubSeq(sea, n + 1, Len(sea)))
  <1> DEFINE K == Len(kept)
             W == Len(sea)
             chunk == SubSeq(sea, 1, n)
             left == SubSeq(sea, n + 1, W)
  <1>1. K \in Nat /\ W \in Nat /\ n \in Nat /\ n <= W
    OBVIOUS
  <1>2. chunk \in Seq(Bytes) /\ Len(chunk) = n /\ \A i \in 1 .. n : chunk[i] = sea[i]
    OBVIOUS
  <1>3. left \in Seq(Bytes) /\ Len(left) = W - n /\ \A i \in 1 .. W - n : left[i] = sea[n + i]
    OBVIOUS
  <1>4. /\ stream \in Seq(Bytes) /\ Len(stream) = K + W
        /\ \A i \in 1 .. K + W : stream[i] = IF i <= K THEN kept[i] ELSE sea[i - K]
    BY ConcatProperties
  <1> HIDE DEF chunk
  <1>5. /\ buffer \in Seq(Bytes) /\ Len(buffer) = K + n
        /\ \A i \in 1 .. K + n : buffer[i] = IF i <= K THEN kept[i] ELSE chunk[i - K]
    <2>1. buffer = kept \o chunk
      BY DEF chunk
    <2>2. /\ kept \o chunk \in Seq(Bytes) /\ Len(kept \o chunk) = K + Len(chunk)
          /\ \A i \in 1 .. K + Len(chunk) : (kept \o chunk)[i] =
                 IF i <= K THEN kept[i] ELSE chunk[i - K]
      BY <1>2, ConcatProperties
    <2>3. Len(chunk) = n
      BY <1>2
    <2> QED
      BY <2>1, <2>2, <2>3
  <1> HIDE DEF K, W, left
  <1>6. ASSUME NEW i \in 1 .. K + n PROVE buffer[i] = stream[i]
    <2>1. i \in 1 .. K + W
      BY <1>1
    <2>2. CASE i <= K
      BY <2>1, <2>2, <1>4, <1>5
    <2>3. CASE ~ (i <= K)
      <3>1. i - K \in 1 .. n
        BY <1>1, <2>3
      <3> QED
        BY <2>1, <2>3, <3>1, <1>2, <1>4, <1>5
    <2> QED
      BY <2>2, <2>3
  <1>7. ASSUME NEW i \in 1 .. W - n PROVE left[i] = stream[K + n + i]
    <2>1. K + n + i \in 1 .. K + W /\ ~ (K + n + i <= K) /\ (K + n + i) - K = n + i
      BY <1>1
    <2> QED
      BY <2>1, <1>3, <1>4
  <1>8. Len(stream) - Len(buffer) = W - n /\ Len(buffer) <= Len(stream)
    <2>1. Len(stream) = K + W
      BY <1>4
    <2>2. Len(buffer) = K + n
      BY <1>5
    <2>3. (K + W) - (K + n) = W - n /\ K + n <= K + W
      BY <1>1
    <2> QED
      BY <2>1, <2>2, <2>3
  <1> QED
    <2>1. Divided(stream, buffer, left)
      <3>1. Len(buffer) = K + n
        BY <1>5
      <3> QED
        BY <1>3, <1>4, <1>5, <1>6, <1>7, <1>8, <3>1 DEF Divided
    <2> QED
      BY <2>1 DEF left, W

(* What is left of the stream when the frames up to the offset m are cut off. *)
LEMMA LeftIs ==
  ASSUME NEW stream, NEW buffer, NEW left, Divided(stream, buffer, left),
         NEW m \in 0 .. Len(buffer),
         NEW tail, tail = SubSeq(buffer, m + 1, Len(buffer)) \o left
  PROVE  From(stream, m, tail)
  <1> DEFINE L == Len(buffer)
             M == Len(stream)
             rest == SubSeq(buffer, m + 1, L)
  <1>1. L \in Nat /\ M \in Nat /\ m \in Nat /\ m <= L /\ L <= M /\ buffer \in Seq(Bytes)
    BY DEF Divided
  <1>2. rest \in Seq(Bytes) /\ Len(rest) = L - m /\ \A i \in 1 .. L - m : rest[i] = buffer[m + i]
    BY <1>1
  <1> HIDE DEF rest
  <1>3. /\ tail \in Seq(Bytes) /\ Len(tail) = (L - m) + (M - L)
        /\ \A i \in 1 .. (L - m) + (M - L) :
               tail[i] = IF i <= L - m THEN rest[i] ELSE left[i - (L - m)]
    <2>1. tail = rest \o left
      BY DEF rest
    <2>2. /\ rest \o left \in Seq(Bytes) /\ Len(rest \o left) = Len(rest) + Len(left)
          /\ \A i \in 1 .. Len(rest) + Len(left) : (rest \o left)[i] =
                 IF i <= Len(rest) THEN rest[i] ELSE left[i - Len(rest)]
      BY <1>2, ConcatProperties, ZenonT(30) DEF Divided
    <2>3. Len(rest) = L - m /\ Len(left) = M - L
      BY <1>2 DEF Divided
    <2> QED
      BY <2>1, <2>2, <2>3
  <1>4. /\ \A i \in 1 .. L : buffer[i] = stream[i]
        /\ \A i \in 1 .. M - L : left[i] = stream[L + i]
    BY DEF Divided
  <1> HIDE DEF L, M
  <1>5. Len(tail) = M - m
    <2>1. Len(tail) = (L - m) + (M - L)
      BY <1>3
    <2>2. (L - m) + (M - L) = M - m
      BY <1>1
    <2> QED
      BY <2>1, <2>2
  <1>6. ASSUME NEW i \in 1 .. M - m PROVE tail[i] = stream[m + i]
    <2>1. i \in 1 .. (L - m) + (M - L)
      BY <1>1
    <2>2. CASE i <= L - m
      <3>1. i \in 1 .. L - m /\ m + i \in 1 .. L
        BY <1>1, <2>2
      <3> QED
        BY <2>1, <2>2, <3>1, <1>2, <1>3, <1>4
    <2>3. CASE ~ (i <= L - m)
      <3>1. i - (L - m) \in 1 .. M - L /\ L + (i - (L - m)) = m + i
        BY <1>1, <2>3
      <3> QED
        BY <2>1, <2>3, <3>1, <1>3, <1>4
    <2> QED
      BY <2>2, <2>3
  <1> QED
    BY <1>3, <1>5, <1>6 DEF M, From

-----------------------------------------------------------------------------
(* The steps *)

LEMMA WriteKeeps ==
  ASSUME CodecProofInv, NEW data \in Payloads, WriteFrame(data)
  PROVE  CodecProofInv'
  <1>1. CodecTypeOK /\ NoFrame(builder) /\ (AllFit => AllAccounted)
    BY DEF CodecProofInv
  <1>2. /\ sent' = Append(sent, data) /\ wire' = wire \o Encode(data)
        /\ builder' = builder /\ handed' = handed /\ failed' = failed
    BY DEF WriteFrame
  <1>3. /\ sent \in Seq(Payloads) /\ wire \in Seq(Bytes) /\ builder \in Seq(Bytes)
        /\ handed \in Seq(Whole) /\ failed \in BOOLEAN
    BY <1>1 DEF CodecTypeOK, Whole
  <1>4. data \in Seq(Bytes) /\ Len(data) <= MaxLength + 1 /\ MaxLength \in Nat
    <2>1. MaxLength \in Nat /\ MaxLength + 1 \in Nat
      BY CodecSizes
    <2> QED
      BY <2>1, SeqOfIs DEF Payloads
  <1>5. Encode(data) \in Seq(Bytes)
    BY <1>4, EncodeIs
  <1>6. CodecTypeOK'
    <2>1. sent' \in Seq(Payloads)
      BY <1>2, <1>3
    <2>2. wire' \in Seq(Bytes)
      BY <1>2, <1>3, <1>5, ConcatProperties
    <2> QED
      BY <1>2, <1>3, <2>1, <2>2 DEF CodecTypeOK, Whole
  <1>7. NoFrame(builder)'
    BY <1>1, <1>2 DEF NoFrame, LengthAt
  <1>8. ASSUME AllFit' PROVE AllAccounted'
    <2>1. /\ \A i \in 1 .. Len(sent) : i \in 1 .. Len(sent') /\ sent'[i] = sent[i]
          /\ Len(sent') = Len(sent) + 1 /\ sent'[Len(sent) + 1] = data
          /\ DOMAIN sent' = 1 .. Len(sent') /\ DOMAIN sent = 1 .. Len(sent)
          /\ Len(sent) \in Nat
      BY <1>2, <1>3
    <2>2. AllFit /\ Fits(data)
      <3>1. \A i \in 1 .. Len(sent') : Fits(sent'[i])
        BY <1>8, <2>1 DEF AllFit
      <3>2. Len(sent) + 1 \in 1 .. Len(sent')
        BY <2>1
      <3> QED
        BY <2>1, <3>1, <3>2 DEF AllFit
    <2>3. data \in Whole
      BY <1>4, <2>2, SeqOfIs DEF Fits, Whole
    <2>4. sent \in Seq(Whole)
      BY <1>1, <2>2, FitsIs
    <2>5. ~failed /\ \E h \in 0 .. Len(sent) :
              handed = SubSeq(sent, 1, h) /\ \E c : Cuts(sent, h, c, builder \o wire)
      BY <1>1, <2>2 DEF AllAccounted
    <2>6. PICK h \in 0 .. Len(sent) :
              handed = SubSeq(sent, 1, h) /\ \E c : Cuts(sent, h, c, builder \o wire)
      BY <2>5
    <2>7. PICK c : Cuts(sent, h, c, builder \o wire)
      BY <2>6
    <2>8. builder \o wire \in Seq(Bytes)
      BY <1>3, ConcatProperties
    <2>9. PICK e : Cuts(Append(sent, data), h, e, (builder \o wire) \o Encode(data))
      <3> DEFINE stream == builder \o wire
      <3>1. stream \in Seq(Bytes) /\ Cuts(sent, h, c, stream)
        BY <2>7, <2>8
      <3> HIDE DEF stream
      <3>2. \E e : Cuts(Append(sent, data), h, e, stream \o Encode(data))
        BY <2>3, <2>4, <3>1, CutsAppend
      <3> QED
        BY <3>2 DEF stream
    <2>10. (builder \o wire) \o Encode(data) = builder' \o wire'
      <3>1. (builder \o wire) \o Encode(data) = builder \o (wire \o Encode(data))
        BY <1>3, <1>5, ConcatAssociative
      <3> QED
        BY <3>1, <1>2
    <2>11. Cuts(sent', h, e, builder' \o wire')
      BY <2>9, <2>10, <1>2
    <2>12. handed' = SubSeq(sent', 1, h) /\ h \in 0 .. Len(sent')
      <3>1. SubSeq(Append(sent, data), 1, h) = SubSeq(sent, 1, h)
        BY <1>3
      <3> QED
        BY <1>2, <2>1, <2>6, <3>1
    <2> QED
      BY <1>2, <2>5, <2>11, <2>12 DEF AllAccounted
  <1> QED
    BY <1>6, <1>7, <1>8 DEF CodecProofInv

LEMMA ReadKeeps ==
  ASSUME CodecProofInv, NEW n \in Nat, ReadChunk(n)
  PROVE  CodecProofInv'
  <1> DEFINE buffer == builder \o SubSeq(wire, 1, n)
             stream == builder \o wire
             left == SubSeq(wire, n + 1, Len(wire))
             r == Turns(buffer)[0]
  <1>1. CodecTypeOK /\ NoFrame(builder) /\ (AllFit => AllAccounted)
    BY DEF CodecProofInv
  <1>2. /\ sent \in Seq(Payloads) /\ wire \in Seq(Bytes) /\ builder \in Seq(Bytes)
        /\ handed \in Seq(Whole) /\ failed \in BOOLEAN
    BY <1>1 DEF CodecTypeOK, Whole
  <1>3. n \in 0 .. Len(wire)
    BY <1>2 DEF ReadChunk
  <1>4. Divided(stream, buffer, left)
    BY <1>2, <1>3, ChunkIs
  <1>5. /\ builder' = r.rest /\ handed' = (IF r.throws THEN handed ELSE handed \o r.frames)
        /\ failed' = (failed \/ r.throws) /\ wire' = left /\ sent' = sent
    BY LoopIs DEF ReadChunk, Decode
  <1> HIDE DEF buffer, stream, left
  <1>6. /\ buffer \in Seq(Bytes) /\ stream \in Seq(Bytes) /\ left \in Seq(Bytes)
        /\ Len(buffer) <= Len(stream) /\ \A i \in 1 .. Len(buffer) : buffer[i] = stream[i]
    BY <1>4 DEF Divided
  <1>61. r \in Pieces
    <2>1. 0 \in 0 .. Len(buffer)
      BY <1>6
    <2> QED
      BY <1>6, <2>1, LoopTypes
  <1> HIDE DEF r
  <1>7. r.frames \in Seq(Whole) /\ r.throws \in BOOLEAN /\ r.rest \in Seq(Bytes) /\ NoFrame(r.rest)
    BY <1>61 DEF Pieces
  <1>8. CodecTypeOK'
    <2>1. handed \o r.frames \in Seq(Whole)
      BY <1>2, <1>7, ConcatProperties
    <2>2. handed' \in Seq(Whole)
      BY <1>2, <1>5, <2>1
    <2>3. failed' \in BOOLEAN
      BY <1>5
    <2> QED
      BY <1>2, <1>5, <1>6, <1>7, <2>2, <2>3 DEF CodecTypeOK, Whole
  <1>9. NoFrame(builder)'
    <2>1. NoFrame(builder')
      BY <1>5, <1>7
    <2> QED
      BY <2>1 DEF NoFrame, LengthAt
  <1>10. ASSUME AllFit' PROVE AllAccounted'
    <2>1. AllFit
      BY <1>5, <1>10 DEF AllFit
    <2>2. sent \in Seq(Whole) /\ ~failed
      BY <1>1, <2>1, FitsIs DEF AllAccounted
    <2>3. PICK h \in 0 .. Len(sent) : handed = SubSeq(sent, 1, h) /\ \E c : Cuts(sent, h, c, stream)
      BY <1>1, <2>1 DEF AllAccounted, stream
    <2>4. PICK c : Cuts(sent, h, c, stream)
      BY <2>3
    <2>5. PICK k \in h .. Len(sent) : GivesTo(sent, h, k, c, buffer)
      BY <1>6, <2>2, <2>4, LoopGives
    <2>6. c[h] = 0 /\ c[k] \in 0 .. Len(buffer)
      <3>1. c[h] = 0 /\ c \in [h .. Len(sent) -> 0 .. Len(stream)]
        BY <2>4 DEF Cuts
      <3>2. c[k] \in 0 .. Len(stream) /\ c[k] <= Len(buffer)
        BY <2>5, <3>1 DEF GivesTo
      <3> QED
        BY <1>6, <3>1, <3>2
    <2>7. r = [frames |-> SubSeq(sent, h + 1, k), throws |-> FALSE,
               rest |-> SubSeq(buffer, c[k] + 1, Len(buffer))]
      BY <2>5, <2>6 DEF GivesTo, r
    <2>8. /\ r.frames = SubSeq(sent, h + 1, k) /\ r.throws = FALSE
          /\ r.rest = SubSeq(buffer, c[k] + 1, Len(buffer))
      BY <2>7
    <2>9. ~failed'
      BY <1>5, <2>2, <2>8
    <2>10. handed' = SubSeq(sent, 1, k)
      <3>1. handed' = SubSeq(sent, 1, h) \o SubSeq(sent, h + 1, k)
        BY <1>5, <2>3, <2>8
      <3>2. h \in Nat /\ k \in Nat /\ h <= k /\ k <= Len(sent) /\ Len(sent) \in Nat
        BY <2>2
      <3>3. SubSeq(sent, 1, h) \o SubSeq(sent, h + 1, k) = SubSeq(sent, 1, k)
        <4> DEFINE a == SubSeq(sent, 1, h)
                   b == SubSeq(sent, h + 1, k)
                   t == SubSeq(sent, 1, k)
        <4>1. a \in Seq(Whole) /\ Len(a) = h /\ \A i \in 1 .. h : a[i] = sent[i]
          BY <2>2, <3>2
        <4>2. b \in Seq(Whole) /\ Len(b) = k - h /\ \A i \in 1 .. k - h : b[i] = sent[h + i]
          BY <2>2, <3>2
        <4>3. t \in Seq(Whole) /\ Len(t) = k /\ \A i \in 1 .. k : t[i] = sent[i]
          BY <2>2, <3>2
        <4> HIDE DEF a, b, t
        <4>4. /\ a \o b \in Seq(Whole) /\ Len(a \o b) = Len(a) + Len(b)
              /\ \A i \in 1 .. Len(a) + Len(b) :
                     (a \o b)[i] = IF i <= Len(a) THEN a[i] ELSE b[i - Len(a)]
          BY <4>1, <4>2, ConcatProperties
        <4>5. Len(a) = h /\ Len(b) = k - h /\ Len(a) + Len(b) = k
          BY <3>2, <4>1, <4>2
        <4> DEFINE q == a \o b
        <4>6. /\ q \in Seq(Whole) /\ Len(q) = k
              /\ \A i \in 1 .. k : q[i] = IF i <= h THEN a[i] ELSE b[i - h]
          BY <4>4, <4>5
        <4> HIDE DEF q
        <4>7. ASSUME NEW i \in 1 .. k PROVE q[i] = t[i]
          <5>1. CASE i <= h
            <6>1. i \in 1 .. h
              BY <5>1
            <6> QED
              BY <5>1, <6>1, <4>1, <4>3, <4>6
          <5>2. CASE ~ (i <= h)
            <6>1. i - h \in 1 .. k - h /\ h + (i - h) = i
              BY <3>2, <5>2
            <6> QED
              BY <5>2, <6>1, <4>2, <4>3, <4>6
          <5> QED
            BY <5>1, <5>2
        <4>8. q = t
          BY <4>3, <4>6, <4>7
        <4> QED
          BY <4>8 DEF q, a, b, t
      <3> QED
        BY <3>1, <3>3
    <2> DEFINE tail == SubSeq(buffer, c[k] + 1, Len(buffer)) \o left
    <2>11. tail = builder' \o wire'
      BY <1>5, <2>8
    <2>12. From(stream, c[k], tail)
      BY <1>4, <2>6, LeftIs
    <2> HIDE DEF tail
    <2>13. \E e : Cuts(sent, k, e, tail)
      BY <1>6, <2>2, <2>4, <2>12, CutsRest
    <2>14. k \in 0 .. Len(sent') /\ handed' = SubSeq(sent', 1, k)
      <3>1. k \in 0 .. Len(sent)
        BY <2>2
      <3> QED
        BY <1>5, <2>10, <3>1
    <2>15. \E e : Cuts(sent', k, e, builder' \o wire')
      BY <1>5, <2>11, <2>13
    <2> QED
      BY <2>9, <2>14, <2>15 DEF AllAccounted
  <1> QED
    BY <1>8, <1>9, <1>10 DEF CodecProofInv

LEMMA CodecSteps ==
  ASSUME CodecProofInv, [CodecNext]_codecVars
  PROVE  CodecProofInv'
  <1>1. CASE UNCHANGED codecVars
    BY <1>1 DEF CodecProofInv, CodecTypeOK, NoFrame, LengthAt, AllFit, AllAccounted, codecVars
  <1>2. CASE \E data \in Payloads : WriteFrame(data)
    BY <1>2, WriteKeeps
  <1>3. CASE \E n \in 1 .. MaxFrames * (HeaderLength + MaxLength + 1) : ReadChunk(n)
    BY <1>3, ReadKeeps
  <1> QED
    BY <1>1, <1>2, <1>3 DEF CodecNext

(* With nothing on its way there is no frame left: the decoder would have    *)
(* found it in the bytes it keeps.                                           *)
LEMMA CodecFollows ==
  ASSUME CodecProofInv
  PROVE  CodecInv
  <1>1. CodecTypeOK /\ NoFrame(builder) /\ (AllFit => AllAccounted)
    BY DEF CodecProofInv
  <1>2. builder \in Seq(Bytes) /\ wire \in Seq(Bytes)
    BY <1>1 DEF CodecTypeOK
  <1>3. MaxLength \in Nat /\ Len(builder) \in Nat
    BY <1>2, CodecSizes
  <1>4. KeepsLittle
    <2>1. CASE Len(builder) < HeaderLength
      BY <1>3, <2>1 DEF KeepsLittle, HeaderLength
    <2>2. CASE ~ (Len(builder) < HeaderLength)
      <3>1. LengthAt(builder, 0) \in Nat
        BY <1>2, <1>3, <2>2, LengthIs DEF HeaderLength
      <3> QED
        BY <1>1, <1>3, <2>2, <3>1 DEF NoFrame, KeepsLittle, HeaderLength
    <2> QED
      BY <2>1, <2>2
  <1>5. ASSUME AllFit PROVE ~failed /\ IsPrefix(handed, sent) /\ (wire = <<>> => handed = sent)
    <2>1. sent \in Seq(Whole) /\ ~failed /\ Len(sent) \in Nat
      BY <1>1, <1>5, FitsIs DEF AllAccounted
    <2>2. PICK h \in 0 .. Len(sent) :
              handed = SubSeq(sent, 1, h) /\ \E c : Cuts(sent, h, c, builder \o wire)
      BY <1>1, <1>5 DEF AllAccounted
    <2>3. PICK c : Cuts(sent, h, c, builder \o wire)
      BY <2>2
    <2>4. handed \in Seq(Whole) /\ Len(handed) = h /\ \A i \in 1 .. h : handed[i] = sent[i]
      BY <2>1, <2>2
    <2>5. IsPrefix(handed, sent)
      <3>1. SubSeq(handed, 1, h) = handed
        BY <2>4, SubSeqFull
      <3> QED
        BY <2>2, <2>4, <3>1 DEF IsPrefix
    <2>6. ASSUME wire = <<>> PROVE handed = sent
      <3>1. builder \o wire = builder
        BY <1>2, <2>6, ConcatEmptySeq
      <3>2. CASE h = Len(sent)
        BY <2>1, <2>2, <3>2, SubSeqFull
      <3>3. CASE h # Len(sent)
        <4> DEFINE data == sent[h + 1]
        <4>1. h + 1 \in h + 1 .. Len(sent) /\ (h + 1) - 1 = h /\ h + 1 \in 1 .. Len(sent)
          BY <2>1, <3>3
        <4>2. c[h] = 0 /\ FrameAt(builder, c[(h + 1) - 1], data)
          BY <2>3, <3>1, <4>1 DEF Cuts
        <4>3. FrameAt(builder, 0, data) /\ data \in Whole
          BY <2>1, <4>1, <4>2
        <4> HIDE DEF data
        <4>4. Len(data) \in Nat
          BY <4>3, SeqOfIs, CodecSizes DEF Whole
        <4>5. 0 + 2 + Len(data) <= Len(builder)
          BY <4>3 DEF FrameAt
        <4>6. LengthAt(builder, 0) = Len(data)
          <5>1. 0 \in Nat /\ 0 + 2 <= Len(builder)
            BY <1>3, <4>4, <4>5
          <5> QED
            BY <1>2, <4>3, <5>1, FrameLength
        <4> QED
          BY <1>1, <1>3, <4>4, <4>5, <4>6 DEF NoFrame, HeaderLength
      <3> QED
        BY <3>2, <3>3
    <2> QED
      BY <2>1, <2>5, <2>6
  <1>6. FramesWhole
    BY <1>5 DEF FramesWhole, AllFit
  <1> QED
    BY <1>1, <1>4, <1>6 DEF CodecInv

(* However the socket cuts the stream, the decoder hands the frames out      *)
(* whole and in order, all of them once the bytes are there, as long as none *)
(* is too large, and it never keeps more than one frame.                     *)
THEOREM CodecInvHolds == CodecSpec => []CodecInv
  <1>1. CodecInit => CodecProofInv
    BY CodecInits
  <1>2. CodecProofInv /\ [CodecNext]_codecVars => CodecProofInv'
    BY CodecSteps
  <1>3. CodecProofInv => CodecInv
    BY CodecFollows
  <1> QED
    BY <1>1, <1>2, <1>3, PTL DEF CodecSpec
============================================================================
