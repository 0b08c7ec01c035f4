--------------------------- MODULE DesktopProofs ---------------------------
(* Proofs about DesktopCore, for any number of restarts, of calls and of     *)
(* cores, on every platform.                                                 *)
EXTENDS DesktopCore, TLAPS

Active == Running \cup {"queued"}

(* The type invariant in parts. *)
ChainTypes ==
    /\ last \in Restarts \cup {None}
    /\ prev \in [Restarts -> Restarts \cup {None}]
    /\ pc \in [Restarts -> Running \cup {"idle", "queued", "done"}]
SocketTypes ==
    /\ waits \in {"pending", "woken", "stale"}
    /\ sc \in Cores \cup {None}
    /\ server \in {"unbound", "open", "closed", "failed"}
    /\ gen \in Nat /\ backlog \in Seq(Cores)
    /\ hand \in [0 .. MaxCores -> Cores \cup {None}]
    /\ link \in [Cores -> {"new", "backlog", "hand", "open", "shut", "refused"}]
CoreTypes ==
    /\ process \in Cores \cup {None} /\ child \in Cores \cup {None}
    /\ born \in 0 .. MaxCores /\ up \subseteq Cores /\ dying \subseteq Cores
    /\ addr \in [Cores -> Nat] /\ crashed \in Nat
    /\ exit \in {"no", "closing", "down", "gone"}
FlagTypes == failed \in BOOLEAN /\ helper \in Helpers
CallTypes ==
    /\ call \in [Calls -> {"idle", "waiting", "stale", "sent",
                           "answer", "default", "error"}]
    /\ to \in [Calls -> Cores \cup {None}] /\ ran \subseteq Calls
    /\ \A k \in Calls : call[k] = "waiting" => sc = None

(* The restarts that have not returned stand in a queue, in which each waits *)
(* for the one before it, and _restartCompleter is that of the last.         *)
QueueIs(lo, hi, q) ==
    /\ \A i \in lo .. hi - 1 : q[i] \in Restarts /\ pc[q[i]] \in Active
    /\ \A i, j \in lo .. hi - 1 : q[i] = q[j] => i = j
    /\ \A r \in Restarts : pc[r] \in Active => \E i \in lo .. hi - 1 : q[i] = r
    /\ \A i \in lo + 1 .. hi - 1 : prev[q[i]] = q[i - 1]
    /\ last = IF lo = hi THEN None ELSE q[hi - 1]

Chain == \E lo, hi \in Nat : lo <= hi /\
            \E q \in [Nat -> Restarts \cup {None}] : QueueIs(lo, hi, q)

(* A restart is at work once the one that it waited for has returned. *)
Waited == \A r \in Restarts :
             pc[r] \in Running => prev[r] = None \/ pc[prev[r]] = "done"

(* Each new listening socket has cost a core that did not connect. *)
GenOK == gen <= born /\ \A r \in Restarts : pc[r] \in {"ready1", "rebind"} => gen < born

(* What ends in an error was never written to a core. *)
RanOK == \A k \in Calls : call[k] \in {"idle", "waiting", "stale", "error"} => k \notin ran

Types == ChainTypes /\ SocketTypes /\ CoreTypes /\ FlagTypes /\ CallTypes
ChainInv == ChainTypes /\ Chain /\ Waited
DeskInv == Types /\ Chain /\ Waited /\ GenOK /\ RanOK

-----------------------------------------------------------------------------
(* The chain of restarts: all that a step can do to it. *)
Advances(r, p) ==
    /\ pc[r] \in Active
    /\ pc[r] = "queued" /\ prev[r] # None => pc[prev[r]] = "done"
    /\ Go(r, p) /\ UNCHANGED <<last, prev>>
Returns(r) == pc[r] \in Running /\ Finish(r) /\ UNCHANGED prev
Queues(r) ==
    /\ pc[r] = "idle" /\ pc' = [pc EXCEPT ![r] = "queued"]
    /\ prev' = [prev EXCEPT ![r] = last] /\ last' = r
Forgets ==
    /\ last' = None /\ prev' = [r \in Restarts |-> None]
    /\ pc' = [r \in Restarts |-> "idle"]

LEMMA OneAtWork ==
  ASSUME ChainInv
  PROVE  OneRestart
  <1> SUFFICES ASSUME NEW r \in Restarts, NEW s \in Restarts,
                      pc[r] \in Running, pc[s] \in Running
               PROVE  r = s
    BY DEF OneRestart
  <1>1. PICK lo \in Nat, hi \in Nat : lo <= hi
               /\ \E q \in [Nat -> Restarts \cup {None}] : QueueIs(lo, hi, q)
    BY DEF ChainInv, Chain
  <1>2. PICK q \in [Nat -> Restarts \cup {None}] : QueueIs(lo, hi, q)
    BY <1>1
  <1>3. ASSUME NEW i \in lo .. hi - 1, pc[q[i]] \in Running
        PROVE  i = lo
    <2>1. SUFFICES ASSUME i # lo PROVE FALSE
      OBVIOUS
    <2>2. i \in lo + 1 .. hi - 1 /\ i - 1 \in lo .. hi - 1
      BY <2>1
    <2>3. q[i] \in Restarts /\ prev[q[i]] = q[i - 1]
          /\ q[i - 1] \in Restarts /\ pc[q[i - 1]] \in Active
      BY <1>2, <2>2 DEF QueueIs
    <2> QED BY <1>3, <2>3, DesktopAssumption DEF ChainInv, Waited, Active, Running
  <1>4. PICK i \in lo .. hi - 1 : q[i] = r
    BY <1>2 DEF QueueIs, Active
  <1>5. PICK j \in lo .. hi - 1 : q[j] = s
    BY <1>2 DEF QueueIs, Active
  <1> QED BY <1>3, <1>4, <1>5

LEMMA AdvanceKeeps ==
  ASSUME ChainInv, NEW r \in Restarts, NEW p \in Running, Advances(r, p)
  PROVE  ChainInv'
  <1>1. ChainTypes'
    BY DEF ChainInv, ChainTypes, Advances, Go
  <1>2. \A s \in Restarts : pc'[s] = IF s = r THEN p ELSE pc[s]
    BY DEF ChainInv, ChainTypes, Advances, Go
  <1>3. Waited'
    BY <1>2 DEF ChainInv, ChainTypes, Waited, Advances, Running, Active
  <1>4. PICK lo \in Nat, hi \in Nat : lo <= hi
               /\ \E q \in [Nat -> Restarts \cup {None}] : QueueIs(lo, hi, q)
    BY DEF ChainInv, Chain
  <1>5. PICK q \in [Nat -> Restarts \cup {None}] : QueueIs(lo, hi, q)
    BY <1>4
  <1>6. QueueIs(lo, hi, q)'
    BY <1>2, <1>5 DEF QueueIs, Advances, Active
  <1>7. Chain'
    BY <1>4, <1>6 DEF Chain
  <1> QED BY <1>1, <1>3, <1>7 DEF ChainInv

LEMMA ReturnKeeps ==
  ASSUME ChainInv, NEW r \in Restarts, Returns(r)
  PROVE  ChainInv'
  <1>1. ChainTypes'
    BY DEF ChainInv, ChainTypes, Returns, Finish, Go
  <1>2. \A s \in Restarts : pc'[s] = IF s = r THEN "done" ELSE pc[s]
    BY DEF ChainInv, ChainTypes, Returns, Finish, Go
  <1>3. Waited'
    BY <1>2 DEF ChainInv, ChainTypes, Waited, Returns, Running
  <1>4. PICK lo \in Nat, hi \in Nat : lo <= hi
               /\ \E q \in [Nat -> Restarts \cup {None}] : QueueIs(lo, hi, q)
    BY DEF ChainInv, Chain
  <1>5. PICK q \in [Nat -> Restarts \cup {None}] : QueueIs(lo, hi, q)
    BY <1>4
  <1>6. lo \in lo .. hi - 1 /\ q[lo] = r
    <2>1. PICK i \in lo .. hi - 1 : q[i] = r
      BY <1>5 DEF QueueIs, Returns, Active
    <2>2. ASSUME i # lo PROVE FALSE
      <3>1. i \in lo + 1 .. hi - 1 /\ i - 1 \in lo .. hi - 1
        BY <2>2
      <3>2. prev[r] = q[i - 1] /\ q[i - 1] \in Restarts /\ pc[q[i - 1]] \in Active
        BY <1>5, <2>1, <3>1 DEF QueueIs
      <3> QED BY <3>2, DesktopAssumption DEF ChainInv, Waited, Active, Running,
         Returns
    <2> QED BY <2>1, <2>2
  <1>7. QueueIs(lo + 1, hi, q)'
    <2>1. \A i \in lo + 1 .. hi - 1 : i \in lo .. hi - 1 /\ q[i] # r
      BY <1>5, <1>6 DEF QueueIs
    <2>2. \A i \in lo + 1 .. hi - 1 : q[i] \in Restarts /\ pc'[q[i]] \in Active
      BY <1>2, <1>5, <2>1 DEF QueueIs
    <2>3. \A i, j \in lo + 1 .. hi - 1 : q[i] = q[j] => i = j
      BY <1>5, <2>1 DEF QueueIs
    <2>4. ASSUME NEW s \in Restarts, pc'[s] \in Active
          PROVE  \E i \in lo + 1 .. hi - 1 : q[i] = s
      <3>1. s # r /\ pc[s] \in Active
        BY <1>2, <2>4 DEF Active, Running
      <3>2. PICK i \in lo .. hi - 1 : q[i] = s
        BY <1>5, <3>1 DEF QueueIs
      <3>3. i # lo
        BY <1>6, <3>1, <3>2
      <3> QED BY <3>2, <3>3
    <2>5. \A i \in lo + 2 .. hi - 1 : prev'[q[i]] = q[i - 1]
      BY <1>5 DEF QueueIs, Returns
    <2>6. last' = IF lo + 1 = hi THEN None ELSE q[hi - 1]
      <3>1. last = q[hi - 1] /\ hi - 1 \in lo .. hi - 1
        BY <1>5, <1>6 DEF QueueIs
      <3>2. last = r <=> hi - 1 = lo
        BY <1>5, <1>6, <3>1 DEF QueueIs
      <3> QED BY <3>1, <3>2 DEF Returns, Finish
    <2>7. lo + 1 + 1 = lo + 2
      OBVIOUS
    <2> QED BY <2>2, <2>3, <2>4, <2>5, <2>6, <2>7 DEF QueueIs
  <1>8. lo + 1 \in Nat /\ lo + 1 <= hi
    BY <1>6
  <1>9. Chain'
    BY <1>7, <1>8 DEF Chain
  <1> QED BY <1>1, <1>3, <1>9 DEF ChainInv

LEMMA QueueKeeps ==
  ASSUME ChainInv, NEW r \in Restarts, Queues(r)
  PROVE  ChainInv'
  <1>1. ChainTypes'
    BY DEF ChainInv, ChainTypes, Queues
  <1>2. \A s \in Restarts : pc'[s] = IF s = r THEN "queued" ELSE pc[s]
    BY DEF ChainInv, ChainTypes, Queues
  <1>3. \A s \in Restarts : prev'[s] = IF s = r THEN last ELSE prev[s]
    BY DEF ChainInv, ChainTypes, Queues
  <1>4. Waited'
    BY <1>2, <1>3 DEF ChainInv, ChainTypes, Waited, Queues, Running
  <1>5. PICK lo \in Nat, hi \in Nat : lo <= hi
               /\ \E q \in [Nat -> Restarts \cup {None}] : QueueIs(lo, hi, q)
    BY DEF ChainInv, Chain
  <1>6. PICK q \in [Nat -> Restarts \cup {None}] : QueueIs(lo, hi, q)
    BY <1>5
  <1> DEFINE p == [q EXCEPT ![hi] = r]
  <1>7. p \in [Nat -> Restarts \cup {None}] /\ p[hi] = r
        /\ \A i \in lo .. hi - 1 : p[i] = q[i] /\ q[i] # r
    BY <1>6 DEF QueueIs, Queues, Active, Running
  <1> HIDE DEF p
  <1>8. QueueIs(lo, hi + 1, p)'
    <2>1. \A i \in lo .. hi : i = hi \/ i \in lo .. hi - 1
      BY <1>5
    <2>2. \A i \in lo .. hi : p[i] \in Restarts /\ pc'[p[i]] \in Active
      BY <1>2, <1>6, <1>7, <2>1 DEF QueueIs, Active
    <2>3. \A i, j \in lo .. hi : p[i] = p[j] => i = j
      BY <1>6, <1>7, <2>1 DEF QueueIs
    <2>4. \A s \in Restarts : pc'[s] \in Active => \E i \in lo .. hi : p[i] = s
      <3> SUFFICES ASSUME NEW s \in Restarts, pc'[s] \in Active
                   PROVE  \E i \in lo .. hi : p[i] = s
        OBVIOUS
      <3>1. CASE s = r
        BY <1>5, <1>7, <3>1
      <3>2. CASE s # r
        <4>1. PICK i \in lo .. hi - 1 : q[i] = s
          BY <1>2, <1>6, <3>2 DEF QueueIs
        <4>2. i \in lo .. hi
          OBVIOUS
        <4> QED BY <1>7, <4>1, <4>2
      <3> QED BY <3>1, <3>2
    <2>5. ASSUME NEW i \in lo + 1 .. hi PROVE prev'[p[i]] = p[i - 1]
      <3>1. CASE i = hi
        BY <1>3, <1>6, <1>7, <3>1 DEF QueueIs
      <3>2. CASE i # hi
        <4>1. i \in lo + 1 .. hi - 1 /\ i - 1 \in lo .. hi - 1 /\ i \in lo .. hi - 1
          BY <3>2
        <4> QED BY <1>3, <1>6, <1>7, <4>1 DEF QueueIs
      <3> QED BY <3>1, <3>2
    <2>6. last' = IF lo = hi + 1 THEN None ELSE p[hi]
      BY <1>5, <1>7 DEF Queues
    <2>7. hi + 1 - 1 = hi
      OBVIOUS
    <2> QED BY <2>2, <2>3, <2>4, <2>5, <2>6, <2>7 DEF QueueIs
  <1>9. Chain'
    <2>1. hi + 1 \in Nat /\ lo <= hi + 1
      BY <1>5
    <2> QED BY <1>7, <1>8, <2>1 DEF Chain
  <1> QED BY <1>1, <1>4, <1>9 DEF ChainInv

LEMMA ForgetKeeps ==
  ASSUME ChainInv, Forgets
  PROVE  ChainInv'
  <1>1. ChainTypes' /\ Waited'
    BY DEF ChainTypes, Waited, Forgets, Running
  <1>2. PICK q \in [Nat -> Restarts \cup {None}] : TRUE
    <2>1. [n \in Nat |-> None] \in [Nat -> Restarts \cup {None}]
      OBVIOUS
    <2> QED BY <2>1
  <1>3. QueueIs(0, 0, q)'
    BY DEF QueueIs, Forgets, Active, Running
  <1> QED BY <1>1, <1>3 DEF Chain, ChainInv

LEMMA IdleKeeps ==
  ASSUME ChainInv, UNCHANGED <<last, prev, pc>>
  PROVE  ChainInv'
  <1>1. ChainTypes' /\ Waited'
    BY DEF ChainInv, ChainTypes, Waited
  <1>2. ASSUME NEW lo, NEW hi, NEW q, QueueIs(lo, hi, q) PROVE QueueIs(lo, hi, q)'
    BY <1>2 DEF QueueIs
  <1>3. Chain'
    BY <1>2 DEF ChainInv, Chain
  <1> QED BY <1>1, <1>3 DEF ChainInv

(* Every action is one of the five. *)
LEMMA ChainStep ==
  ASSUME ChainInv, [Next]_vars
  PROVE  ChainInv'
  <1>1. ASSUME NEW r \in Restarts, reStart(r) PROVE ChainInv'
    BY <1>1, QueueKeeps DEF reStart, Queues
  <1>2. ASSUME NEW r \in Restarts, Restart(r) PROVE ChainInv'
    <2>1. (\E p \in Running : Advances(r, p)) \/ Returns(r) \/ UNCHANGED <<last,
       prev, pc>>
      <3>1. CASE Begin(r)
        BY <3>1 DEF Begin, Advances, Active, Running
      <3>2. CASE Closed(r) \/ Stop(r) \/ Killed(r) \/ FirstTimeout(r) \/ Rebind(r)
        BY <3>2 DEF Closed, Stop, Killed, FirstTimeout, Rebind, Advances, Active,
           Running
      <3>3. CASE HelperStart(r)
        BY <3>3 DEF HelperStart, Advances, Active, Running
      <3>4. CASE Start(r)
        <4>1. pc[r] \in Running /\ UNCHANGED prev
          BY <3>4 DEF Start, Running
        <4>2. Finish(r) \/ (UNCHANGED last /\ (Go(r, "ready1") \/ Go(r, "ready2")))
          BY <3>4 DEF Start
        <4> QED BY <4>1, <4>2 DEF Advances, Returns, Active, Running
      <3>5. CASE Ready(r) \/ Timeout(r)
        BY <3>5 DEF Ready, Timeout, Returns, Running
      <3> QED BY <1>2, <3>1, <3>2, <3>3, <3>4, <3>5 DEF Restart
    <2> QED BY <2>1, AdvanceKeeps, ReturnKeeps, IdleKeeps
  <1>3. ASSUME AppEnds PROVE ChainInv'
    BY <1>3, ForgetKeeps DEF AppEnds, Forgets
  <1>4. ASSUME Bind \/ Loop \/ Shutdown \/ ShutdownKills \/ UNCHANGED vars
        PROVE  ChainInv'
    BY <1>4, IdleKeeps DEF Bind, Loop, Accept, HandOver, Shutdown, ShutdownKills,
       Complete, Supplant, vars, restarting
  <1>5. ASSUME NEW c \in Cores, Core(c) \/ CoreCrashes(c) PROVE ChainInv'
    BY <1>5, IdleKeeps DEF Core, Dial, CoreExits, CoreCrashes, restarting
  <1>6. ASSUME NEW k \in Calls, Invoke(k) \/ Run(k) \/ Call(k) PROVE ChainInv'
    BY <1>6, IdleKeeps DEF Invoke, Run, Call, SendFails, Answer, GiveDefault,
       restarting
  <1> QED BY <1>1, <1>2, <1>3, <1>4, <1>5, <1>6 DEF Next, Exit

(* Of restarts that overlap one is inside _doRestart at a time, whatever the *)
(* order of their calls and returns, and when one of them throws.            *)
THEOREM OneRestartHolds == Spec => []OneRestart
  <1>1. Init => ChainInv
    <2> SUFFICES ASSUME Init PROVE ChainInv
      OBVIOUS
    <2>1. ChainTypes /\ Waited
      BY DEF Init, ChainTypes, Waited, Running
    <2>2. [n \in Nat |-> None] \in [Nat -> Restarts \cup {None}]
      OBVIOUS
    <2>3. QueueIs(0, 0, [n \in Nat |-> None])
      BY DEF Init, QueueIs, Active, Running
    <2> QED BY <2>1, <2>2, <2>3 DEF Chain, ChainInv
  <1> QED BY <1>1, ChainStep, OneAtWork, PTL DEF Spec

-----------------------------------------------------------------------------
(* The rest of the state, action by action. *)
Groups == Types /\ GenOK /\ RanOK

LEMMA Completed ==
  ASSUME CallTypes, SocketTypes, RanOK, NEW c \in Cores,
         sc = None, Complete(c), UNCHANGED ran
  PROVE  CallTypes' /\ RanOK' /\ sc' \in Cores /\ waits' \in {"pending", "woken",
     "stale"}
         /\ link' \in [Cores -> {"new", "backlog", "hand", "open", "shut", "refused"}]
  BY DEF CallTypes, SocketTypes, RanOK, Complete

LEMMA Supplanted ==
  ASSUME CallTypes, SocketTypes, RanOK, NEW c \in Cores, Supplant(c), UNCHANGED ran
  PROVE  CallTypes' /\ RanOK' /\ sc' \in Cores /\ waits' \in {"pending", "woken",
     "stale"}
         /\ link' \in [Cores -> {"new", "backlog", "hand", "open", "shut", "refused"}]
  BY DEF CallTypes, SocketTypes, RanOK, Supplant, Orphaned

LEMMA Replaced ==
  ASSUME CallTypes, RanOK, Replace, UNCHANGED ran
  PROVE  CallTypes' /\ RanOK' /\ sc' = None
  BY DEF CallTypes, RanOK, Replace, Orphaned

LEMMA ShutKeeps ==
  ASSUME SocketTypes, Shut
  PROVE  link' \in [Cores -> {"new", "backlog", "hand", "open", "shut", "refused"}]
  BY DEF SocketTypes, Shut

LEMMA LoopTypes ==
  ASSUME Groups, OneRestart, Bind \/ Loop
  PROVE  Groups'
  <1> USE DEF Groups, Types
  <1>1. CASE Bind
    BY <1>1 DEF Bind, restarting, processes, app, calling, ChainTypes, SocketTypes,
       CoreTypes, FlagTypes, CallTypes, GenOK, RanOK
  <1>2. CASE Accept
    <2>1. Head(backlog) \in Cores /\ Tail(backlog) \in Seq(Cores)
      BY <1>2 DEF Accept, SocketTypes
    <2> QED BY <1>2, <2>1, Completed, ZenonT(30) DEF Accept, processes, app, ChainTypes,
       SocketTypes,
       CoreTypes, FlagTypes, CallTypes, GenOK, RanOK
  <1>3. CASE HandOver
    <2>1. PICK g \in 0 .. gen : /\ hand[g] # None /\ Supplant(hand[g])
                                /\ hand' = [hand EXCEPT ![g] = None]
      BY <1>3 DEF HandOver
    <2>2. hand[g] \in Cores /\ hand' \in [0 .. MaxCores -> Cores \cup {None}]
      BY <2>1, DesktopAssumption DEF SocketTypes, CoreTypes, GenOK
    <2>3. CallTypes' /\ RanOK' /\ SocketTypes'
      BY <1>3, <2>1, <2>2, Supplanted DEF HandOver, SocketTypes
    <2> QED BY <1>3, <2>3 DEF HandOver, processes, app, ChainTypes, CoreTypes,
       FlagTypes,
       GenOK
  <1> QED BY <1>1, <1>2, <1>3 DEF Loop

LEMMA CallStepTypes ==
  ASSUME Groups, NEW k \in Calls, Invoke(k) \/ Run(k) \/ Call(k)
  PROVE  Groups'
  <1> USE DEF Groups, Types, restarting, listening, processes, app, Become
  <1>1. UNCHANGED <<restarting, sc, listening, processes, link, app>>
    BY DEF Invoke, Run, Call, SendFails, Answer, GiveDefault
  <1>2. CallTypes' /\ RanOK'
    <2>1. CASE Invoke(k)
      BY <2>1 DEF Invoke, CallTypes, RanOK, SocketTypes
    <2>2. CASE Run(k)
      BY <2>2 DEF Run, CallTypes, RanOK
    <2>3. CASE Call(k)
      BY <2>3 DEF Call, SendFails, Answer, GiveDefault, CallTypes, RanOK
    <2> QED BY <2>1, <2>2, <2>3
  <1> QED BY <1>1, <1>2 DEF ChainTypes, SocketTypes, CoreTypes, FlagTypes, GenOK

LEMMA CoreStepTypes ==
  ASSUME Groups, NEW c \in Cores, Core(c) \/ CoreCrashes(c)
  PROVE  Groups'
  <1> USE DEF Groups, Types, restarting, app, calling
  <1>1. SocketTypes'
    <2>1. Append(backlog, c) \in Seq(Cores)
      BY DEF SocketTypes
    <2>2. CASE Dial(c)
      <3>1. backlog' \in Seq(Cores)
        BY <2>1, <2>2 DEF Dial, SocketTypes
      <3>2. link' \in [Cores -> {"new", "backlog", "hand", "open", "shut",
         "refused"}]
        BY <2>2 DEF Dial, SocketTypes
      <3> QED BY <2>2, <3>1, <3>2 DEF Dial, SocketTypes
    <2>3. CASE CoreExits(c) \/ CoreCrashes(c)
      BY <2>3 DEF CoreExits, CoreCrashes, SocketTypes, listening
    <2> QED BY <2>2, <2>3 DEF Core
  <1>2. CoreTypes'
    BY DEF Core, Dial, CoreExits, CoreCrashes, CoreTypes, processes
  <1>3. ChainTypes' /\ FlagTypes' /\ CallTypes' /\ GenOK' /\ RanOK'
    BY DEF Core, Dial, CoreExits, CoreCrashes, ChainTypes, FlagTypes, CallTypes,
       GenOK,
       RanOK, processes, listening
  <1> QED BY <1>1, <1>2, <1>3

LEMMA ExitTypes ==
  ASSUME Groups, Exit
  PROVE  Groups'
  <1> USE DEF Groups, Types, restarting, listening, processes, calling
  <1>1. CASE Shutdown
    <2>1. SocketTypes'
      BY <1>1, ShutKeeps DEF Shutdown, SocketTypes
    <2>2. CoreTypes'
      BY <1>1 DEF Shutdown, HelperStops, HelperFails, CoreTypes
    <2>3. FlagTypes'
      BY <1>1, Zenon DEF Shutdown, HelperStops, HelperFails, FlagTypes
    <2>4. ChainTypes' /\ CallTypes' /\ GenOK' /\ RanOK'
      BY <1>1 DEF Shutdown, ChainTypes, CallTypes, GenOK, RanOK
    <2> QED BY <2>1, <2>2, <2>3, <2>4
  <1>2. CASE ShutdownKills
    <2>1. CallTypes' /\ RanOK' /\ sc' = None
      BY <1>2, Replaced DEF ShutdownKills
    <2>2. CoreTypes'
      BY <1>2 DEF ShutdownKills, CoreTypes
    <2>3. ChainTypes' /\ SocketTypes' /\ FlagTypes' /\ GenOK'
      BY <1>2, <2>1 DEF ShutdownKills, ChainTypes, SocketTypes, FlagTypes, GenOK
    <2> QED BY <2>1, <2>2, <2>3
  <1>3. CASE AppEnds
    <2>1. ChainTypes' /\ CoreTypes' /\ FlagTypes' /\ RanOK'
      BY <1>3 DEF AppEnds, ChainTypes, CoreTypes, FlagTypes, RanOK
    <2>2. SocketTypes'
      BY <1>3 DEF AppEnds, SocketTypes
    <2>3. CallTypes' /\ GenOK'
      BY <1>3 DEF AppEnds, CallTypes, CoreTypes, GenOK
    <2> QED BY <2>1, <2>2, <2>3
  <1> QED BY <1>1, <1>2, <1>3 DEF Exit

LEMMA RestartTypes ==
  ASSUME Groups, OneRestart, ChainTypes', NEW r \in Restarts,
     reStart(r) \/ Restart(r)
  PROVE  Groups'
  <1> USE DEF Groups, Types, restarting, listening, processes, app, calling
  <1>1. CASE reStart(r)
    BY <1>1 DEF reStart, ChainTypes, SocketTypes, CoreTypes, FlagTypes, CallTypes,
       GenOK,
       RanOK
  <1>2. CASE Begin(r)
    <2>1. SocketTypes'
      BY <1>2, ShutKeeps DEF Begin, SocketTypes
    <2> QED BY <1>2, <2>1 DEF Begin, Go, ChainTypes, CoreTypes, FlagTypes,
       CallTypes, GenOK,
         RanOK
  <1>3. CASE Closed(r)
    <2>1. CallTypes' /\ RanOK' /\ sc' = None
      BY <1>3, Replaced DEF Closed
    <2> QED BY <1>3, <2>1 DEF Closed, Go, ChainTypes, SocketTypes, CoreTypes,
       FlagTypes, GenOK
  <1>4. CASE Stop(r)
    <2>1. CoreTypes'
      BY <1>4 DEF Stop, HelperStops, HelperFails, CoreTypes
    <2>2. FlagTypes'
      BY <1>4, Zenon DEF Stop, HelperStops, HelperFails, FlagTypes
    <2> QED BY <1>4, <2>1, <2>2 DEF Stop, Go, ChainTypes, SocketTypes, CallTypes,
       GenOK, RanOK
  <1>5. CASE Killed(r)
    <2>1. CallTypes' /\ RanOK' /\ sc' = None
      BY <1>5, Replaced DEF Killed
    <2> QED BY <1>5, <2>1 DEF Killed, Go, ChainTypes, SocketTypes, CoreTypes,
       FlagTypes, GenOK
  <1>6. CASE HelperStart(r) \/ Start(r)
    <2>1. UNCHANGED <<sc, listening, dying, crashed, failed, link, app, calling>>
      BY <1>6 DEF HelperStart, Start
    <2> DEFINE Spawned == \E running \in SUBSET Cores : Spawn(running)
    <2>2. /\ UNCHANGED <<born, up, addr, waits>> \/ Spawned
          /\ process' = process \/ (Spawned /\ process' = born')
          /\ child' = child \/ (Spawned /\ child' = born')
      <3>1. up \subseteq Cores /\ up \ {child} \subseteq Cores
        BY DEF CoreTypes
      <3>2. CASE HelperStart(r)
        <4>1. Spawn(up \ {child}) => Spawned
          BY <3>1
        <4> HIDE DEF Spawned
        <4> QED BY <3>2, <4>1 DEF HelperStart
      <3>3. CASE Start(r)
        <4>1. Spawn(up) => Spawned
          BY <3>1
        <4> HIDE DEF Spawned
        <4> QED BY <3>3, <4>1 DEF Start
      <3> QED BY <1>6, <3>2, <3>3
    <2>3. ASSUME NEW running \in SUBSET Cores, Spawn(running)
          PROVE  /\ born' = born + 1 /\ born' \in Cores
                 /\ up' \subseteq Cores /\ addr' \in [Cores -> Nat]
                 /\ waits' \in {"pending", "woken", "stale"}
      <3>1. born' = born + 1 /\ born' \in Cores
        BY <2>3, DesktopAssumption DEF Spawn, CoreTypes, Cores
      <3> QED BY <2>3, <3>1 DEF Spawn, CoreTypes, SocketTypes
    <2>4. /\ Spawned => born' = born + 1 /\ born' \in Cores
          /\ born' \in {born, born + 1} /\ born' \in 0 .. MaxCores
          /\ up' \subseteq Cores /\ addr' \in [Cores -> Nat]
          /\ waits' \in {"pending", "woken", "stale"}
      <3>1. CASE Spawned
        BY <2>3, <3>1 DEF Cores
      <3>2. CASE UNCHANGED <<born, up, addr, waits>> /\ ~Spawned
        BY <3>2 DEF CoreTypes, SocketTypes
      <3> HIDE DEF Spawned
      <3> QED BY <2>2, <3>1, <3>2
    <2> HIDE DEF Spawned
    <2>5. CoreTypes' /\ SocketTypes'
      BY <2>1, <2>2, <2>4 DEF CoreTypes, SocketTypes
    <2>6. GenOK'
      <3>1. pc' = pc \/ \E p \in {"done", "direct", "ready0", "ready2"} : Go(r, p)
            \/ (Go(r, "ready1") /\ born' = born + 1)
        BY <1>6 DEF HelperStart, Start, Spawn, Finish
      <3>2. \A s \in Restarts : s # r => pc'[s] = pc[s]
        BY <3>1 DEF Go, ChainTypes
      <3>3. pc'[r] \in {"ready1", "rebind"} => born' = born + 1 \/ pc'[r] = pc[r]
        BY <3>1 DEF Go, ChainTypes
      <3>4. gen \in Nat /\ born \in Nat /\ gen' = gen
            /\ (born' = born \/ born' = born + 1)
        BY <2>1, <2>4 DEF CoreTypes, SocketTypes
      <3> QED BY <3>2, <3>3, <3>4 DEF GenOK
    <2> QED BY <2>1, <2>5, <2>6 DEF FlagTypes, CallTypes, RanOK
  <1>7. CASE Ready(r) \/ Timeout(r)
    BY <1>7 DEF Ready, Timeout, Finish, Go, ChainTypes, SocketTypes, CoreTypes,
       FlagTypes,
       CallTypes, GenOK, RanOK
  <1>8. CASE FirstTimeout(r)
    <2>1. SocketTypes'
      BY <1>8 DEF FirstTimeout, SocketTypes
    <2>2. CoreTypes'
      BY <1>8 DEF FirstTimeout, CoreTypes
    <2> QED BY <1>8, <2>1, <2>2 DEF FirstTimeout, Go, ChainTypes, FlagTypes,
       CallTypes, GenOK,
         RanOK
  <1>9. CASE Rebind(r)
    <2>1. gen < born /\ \A s \in Restarts : pc[s] \in {"ready1", "rebind"} => s = r
      BY <1>9 DEF Rebind, GenOK, OneRestart, Running
    <2>2. GenOK'
      BY <1>9, <2>1 DEF Rebind, Go, ChainTypes, GenOK, SocketTypes, CoreTypes
    <2> QED BY <1>9, <2>2 DEF Rebind, SocketTypes, CoreTypes, FlagTypes, CallTypes,
       RanOK
  <1> QED BY <1>1, <1>2, <1>3, <1>4, <1>5, <1>6, <1>7, <1>8, <1>9 DEF Restart

LEMMA DeskStep ==
  ASSUME DeskInv, [Next]_vars
  PROVE  DeskInv'
  <1>1. ChainInv /\ Groups
    BY DEF DeskInv, Types, ChainInv, Groups
  <1>2. ChainInv' /\ OneRestart
    BY <1>1, ChainStep, OneAtWork
  <1>3. ASSUME UNCHANGED vars PROVE Groups'
    <2>1. UNCHANGED <<restarting, sc, listening, processes, link, app, calling>>
      BY <1>3 DEF vars
    <2>2. CoreTypes' /\ FlagTypes' /\ CallTypes' /\ GenOK' /\ RanOK'
      BY <1>1, <2>1 DEF restarting, listening, processes, app, calling, Groups,
         Types,
         CoreTypes, FlagTypes, CallTypes, GenOK, RanOK
    <2>3. SocketTypes'
      BY <1>1, <2>1 DEF restarting, listening, Groups, Types, SocketTypes
    <2> QED BY <1>2, <2>2, <2>3 DEF ChainInv, Groups, Types
  <1>4. ASSUME Next PROVE Groups'
    <2>1. CASE Bind \/ Loop \/ Exit
      BY <1>1, <1>2, <2>1, LoopTypes, ExitTypes
    <2>2. CASE \E r \in Restarts : reStart(r) \/ Restart(r)
      BY <1>1, <1>2, <2>2, RestartTypes DEF ChainInv
    <2>3. CASE \E c \in Cores : Core(c) \/ CoreCrashes(c)
      BY <1>1, <2>3, CoreStepTypes
    <2>4. CASE \E k \in Calls : Invoke(k) \/ Run(k) \/ Call(k)
      BY <1>1, <2>4, CallStepTypes
    <2> QED BY <1>4, <2>1, <2>2, <2>3, <2>4 DEF Next
  <1> QED BY <1>2, <1>3, <1>4 DEF DeskInv, ChainInv, Groups

THEOREM DeskInvHolds == Spec => []DeskInv
  <1>1. Init => DeskInv
    <2> SUFFICES ASSUME Init PROVE DeskInv
      OBVIOUS
    <2>1. ChainTypes /\ Waited
      BY DEF Init, ChainTypes, Waited, Running
    <2>2. SocketTypes /\ CoreTypes /\ GenOK
      BY DesktopAssumption DEF Init, SocketTypes, CoreTypes, GenOK
    <2>3. FlagTypes
      BY DEF Init, FlagTypes
    <2>4. CallTypes /\ RanOK
      BY DEF Init, CallTypes, RanOK
    <2>5. [n \in Nat |-> None] \in [Nat -> Restarts \cup {None}]
      OBVIOUS
    <2>6. QueueIs(0, 0, [n \in Nat |-> None])
      BY DEF Init, QueueIs, Active, Running
    <2> QED BY <2>1, <2>2, <2>3, <2>4, <2>5, <2>6 DEF Chain, DeskInv, Types
  <1> QED BY <1>1, DeskStep, PTL DEF Spec

(* What the restart chain rests on: the types of its parts - no accept loop  *)
(* hands over a connection that it does not hold, and no call waits behind a *)
(* connection there is - and one restart at work.                            *)
THEOREM DesktopInvHolds == Spec => []DesktopInv
  <1>1. DeskInv => DesktopInv
    <2>1. DeskInv => ChainInv
      BY DEF DeskInv, Types, ChainInv
    <2>2. DeskInv => OneRestart
      BY <2>1, OneAtWork
    <2>3. DeskInv => TypeOK
      BY Zenon DEF DeskInv, Types, ChainTypes, SocketTypes, CoreTypes, FlagTypes,
         CallTypes,
         TypeOK
    <2> QED BY <2>2, <2>3 DEF DesktopInv
  <1> QED BY <1>1, DeskInvHolds, PTL

-----------------------------------------------------------------------------
(* The refinement *)

LEMMA RemoteStep ==
  ASSUME DeskInv, [Next]_vars
  PROVE  [Remote!Next]_<<result, ran>>
  <1>1. \A k \in Calls : result[k] = IF call[k] \in {"answer", "default", "error"}
                                     THEN call[k] ELSE "none"
    BY DEF result
  <1>2. ASSUME UNCHANGED ran,
               \A k \in Calls : call'[k] # call[k] =>
                  call[k] \in {"idle", "waiting"} /\ call'[k] \in {"waiting", "stale", "sent"}
        PROVE  UNCHANGED <<result, ran>>
    BY <1>2 DEF result
  <1>3. CASE UNCHANGED calling
    BY <1>3 DEF calling, result
  <1>4. CASE Loop
    BY <1>2, <1>4 DEF Loop, Accept, HandOver, Complete, Supplant, Orphaned,
       DeskInv, Types, CallTypes
  <1>5. ASSUME Replace, UNCHANGED ran PROVE UNCHANGED <<result, ran>>
    BY <1>2, <1>5 DEF Replace, Orphaned
  <1>6. ASSUME NEW k \in Calls, Invoke(k) PROVE UNCHANGED <<result, ran>>
    BY <1>2, <1>6 DEF Invoke, Become, DeskInv, Types, CallTypes
  <1>7. ASSUME NEW k \in Calls, Run(k) PROVE Remote!Run(k)
    BY <1>1, <1>7 DEF Run, Remote!Run, result
  <1>8. ASSUME NEW k \in Calls, Call(k) PROVE Remote!Next
    <2>1. PICK s \in {"answer", "default", "error"} :
             /\ Become(k, s) /\ UNCHANGED ran
             /\ call[k] \in {"waiting", "stale", "sent"}
             /\ s = "answer" => k \in ran
             /\ s = "error" => k \notin ran
      BY <1>8 DEF Call, SendFails, Answer, GiveDefault, DeskInv, RanOK
    <2>2. result' = [result EXCEPT ![k] = s]
      BY <2>1 DEF Become, result, DeskInv, Types, CallTypes
    <2>3. Remote!Return(k, s)
      BY <1>1, <2>1, <2>2 DEF Remote!Return
    <2> QED BY <2>1, <2>3 DEF Remote!Next
  <1>9. CASE Next
    <2>1. ASSUME NEW r \in Restarts, reStart(r) \/ Restart(r)
          PROVE  UNCHANGED calling \/ (Replace /\ UNCHANGED ran)
      BY <2>1 DEF reStart, Restart, Begin, Closed, Stop, Killed, HelperStart,
         Start, Ready,
         Timeout, FirstTimeout, Rebind, calling
    <2>2. ASSUME NEW c \in Cores, Core(c) \/ CoreCrashes(c) PROVE UNCHANGED calling
      BY <2>2 DEF Core, Dial, CoreExits, CoreCrashes
    <2>3. Bind => UNCHANGED calling
      BY DEF Bind
    <2>4. Exit => UNCHANGED calling \/ (Replace /\ UNCHANGED ran)
      BY DEF Exit, Shutdown, ShutdownKills, AppEnds
    <2> QED BY <1>3, <1>4, <1>5, <1>6, <1>7, <1>8, <1>9, <2>1, <2>2, <2>3, <2>4
         DEF Next, Remote!Next
  <1> QED BY <1>3, <1>9 DEF vars

(* Whatever becomes of the connection, the core and the restarts, a call     *)
(* returns once, with the core's answer only when the core has run it, and   *)
(* with an error only when the core never runs it.                           *)
THEOREM RemoteCallHolds == Spec => ImplementsRemoteCall
  <1>1. Init => Remote!Init
    BY DEF Init, Remote!Init, result
  <1> QED BY <1>1, RemoteStep, DeskInvHolds, PTL DEF Spec, ImplementsRemoteCall,
     Remote!Spec

=============================================================================
