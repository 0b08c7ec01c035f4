------------------------- MODULE TunLifecycleProofs -------------------------
(* TunLifecycle proved for any threads, callbacks and number of permits: its *)
(* invariants, the refinement of CallbackLease, and who owns a reference.    *)
EXTENDS TunLifecycle, TLAPS

(* What the locals of a thread mean at each location. *)
LocalsOK ==
    \A t \in Threads :
        /\ pc[t] \in {"closeWait", "closing", "protectJoin", "protectWait",
                      "protecting", "resolveJoin", "resolveWait", "resolving"}
             => target[t] \in Callbacks
        /\ pc[t] \in {"startLock", "starting"} => arg[t] \in Callbacks
        /\ arg[t] # None =>
             pc[t] \in {"stopLock", "closeWait", "closing", "stopped",
                        "startLock", "starting"}

(* tunLock is held from the swap to the unlock, and while tun.Start runs. *)
LockOK ==
    \A t \in Threads :
        pc[t] \in {"closeWait", "closing", "stopped", "starting"} => tunLock = t

(* The semaphore: who is closing, and that a thread inside the JVM has a permit. *)
LimitOK ==
    /\ \A t \in Threads : pc[t] = "closing" => limit[target[t]].closer = t
    /\ \A t \in Threads : InCallback(t) => t \in limit[target[t]].users

(* A handler with a callback has a live reference, and one with a listener   *)
(* has a callback; a thread inside the JVM has its handler's callback.       *)
HandlerOK ==
    /\ \A c \in Callbacks :
          /\ handler[c].callback => ref[c] = "live"
          /\ handler[c].listener => handler[c].callback
    /\ \A t \in Threads : InCallback(t) => handler[target[t]].callback

(* A reference in the hands of startTUN belongs to that thread alone and is  *)
(* in no handler until the thread publishes it.                              *)
PendingOK ==
    /\ \A t \in Threads :
          /\ arg[t] # None /\ pc[t] # "starting" =>
               ref[arg[t]] = "live" /\ ~handler[arg[t]].callback
          /\ pc[t] = "starting" => handler[arg[t]].callback
    /\ \A t, u \in Threads : arg[t] # None /\ arg[t] = arg[u] => t = u

Inv == TypeOK /\ LocalsOK /\ LockOK /\ LimitOK /\ HandlerOK /\ PendingOK

USE TunAssumption

(* What the operations of the semaphore do to its users and its closer. *)
SameUsers(S)  == \A d \in S : limit'[d].users = limit[d].users
SameCloser(S) == \A d \in S : limit'[d].closer = limit[d].closer

LEMMA EnqueueEffect ==
  ASSUME limit \in [Callbacks -> Limits], NEW t \in Threads, NEW c \in Callbacks,
         Enqueue(t, c)
  PROVE  limit' \in [Callbacks -> Limits] /\ SameUsers(Callbacks) /\ SameCloser(Callbacks)
  <1>1. Append(limit[c].queue, t) \in Seq(Threads)
    BY DEF Limits
  <1> QED BY <1>1 DEF Enqueue, Limits, SameUsers, SameCloser

LEMMA EnterEffect ==
  ASSUME limit \in [Callbacks -> Limits], NEW t \in Threads, NEW c \in Callbacks,
         First(t, c), Enter(t, c)
  PROVE  /\ limit' \in [Callbacks -> Limits] /\ SameCloser(Callbacks)
         /\ SameUsers(Callbacks \ {c})
         /\ limit'[c].users = limit[c].users \cup {t}
  BY DEF Enter, First, Limits, SameUsers, SameCloser

LEMMA EnterAllEffect ==
  ASSUME limit \in [Callbacks -> Limits], NEW t \in Threads, NEW c \in Callbacks,
         First(t, c), EnterAll(t, c)
  PROVE  /\ limit' \in [Callbacks -> Limits] /\ SameUsers(Callbacks)
         /\ SameCloser(Callbacks \ {c})
         /\ limit'[c].closer = t
  BY DEF EnterAll, First, Limits, SameUsers, SameCloser

LEMMA SkipEffect ==
  ASSUME limit \in [Callbacks -> Limits], NEW t \in Threads, NEW c \in Callbacks,
         First(t, c), Skip(t, c)
  PROVE  limit' \in [Callbacks -> Limits] /\ SameUsers(Callbacks) /\ SameCloser(Callbacks)
  <1>1. Tail(limit[c].queue) \in Seq(Threads)
    BY DEF First, Limits
  <1> QED BY <1>1 DEF Skip, Limits, SameUsers, SameCloser

LEMMA ReleaseEffect ==
  ASSUME limit \in [Callbacks -> Limits], NEW t \in Threads, NEW c \in Callbacks,
         Release(t, c)
  PROVE  /\ limit' \in [Callbacks -> Limits] /\ SameCloser(Callbacks)
         /\ SameUsers(Callbacks \ {c})
         /\ limit'[c].users = limit[c].users \ {t}
  BY DEF Release, Limits, SameUsers, SameCloser

LEMMA ReleaseAllEffect ==
  ASSUME limit \in [Callbacks -> Limits], NEW c \in Callbacks, ReleaseAll(c)
  PROVE  /\ limit' \in [Callbacks -> Limits] /\ SameUsers(Callbacks)
         /\ SameCloser(Callbacks \ {c})
         /\ limit'[c].closer = None
  BY DEF ReleaseAll, Limits, SameUsers, SameCloser

LEMMA InitInv == Init => Inv
  <1> SUFFICES ASSUME Init PROVE Inv
    OBVIOUS
  <1> USE DEF Init
  <1>1. limit \in [Callbacks -> Limits]
    <2>1. FreeLimit \in Limits
      BY DEF FreeLimit, Limits
    <2> QED BY <2>1
  <1>2. TypeOK
    BY <1>1 DEF TypeOK, Locations, NewHandler, FreeLimit
  <1>3. LocalsOK /\ LockOK /\ LimitOK
    BY DEF LocalsOK, LockOK, LimitOK, InCallback
  <1>4. HandlerOK /\ PendingOK
    BY DEF HandlerOK, PendingOK, InCallback, NewHandler
  <1> QED BY <1>2, <1>3, <1>4 DEF Inv

LEMMA LockStopInv ==
  ASSUME Inv, NEW t \in Threads, LockStop(t)
  PROVE  Inv'
  <1> USE DEF Inv, LockStop, Goto, Load
  <1>1. limit' \in [Callbacks -> Limits] /\ SameUsers(Callbacks) /\ SameCloser(Callbacks)
    <2>1. CASE tunHandler = None
      BY <2>1 DEF TypeOK, SameUsers, SameCloser
    <2>2. CASE tunHandler # None
      BY <2>2, EnqueueEffect DEF TypeOK
    <2> QED BY <2>1, <2>2
  <1>2. TypeOK'
    BY <1>1 DEF TypeOK, Locations, SameUsers, SameCloser
  <1>3. LocalsOK' /\ LockOK'
    BY DEF TypeOK, LocalsOK, LockOK
  <1>4. LimitOK'
    BY <1>1 DEF TypeOK, LimitOK, InCallback, LocalsOK, SameUsers, SameCloser
  <1>5. HandlerOK' /\ PendingOK'
    BY DEF TypeOK, HandlerOK, PendingOK, InCallback
  <1> QED BY <1>2, <1>3, <1>4, <1>5

LEMMA CloseAdmittedInv ==
  ASSUME Inv, NEW t \in Threads, CloseAdmitted(t)
  PROVE  Inv'
  <1> DEFINE c == target[t]
  <1> USE DEF Inv, CloseAdmitted, Goto
  <1>1. c \in Callbacks
    BY DEF LocalsOK
  <1>2. /\ limit' \in [Callbacks -> Limits] /\ SameUsers(Callbacks)
        /\ SameCloser(Callbacks \ {c}) /\ limit'[c].closer = t
    BY <1>1, EnterAllEffect DEF TypeOK
  <1>3. TypeOK'
    BY <1>1, <1>2 DEF TypeOK, Locations, FitsAll, SameUsers, SameCloser
  <1>4. LocalsOK' /\ LockOK'
    BY DEF TypeOK, LocalsOK, LockOK
  <1>5. LimitOK'
    <2>1. \A u \in Threads : pc[u] = "closing" => target[u] \in Callbacks \ {c}
      BY <1>1 DEF TypeOK, LimitOK, LocalsOK, FitsAll
    <2> QED BY <1>1, <1>2, <2>1 DEF TypeOK, LimitOK, LocalsOK, InCallback, SameUsers, SameCloser
  <1>6. HandlerOK' /\ PendingOK'
    BY DEF TypeOK, HandlerOK, PendingOK, InCallback
  <1> QED BY <1>3, <1>4, <1>5, <1>6

LEMMA CloseInv ==
  ASSUME Inv, NEW t \in Threads, Close(t)
  PROVE  Inv'
  <1> DEFINE c == target[t]
  <1> USE DEF Inv, Close, Goto
  <1>1. /\ c \in Callbacks /\ limit[c].closer = t /\ tunLock = t
        /\ limit[c].users = {}
    BY DEF TypeOK, LocalsOK, LimitOK, LockOK
  <1>2. /\ limit' \in [Callbacks -> Limits] /\ SameUsers(Callbacks)
        /\ SameCloser(Callbacks \ {c}) /\ limit'[c].closer = None
    BY <1>1, ReleaseAllEffect DEF TypeOK
  <1>3. /\ handler' \in [Callbacks -> [callback : BOOLEAN, listener : BOOLEAN]]
        /\ ~handler'[c].callback /\ ~handler'[c].listener
        /\ \A d \in Callbacks \ {c} : handler'[d] = handler[d]
    BY <1>1 DEF TypeOK, NewHandler
  <1>4. /\ ref' \in [Callbacks -> {"unused", "live", "released"}]
        /\ ~handler[c].callback => ref'[c] = ref[c]
        /\ \A d \in Callbacks \ {c} : ref'[d] = ref[d]
    BY <1>1 DEF TypeOK, HandlerOK, Deleted
  <1>5. TypeOK'
    BY <1>2, <1>3, <1>4 DEF TypeOK, Locations, SameUsers, SameCloser
  <1>6. LocalsOK' /\ LockOK'
    BY <1>1 DEF TypeOK, LocalsOK, LockOK
  <1>7. LimitOK'
    <2>1. \A u \in Threads \ {t} : pc[u] = "closing" => target[u] \in Callbacks \ {c}
      BY <1>1 DEF TypeOK, LimitOK, LocalsOK
    <2> QED BY <1>1, <1>2, <2>1 DEF TypeOK, LimitOK, LocalsOK, InCallback, SameUsers, SameCloser
  <1>8. HandlerOK'
    <2>1. \A u \in Threads : InCallback(u) => target[u] \in Callbacks \ {c}
      BY <1>1 DEF LimitOK, LocalsOK, InCallback
    <2> QED BY <1>3, <1>4, <2>1 DEF TypeOK, HandlerOK, InCallback
  <1>9. PendingOK'
    <2>1. \A u \in Threads : pc[u] # "starting"
      BY <1>1 DEF TypeOK, LockOK
    <2> QED BY <1>3, <1>4, <2>1 DEF TypeOK, PendingOK
  <1> QED BY <1>5, <1>6, <1>7, <1>8, <1>9

LEMMA UnlockStopInv ==
  ASSUME Inv, NEW t \in Threads, UnlockStop(t)
  PROVE  Inv'
  <1> USE DEF Inv, UnlockStop, Unlock, Return, Goto, Load
  <1>1. TypeOK'
    BY DEF TypeOK, Locations
  <1>2. LocalsOK' /\ LockOK'
    BY DEF TypeOK, LocalsOK, LockOK
  <1>3. LimitOK'
    BY DEF TypeOK, LimitOK, InCallback
  <1>4. HandlerOK' /\ PendingOK'
    BY DEF TypeOK, HandlerOK, PendingOK, InCallback
  <1> QED BY <1>1, <1>2, <1>3, <1>4

LEMMA CallStartTunInv ==
  ASSUME Inv, NEW t \in Threads, NEW c \in Callbacks, NEW fd \in BOOLEAN,
         CallStartTun(t, c, fd)
  PROVE  Inv'
  <1> USE DEF Inv, CallStartTun, Goto, StartEntry
  <1>1. TypeOK'
    BY DEF TypeOK, Locations
  <1>2. LocalsOK' /\ LockOK' /\ LimitOK'
    BY DEF TypeOK, LocalsOK, LockOK, LimitOK, InCallback
  <1>3. HandlerOK'
    BY DEF TypeOK, HandlerOK, InCallback
  <1>4. PendingOK'
    <2>1. \A u \in Threads : arg[u] # c
      BY DEF TypeOK, PendingOK, HandlerOK
    <2>2. ~handler[c].callback
      BY DEF HandlerOK
    <2> QED BY <2>1, <2>2 DEF TypeOK, PendingOK
  <1> QED BY <1>1, <1>2, <1>3, <1>4

LEMMA StartPublishInv ==
  ASSUME Inv, NEW t \in Threads, StartPublish(t)
  PROVE  Inv'
  <1> DEFINE c == arg[t]
  <1> USE DEF Inv, StartPublish, Goto
  <1>1. c \in Callbacks /\ c # None
    BY DEF LocalsOK
  <1>2. /\ handler' \in [Callbacks -> [callback : BOOLEAN, listener : BOOLEAN]]
        /\ handler'[c].callback
        /\ \A d \in Callbacks \ {c} : handler'[d] = handler[d]
    <2>1. handler \in [Callbacks -> [callback : BOOLEAN, listener : BOOLEAN]]
      BY DEF TypeOK
    <2>2. handler' = [handler EXCEPT ![c].callback = TRUE]
      OBVIOUS
    <2> HIDE DEF StartPublish, Inv, c
    <2> QED BY <1>1, <2>1, <2>2
  <1>3. TypeOK'
    BY <1>1, <1>2 DEF TypeOK, Locations
  <1>4. LocalsOK' /\ LockOK' /\ LimitOK'
    BY DEF TypeOK, LocalsOK, LockOK, LimitOK, InCallback
  <1>5. ref[c] = "live" /\ \A u \in Threads \ {t} : arg[u] # c
    BY <1>1 DEF TypeOK, PendingOK
  <1>6. HandlerOK'
    BY <1>1, <1>2, <1>5 DEF TypeOK, HandlerOK, InCallback
  <1>7. PendingOK'
    BY <1>1, <1>2, <1>5 DEF TypeOK, PendingOK
  <1> QED BY <1>3, <1>4, <1>6, <1>7

LEMMA ListenerUpInv ==
  ASSUME Inv, NEW t \in Threads, ListenerUp(t)
  PROVE  Inv'
  <1> DEFINE c == arg[t]
  <1> USE DEF Inv, ListenerUp, Unlock, Return, Goto, Load
  <1>1. c \in Callbacks /\ handler[c].callback
    BY DEF LocalsOK, PendingOK
  <1>2. /\ handler' \in [Callbacks -> [callback : BOOLEAN, listener : BOOLEAN]]
        /\ \A d \in Callbacks : handler'[d].callback = handler[d].callback
        /\ \A d \in Callbacks \ {c} : handler'[d] = handler[d]
    <2>1. handler \in [Callbacks -> [callback : BOOLEAN, listener : BOOLEAN]]
      BY DEF TypeOK
    <2>2. handler' = [handler EXCEPT ![c].listener = TRUE]
      OBVIOUS
    <2> HIDE DEF ListenerUp, Inv, c
    <2> QED BY <1>1, <2>1, <2>2
  <1>3. TypeOK'
    BY <1>2 DEF TypeOK, Locations
  <1>4. LocalsOK' /\ LockOK' /\ LimitOK'
    BY DEF TypeOK, LocalsOK, LockOK, LimitOK, InCallback
  <1>5. HandlerOK' /\ PendingOK'
    BY <1>1, <1>2 DEF TypeOK, LocalsOK, HandlerOK, PendingOK, InCallback
  <1> QED BY <1>3, <1>4, <1>5

LEMMA CallStopTunInv ==
  ASSUME Inv, NEW t \in Threads, CallStopTun(t)
  PROVE  Inv'
  <1> USE DEF Inv, CallStopTun, Goto
  <1>1. TypeOK'
    BY DEF TypeOK, Locations
  <1>2. LocalsOK' /\ LockOK' /\ LimitOK'
    BY DEF TypeOK, LocalsOK, LockOK, LimitOK, InCallback
  <1>3. HandlerOK' /\ PendingOK'
    BY DEF TypeOK, LocalsOK, HandlerOK, PendingOK, InCallback
  <1> QED BY <1>1, <1>2, <1>3

LEMMA StartWithoutFdInv ==
  ASSUME Inv, NEW t \in Threads, StartWithoutFd(t)
  PROVE  Inv'
  <1> USE DEF Inv, StartWithoutFd, Goto, Return, Load
  <1>1. TypeOK'
    BY DEF TypeOK, LocalsOK, Locations
  <1>2. LocalsOK' /\ LockOK' /\ LimitOK'
    BY DEF TypeOK, LocalsOK, LockOK, LimitOK, InCallback
  <1>3. HandlerOK' /\ PendingOK'
    BY DEF TypeOK, LocalsOK, HandlerOK, PendingOK, InCallback
  <1> QED BY <1>1, <1>2, <1>3

LEMMA StartUnconfiguredInv ==
  ASSUME Inv, NEW t \in Threads, StartUnconfigured(t)
  PROVE  Inv'
  <1> USE DEF Inv, StartUnconfigured, Goto
  <1>1. TypeOK'
    BY DEF TypeOK, Locations
  <1>2. LocalsOK' /\ LockOK' /\ LimitOK'
    BY DEF TypeOK, LocalsOK, LockOK, LimitOK, InCallback
  <1>3. HandlerOK' /\ PendingOK'
    BY DEF TypeOK, LocalsOK, HandlerOK, PendingOK, InCallback
  <1> QED BY <1>1, <1>2, <1>3

LEMMA ListenerFailsInv ==
  ASSUME Inv, NEW t \in Threads, ListenerFails(t)
  PROVE  Inv'
  <1> USE DEF Inv, ListenerFails, Goto, Unlock, Unpublish, Return, Load
  <1>1. TypeOK'
    BY DEF TypeOK, LocalsOK, Locations
  <1>2. LocalsOK' /\ LockOK' /\ LimitOK'
    BY DEF TypeOK, LocalsOK, LockOK, LimitOK, InCallback
  <1>3. HandlerOK' /\ PendingOK'
    BY DEF TypeOK, LocalsOK, HandlerOK, PendingOK, InCallback
  <1> QED BY <1>1, <1>2, <1>3

LEMMA CallVpnOptionsInv ==
  ASSUME Inv, NEW t \in Threads, CallVpnOptions(t)
  PROVE  Inv'
  <1> USE DEF Inv, CallVpnOptions, Goto
  <1>1. TypeOK'
    BY DEF TypeOK, Locations
  <1>2. LocalsOK' /\ LockOK' /\ LimitOK'
    BY DEF TypeOK, LocalsOK, LockOK, LimitOK, InCallback
  <1>3. HandlerOK' /\ PendingOK'
    BY DEF TypeOK, LocalsOK, HandlerOK, PendingOK, InCallback
  <1> QED BY <1>1, <1>2, <1>3

LEMMA VpnOptionsInv ==
  ASSUME Inv, NEW t \in Threads, VpnOptions(t)
  PROVE  Inv'
  <1> USE DEF Inv, VpnOptions, Goto, Return, Load
  <1>1. TypeOK'
    BY DEF TypeOK, Locations
  <1>2. LocalsOK' /\ LockOK' /\ LimitOK'
    BY DEF TypeOK, LocalsOK, LockOK, LimitOK, InCallback
  <1>3. HandlerOK' /\ PendingOK'
    BY DEF TypeOK, LocalsOK, HandlerOK, PendingOK, InCallback
  <1> QED BY <1>1, <1>2, <1>3

LEMMA CallResolveInv ==
  ASSUME Inv, NEW t \in Threads, CallResolve(t)
  PROVE  Inv'
  <1> USE DEF Inv, CallResolve, Goto
  <1>1. TypeOK'
    BY DEF TypeOK, Locations
  <1>2. LocalsOK' /\ LockOK' /\ LimitOK'
    BY DEF TypeOK, LocalsOK, LockOK, LimitOK, InCallback
  <1>3. HandlerOK' /\ PendingOK'
    BY DEF TypeOK, LocalsOK, HandlerOK, PendingOK, InCallback
  <1> QED BY <1>1, <1>2, <1>3

LEMMA CallProtectInv ==
  ASSUME Inv, NEW t \in Threads, CallProtect(t)
  PROVE  Inv'
  <1> USE DEF Inv, CallProtect, Goto, Load
  <1>1. TypeOK'
    BY DEF TypeOK, Locations
  <1>2. LocalsOK' /\ LockOK' /\ LimitOK'
    BY DEF TypeOK, LocalsOK, LockOK, LimitOK, InCallback
  <1>3. HandlerOK' /\ PendingOK'
    BY DEF TypeOK, HandlerOK, PendingOK, InCallback
  <1> QED BY <1>1, <1>2, <1>3

LEMMA JoinInv ==
  ASSUME Inv, NEW t \in Threads,
         NEW from \in {"protectJoin", "resolveJoin"},
         NEW to \in {"protectWait", "resolveWait"},
         Join(t, from, to)
  PROVE  Inv'
  <1> USE DEF Inv, Join, Goto
  <1>1. target[t] \in Callbacks
    BY DEF LocalsOK
  <1>2. limit' \in [Callbacks -> Limits] /\ SameUsers(Callbacks) /\ SameCloser(Callbacks)
    BY <1>1, EnqueueEffect DEF TypeOK
  <1>3. TypeOK'
    BY <1>2 DEF TypeOK, Locations, SameUsers, SameCloser
  <1>4. LocalsOK' /\ LockOK'
    BY DEF TypeOK, LocalsOK, LockOK
  <1>5. LimitOK'
    BY <1>2 DEF TypeOK, LimitOK, InCallback, LocalsOK, SameUsers, SameCloser
  <1>6. HandlerOK' /\ PendingOK'
    BY DEF TypeOK, HandlerOK, PendingOK, InCallback
  <1> QED BY <1>3, <1>4, <1>5, <1>6

LEMMA LoadForResolveInv ==
  ASSUME Inv, NEW t \in Threads, LoadForResolve(t)
  PROVE  Inv'
  <1> USE DEF Inv, LoadForResolve, Goto, Load
  <1>1. CASE tunHandler = None
    <2>m. /\ Return(t) /\ pc[t] = "hooked"
          /\ UNCHANGED <<config, tunLock, runTime, tunHandler, hook, handler,
                         limit, ref, dropped>>
      BY <1>1
    <2> HIDE DEF LoadForResolve
    <2> USE <2>m DEF Return
    <2>1. TypeOK'
      BY DEF TypeOK, Locations
    <2>2. LocalsOK' /\ LockOK' /\ LimitOK'
      BY DEF TypeOK, LocalsOK, LockOK, LimitOK, InCallback
    <2>3. HandlerOK' /\ PendingOK'
      BY DEF TypeOK, HandlerOK, PendingOK, InCallback
    <2> QED BY <2>1, <2>2, <2>3
  <1>2. CASE tunHandler # None
    <2>m. /\ pc[t] = "hooked" /\ Goto(t, "resolveJoin") /\ Load(t, tunHandler)
          /\ UNCHANGED <<config, tunLock, runTime, tunHandler, hook, handler,
                         limit, ref, dropped, arg, hasFd>>
      BY <1>2
    <2> HIDE DEF LoadForResolve
    <2> USE <1>2, <2>m
    <2>1. TypeOK'
      BY DEF TypeOK, Locations
    <2>2. LocalsOK' /\ LockOK' /\ LimitOK'
      BY DEF TypeOK, LocalsOK, LockOK, LimitOK, InCallback
    <2>3. HandlerOK' /\ PendingOK'
      BY DEF TypeOK, HandlerOK, PendingOK, InCallback
    <2> QED BY <2>1, <2>2, <2>3
  <1> QED BY <1>1, <1>2

LEMMA AdmitInv ==
  ASSUME Inv, NEW t \in Threads, NEW works \in BOOLEAN,
         NEW inside \in {"protecting", "resolving"},
         pc[t] \in {"protectWait", "resolveWait"},
         works => handler[target[t]].callback,
         Admit(t, works, inside)
  PROVE  Inv'
  <1> DEFINE c == target[t]
  <1>1. c \in Callbacks /\ First(t, c) /\ limit[c].closer = None
    BY DEF Inv, LocalsOK, Admit, FitsOne
  <1>u. UNCHANGED <<config, tunLock, runTime, tunHandler, hook, handler, ref, dropped>>
    BY DEF Admit
  <1>2. CASE works
    <2>m. /\ Enter(t, c) /\ pc' = [pc EXCEPT ![t] = inside]
          /\ UNCHANGED <<target, arg, hasFd>> /\ handler[c].callback
      BY <1>2 DEF Admit, Goto
    <2> USE DEF Inv
    <2>1. /\ limit' \in [Callbacks -> Limits] /\ SameCloser(Callbacks)
          /\ SameUsers(Callbacks \ {c})
          /\ limit'[c].users = limit[c].users \cup {t}
      BY <1>1, <2>m, EnterEffect DEF TypeOK
    <2>2. TypeOK'
      <3>1. \A d \in Callbacks : limit'[d].closer # None => limit'[d].users = {}
        BY <1>1, <2>1 DEF TypeOK, SameUsers, SameCloser
      <3> QED BY <1>u, <2>m, <2>1, <3>1 DEF TypeOK, Locations
    <2>3. LocalsOK' /\ LockOK'
      BY <1>u, <2>m DEF TypeOK, LocalsOK, LockOK
    <2>4. LimitOK'
      <3>1. \A u \in Threads : pc'[u] = "closing" =>
              pc[u] = "closing" /\ target[u] \in Callbacks
        BY <2>m DEF TypeOK, LocalsOK
      <3>2. \A u \in Threads \ {t} : InCallback(u)' =>
              InCallback(u) /\ target[u] \in Callbacks
        BY <2>m DEF TypeOK, LocalsOK, InCallback
      <3> QED BY <1>1, <2>1, <2>m, <3>1, <3>2 DEF LimitOK, SameUsers, SameCloser
    <2>5. HandlerOK'
      BY <1>u, <2>m DEF TypeOK, HandlerOK, InCallback
    <2>6. PendingOK'
      BY <1>u, <2>m DEF TypeOK, PendingOK
    <2> QED BY <2>2, <2>3, <2>4, <2>5, <2>6
  <1>3. CASE ~works
    <2>m. Skip(t, c) /\ Return(t)
      BY <1>3 DEF Admit
    <2> USE DEF Inv, Return, Goto, Load
    <2>1. limit' \in [Callbacks -> Limits] /\ SameUsers(Callbacks) /\ SameCloser(Callbacks)
      BY <1>1, <2>m, SkipEffect DEF TypeOK
    <2>2. TypeOK'
      BY <1>u, <2>m, <2>1 DEF TypeOK, Locations, SameUsers, SameCloser
    <2>3. LocalsOK' /\ LockOK'
      BY <1>u, <2>m DEF TypeOK, LocalsOK, LockOK
    <2>4. LimitOK'
      BY <2>m, <2>1 DEF TypeOK, LimitOK, InCallback, LocalsOK, SameUsers, SameCloser
    <2>5. HandlerOK'
      BY <1>u, <2>m DEF TypeOK, HandlerOK, InCallback
    <2>6. PendingOK'
      BY <1>u, <2>m DEF TypeOK, PendingOK
    <2> QED BY <2>2, <2>3, <2>4, <2>5, <2>6
  <1> QED BY <1>2, <1>3

LEMMA LeaveInv ==
  ASSUME Inv, NEW t \in Threads, InCallback(t), Leave(t)
  PROVE  Inv'
  <1> DEFINE c == target[t]
  <1> USE DEF Inv, Leave, Return, Goto, Load, InCallback
  <1>1. c \in Callbacks
    BY DEF LocalsOK
  <1>2. /\ limit' \in [Callbacks -> Limits] /\ SameCloser(Callbacks)
        /\ SameUsers(Callbacks \ {c})
        /\ limit'[c].users = limit[c].users \ {t}
    BY <1>1, ReleaseEffect DEF TypeOK
  <1>3. TypeOK'
    BY <1>1, <1>2 DEF TypeOK, Locations, SameUsers, SameCloser
  <1>4. LocalsOK' /\ LockOK'
    BY DEF TypeOK, LocalsOK, LockOK
  <1>5. LimitOK'
    BY <1>1, <1>2 DEF TypeOK, LimitOK, LocalsOK, SameUsers, SameCloser
  <1>6. HandlerOK' /\ PendingOK'
    BY DEF TypeOK, HandlerOK, PendingOK
  <1> QED BY <1>3, <1>4, <1>5, <1>6

LEMMA StutterInv ==
  ASSUME Inv, UNCHANGED vars \/ SetupConfig
  PROVE  Inv'
  <1> USE DEF Inv, vars, SetupConfig
  <1>1. TypeOK'
    BY DEF TypeOK
  <1>2. LocalsOK' /\ LockOK' /\ LimitOK'
    BY DEF LocalsOK, LockOK, LimitOK, InCallback
  <1>3. HandlerOK' /\ PendingOK'
    BY DEF HandlerOK, PendingOK, InCallback
  <1> QED BY <1>1, <1>2, <1>3

LEMMA NextInv == Inv /\ [Next]_vars => Inv'
  <1> SUFFICES ASSUME Inv, [Next]_vars
               PROVE  Inv'
    OBVIOUS
  <1>1. CASE SetupConfig \/ UNCHANGED vars
    BY <1>1, StutterInv
  <1>2. ASSUME NEW t \in Threads, NEW c \in Callbacks, NEW fd \in BOOLEAN,
               CallStartTun(t, c, fd)
        PROVE  Inv'
    BY <1>2, CallStartTunInv
  <1>3. ASSUME NEW t \in Threads,
               \/ CallStopTun(t) \/ CallVpnOptions(t)
               \/ CallProtect(t) \/ CallResolve(t)
        PROVE  Inv'
    BY <1>3, CallStopTunInv, CallVpnOptionsInv, CallProtectInv, CallResolveInv
  <1>4. ASSUME NEW t \in Threads, Locking(t)
        PROVE  Inv'
    BY <1>4, LockStopInv, StartWithoutFdInv, StartUnconfiguredInv,
       StartPublishInv, VpnOptionsInv DEF Locking
  <1>5. ASSUME NEW t \in Threads, Running(t)
        PROVE  Inv'
    <2>1. CASE Protect(t)
      <3>1. handler[target[t]].callback \in BOOLEAN
        BY <2>1 DEF Protect, Inv, TypeOK, LocalsOK
      <3> QED BY <2>1, <3>1, AdmitInv DEF Protect
    <2>2. CASE Resolve(t)
      <3>1. /\ handler[target[t]].listener \in BOOLEAN
            /\ handler[target[t]].listener => handler[target[t]].callback
        BY <2>2 DEF Resolve, Inv, TypeOK, LocalsOK, HandlerOK
      <3> QED BY <2>2, <3>1, AdmitInv DEF Resolve
    <2>3. CASE Protected(t) \/ Resolved(t)
      BY <2>3, LeaveInv DEF Protected, Resolved, InCallback
    <2>4. CASE JoinProtect(t) \/ JoinResolve(t)
      BY <2>4, JoinInv DEF JoinProtect, JoinResolve
    <2> QED BY <1>5, <2>1, <2>2, <2>3, <2>4, CloseAdmittedInv, CloseInv, UnlockStopInv,
               ListenerUpInv, ListenerFailsInv, LoadForResolveInv DEF Running
  <1> QED BY <1>1, <1>2, <1>3, <1>4, <1>5 DEF Next

(* The inductive invariant holds. *)
THEOREM InvHolds == Spec => []Inv
  BY InitInv, NextInv, PTL DEF Spec

(* Every variable keeps its type; in particular no reference is deleted      *)
(* twice and nobody holds a permit while close holds them all.               *)
THEOREM TypeCorrect == Spec => []TypeOK
  BY InvHolds, PTL DEF Inv

(* handleProtect and handleResolveProcess never enter the JVM through a      *)
(* released reference, for any threads, callbacks and permits.               *)
THEOREM CallbackSafety == Spec => []NoUseAfterRelease
  <1>1. Inv => NoUseAfterRelease
    BY DEF Inv, LocalsOK, HandlerOK, NoUseAfterRelease, InCallback
  <1> QED BY InvHolds, <1>1, PTL

-----------------------------------------------------------------------------
(* The session: handler, hook and start time move together under tunLock. *)
Session ==
    /\ SessionWhole
    /\ \A t \in Threads :
          /\ pc[t] = "starting" => tunHandler = arg[t] /\ hook /\ runTime
          /\ pc[t] \in {"closeWait", "closing", "stopped"} => tunHandler = None
          /\ pc[t] \in {"closing", "stopped"} => ~hook

LEMMA LockingSession ==
  ASSUME Inv, Session, NEW t \in Threads, Locking(t)
  PROVE  Session'
  <1> USE DEF Inv, TypeOK, LockOK, LocalsOK, Session, SessionWhole, Goto, Return, Load
  <1>1. CASE LockStop(t)
    BY <1>1 DEF LockStop
  <1>2. CASE StartWithoutFd(t)
    BY <1>2 DEF StartWithoutFd
  <1>3. CASE StartUnconfigured(t)
    BY <1>3 DEF StartUnconfigured
  <1>4. CASE StartPublish(t)
    BY <1>4 DEF StartPublish
  <1>5. CASE VpnOptions(t)
    BY <1>5 DEF VpnOptions
  <1> QED BY <1>1, <1>2, <1>3, <1>4, <1>5 DEF Locking

LEMMA RunningSession ==
  ASSUME Inv, Session, NEW t \in Threads, Running(t)
  PROVE  Session'
  <1> USE DEF Inv, TypeOK, LockOK, LocalsOK, Session, SessionWhole, Goto, Return,
              Load, Unlock
  <1>1. CASE CloseAdmitted(t)
    BY <1>1 DEF CloseAdmitted
  <1>2. CASE Close(t)
    BY <1>2 DEF Close
  <1>3. CASE UnlockStop(t)
    BY <1>3 DEF UnlockStop
  <1>4. CASE ListenerUp(t)
    BY <1>4 DEF ListenerUp
  <1>5. CASE ListenerFails(t)
    BY <1>5 DEF ListenerFails, Unpublish
  <1>6. CASE Protect(t) \/ Resolve(t)
    BY <1>6 DEF Protect, Resolve, Admit
  <1>7. CASE Protected(t) \/ Resolved(t)
    BY <1>7 DEF Protected, Resolved, Leave
  <1>8. CASE LoadForResolve(t)
    BY <1>8 DEF LoadForResolve
  <1>9. CASE JoinProtect(t) \/ JoinResolve(t)
    BY <1>9 DEF JoinProtect, JoinResolve, Join
  <1> QED BY <1>1, <1>2, <1>3, <1>4, <1>5, <1>6, <1>7, <1>8, <1>9 DEF Running

LEMMA CallSession ==
  ASSUME Inv, Session, NEW t \in Threads,
         \/ CallStopTun(t) \/ CallVpnOptions(t) \/ CallProtect(t) \/ CallResolve(t)
         \/ \E c \in Callbacks, fd \in BOOLEAN : CallStartTun(t, c, fd)
  PROVE  Session'
  <1> USE DEF Inv, TypeOK, LockOK, LocalsOK, Session, SessionWhole, Goto, Load
  <1>1. CASE CallStopTun(t) \/ CallVpnOptions(t) \/ CallProtect(t) \/ CallResolve(t)
    BY <1>1 DEF CallStopTun, CallVpnOptions, CallProtect, CallResolve
  <1>2. CASE \E c \in Callbacks, fd \in BOOLEAN : CallStartTun(t, c, fd)
    BY <1>2 DEF CallStartTun, StartEntry
  <1> QED BY <1>1, <1>2

(* The session invariant is inductive relative to Inv. *)
THEOREM SessionHolds == Spec => []Session
  <1>1. Init => Session
    BY DEF Init, Session, SessionWhole
  <1>2. Inv /\ Session /\ [Next]_vars => Session'
    <2> SUFFICES ASSUME Inv, Session, [Next]_vars PROVE Session'
      OBVIOUS
    <2>1. CASE SetupConfig \/ UNCHANGED vars
      BY <2>1 DEF SetupConfig, vars, Session, SessionWhole
    <2> QED BY <2>1, LockingSession, RunningSession, CallSession DEF Next
  <1> QED BY InvHolds, <1>1, <1>2, PTL DEF Spec

(* Between two holders of tunLock the hook, the handler, its listener and    *)
(* the start time agree, whichever way each start and stop ended.            *)
THEOREM SessionsAreWhole == Spec => []SessionWhole
  BY SessionHolds, PTL DEF Session

-----------------------------------------------------------------------------
(* TunLifecycle implements CallbackLease, and with one caller of startTUN    *)
(* it never keeps a second tunnel open nor loses a reference it could use.   *)
(* A step that deletes no reference and moves no thread into or out of the   *)
(* JVM is a stutter of the lease.                                            *)
Quiet ==
    /\ ref' = ref
    /\ \A t \in Threads : /\ InCallback(t)' <=> InCallback(t)
                          /\ InCallback(t) => target'[t] = target[t]

LEMMA QuietStutters ==
  ASSUME Quiet
  PROVE  UNCHANGED Lease!leaseVars
  BY DEF Quiet, Lease!leaseVars

(* The users of each callback, as the lease sees them. *)
UsersOf == [c \in Callbacks |-> {t \in Threads : InCallback(t) /\ target[t] = c}]

LEMMA LeaseStep ==
  ASSUME NEW c \in Callbacks, NEW t \in Threads,
         Lease!Use(t, c) \/ Lease!Leave(t, c)
  PROVE  Lease!Next
  BY DEF Lease!Next

LEMMA LockingLease ==
  ASSUME Inv, NEW t \in Threads, Locking(t)
  PROVE  UNCHANGED Lease!leaseVars
  <1> USE DEF Inv, TypeOK, Quiet, InCallback, Goto, Return, Load
  <1>1. CASE LockStop(t)
    BY <1>1, QuietStutters DEF LockStop
  <1>2. CASE StartWithoutFd(t)
    BY <1>2, QuietStutters DEF StartWithoutFd
  <1>3. CASE StartUnconfigured(t)
    BY <1>3, QuietStutters DEF StartUnconfigured
  <1>4. CASE StartPublish(t)
    BY <1>4, QuietStutters DEF StartPublish
  <1>5. CASE VpnOptions(t)
    BY <1>5, QuietStutters DEF VpnOptions
  <1> QED BY <1>1, <1>2, <1>3, <1>4, <1>5 DEF Locking

LEMMA CallLease ==
  ASSUME Inv, NEW t \in Threads,
         CallStopTun(t) \/ CallVpnOptions(t) \/ CallProtect(t) \/ CallResolve(t)
  PROVE  UNCHANGED Lease!leaseVars
  BY QuietStutters DEF Inv, TypeOK, Quiet, InCallback, Goto, Load,
     CallStopTun, CallVpnOptions, CallProtect, CallResolve

LEMMA GrantLease ==
  ASSUME Inv, NEW t \in Threads, NEW c \in Callbacks, NEW fd \in BOOLEAN,
         CallStartTun(t, c, fd)
  PROVE  Lease!Grant(c)
  <1>1. \A u \in Threads : (InCallback(u)' <=> InCallback(u)) /\ target'[u] = target[u]
    BY DEF CallStartTun, Inv, TypeOK, InCallback, Goto, StartEntry
  <1> QED BY <1>1 DEF CallStartTun, Lease!Grant

LEMMA AdmitLease ==
  ASSUME Inv, NEW t \in Threads, NEW k \in Callbacks, k = target[t], NEW works \in BOOLEAN,
         NEW inside \in {"protecting", "resolving"},
         pc[t] \in {"protectWait", "resolveWait"},
         works => handler[target[t]].callback,
         Admit(t, works, inside)
  PROVE  Lease!Use(t, k) \/ UNCHANGED Lease!leaseVars
  <1> USE DEF Inv, TypeOK, InCallback, Goto, Admit
  <1>1. CASE works
    <2>1. target[t] \in Callbacks /\ ref[target[t]] = "live"
      BY <1>1 DEF LocalsOK, HandlerOK
    <2>2. /\ InCallback(t)' /\ target' = target /\ ref' = ref
          /\ \A u \in Threads \ {t} : InCallback(u)' <=> InCallback(u)
      BY <1>1
    <2>3. UsersOf' = [UsersOf EXCEPT ![target[t]] = @ \cup {t}]
      <3> DEFINE S(c) == {u \in Threads : InCallback(u) /\ target[u] = c}
      <3>1. \A c \in Callbacks :
              S(c)' = IF c = target[t] THEN S(c) \cup {t} ELSE S(c)
        BY <2>1, <2>2
      <3> HIDE DEF S
      <3>2. UsersOf = [c \in Callbacks |-> S(c)]
        BY DEF UsersOf, S
      <3>3. UsersOf' = [c \in Callbacks |-> S(c)']
        BY DEF UsersOf, S
      <3> QED BY <2>1, <3>1, <3>2, <3>3
    <2> QED BY <2>1, <2>2, <2>3 DEF Lease!Use, UsersOf
  <1>2. CASE ~works
    BY <1>2, QuietStutters DEF Quiet, Return, Load
  <1> QED BY <1>1, <1>2

LEMMA LeaveLease ==
  ASSUME Inv, NEW t \in Threads, NEW k \in Callbacks, k = target[t], InCallback(t), Leave(t)
  PROVE  Lease!Leave(t, k)
  <1> USE DEF Inv, TypeOK, Leave, Return, Goto, Load
  <1>1. target[t] \in Callbacks
    BY DEF LocalsOK, InCallback
  <1>2. /\ ~InCallback(t)' /\ ref' = ref
        /\ \A u \in Threads \ {t} :
              (InCallback(u)' <=> InCallback(u)) /\ target'[u] = target[u]
    BY DEF InCallback
  <1>3. UsersOf' = [UsersOf EXCEPT ![target[t]] = @ \ {t}]
    <2> DEFINE S(c) == {u \in Threads : InCallback(u) /\ target[u] = c}
    <2>1. \A c \in Callbacks :
            S(c)' = IF c = target[t] THEN S(c) \ {t} ELSE S(c)
      BY <1>1, <1>2
    <2> HIDE DEF S
    <2>2. UsersOf = [c \in Callbacks |-> S(c)]
      BY DEF UsersOf, S
    <2>3. UsersOf' = [c \in Callbacks |-> S(c)']
      BY DEF UsersOf, S
    <2> QED BY <1>1, <2>1, <2>2, <2>3
  <1>4. t \in UsersOf[target[t]]
    BY <1>1 DEF UsersOf
  <1> QED BY <1>1, <1>2, <1>3, <1>4 DEF Lease!Leave, UsersOf

LEMMA CloseLease ==
  ASSUME Inv, NEW t \in Threads, Close(t)
  PROVE  Lease!Release(target[t]) \/ UNCHANGED Lease!leaseVars
  <1> DEFINE c == target[t]
  <1> USE DEF Inv, TypeOK, Close, Goto
  <1>1. c \in Callbacks /\ limit[c].closer = t
    BY DEF LocalsOK, LimitOK
  <1>2. \A u \in Threads : (InCallback(u)' <=> InCallback(u)) /\ target'[u] = target[u]
    BY DEF InCallback
  <1>3. CASE handler[c].callback
    <2>1. ref[c] = "live" /\ ref' = [ref EXCEPT ![c] = "released"]
      BY <1>1, <1>3 DEF HandlerOK, Deleted
    <2>2. {u \in Threads : InCallback(u) /\ target[u] = c} = {}
      <3>1. limit[c].users = {}
        BY <1>1
      <3> QED BY <1>1, <3>1 DEF LimitOK
    <2>3. UsersOf[c] = {}
      BY <1>1, <2>2 DEF UsersOf
    <2>4. UsersOf' = UsersOf
      BY <1>2 DEF UsersOf
    <2> QED BY <1>1, <2>1, <2>3, <2>4 DEF Lease!Release, UsersOf
  <1>4. CASE ~handler[c].callback
    BY <1>2, <1>4, QuietStutters DEF Quiet
  <1> QED BY <1>3, <1>4

LEMMA NextLease == Inv /\ [Next]_vars => [Lease!Next]_(Lease!leaseVars)
  <1> SUFFICES ASSUME Inv, [Next]_vars
               PROVE  Lease!Next \/ UNCHANGED Lease!leaseVars
    OBVIOUS
  <1>1. CASE SetupConfig \/ UNCHANGED vars
    BY <1>1, QuietStutters DEF SetupConfig, vars, Quiet, InCallback
  <1>2. ASSUME NEW t \in Threads, NEW c \in Callbacks, NEW fd \in BOOLEAN,
               CallStartTun(t, c, fd)
        PROVE  Lease!Next
    BY <1>2, GrantLease DEF Lease!Next
  <1>3. ASSUME NEW t \in Threads, Running(t)
        PROVE  Lease!Next \/ UNCHANGED Lease!leaseVars
    <2>1. CASE Protect(t)
      <3>1. target[t] \in Callbacks /\ handler[target[t]].callback \in BOOLEAN
        BY <2>1 DEF Protect, Inv, TypeOK, LocalsOK
      <3>2. PICK k \in Callbacks : k = target[t]
        BY <3>1
      <3>3. Lease!Use(t, k) \/ UNCHANGED Lease!leaseVars
        BY <2>1, <3>1, <3>2, AdmitLease DEF Protect
      <3> QED BY <3>3, LeaseStep
    <2>2. CASE Resolve(t)
      <3>1. /\ target[t] \in Callbacks /\ handler[target[t]].listener \in BOOLEAN
            /\ handler[target[t]].listener => handler[target[t]].callback
        BY <2>2 DEF Resolve, Inv, TypeOK, LocalsOK, HandlerOK
      <3>2. PICK k \in Callbacks : k = target[t]
        BY <3>1
      <3>3. Lease!Use(t, k) \/ UNCHANGED Lease!leaseVars
        BY <2>2, <3>1, <3>2, AdmitLease DEF Resolve
      <3> QED BY <3>3, LeaseStep
    <2>3. CASE Protected(t) \/ Resolved(t)
      <3>1. InCallback(t) /\ Leave(t) /\ target[t] \in Callbacks
        BY <2>3 DEF Protected, Resolved, InCallback, Inv, LocalsOK
      <3>2. PICK k \in Callbacks : k = target[t]
        BY <3>1
      <3>3. Lease!Leave(t, k)
        BY <3>1, <3>2, LeaveLease
      <3> QED BY <3>3, LeaseStep
    <2>4. CASE Close(t)
      <3>1. target[t] \in Callbacks
        BY <2>4 DEF Close, Inv, LocalsOK
      <3> QED BY <2>4, <3>1, CloseLease DEF Lease!Next
    <2>5. CASE CloseAdmitted(t) \/ UnlockStop(t) \/ ListenerUp(t) \/ ListenerFails(t)
      BY <2>5, QuietStutters DEF CloseAdmitted, UnlockStop, ListenerUp, ListenerFails,
         Quiet, InCallback, Inv, TypeOK, Goto, Return, Load
    <2>6. CASE LoadForResolve(t)
      BY <2>6, QuietStutters DEF LoadForResolve, Quiet, InCallback, Inv, TypeOK,
         Goto, Return, Load
    <2>7. CASE JoinProtect(t) \/ JoinResolve(t)
      BY <2>7, QuietStutters DEF JoinProtect, JoinResolve, Join, Quiet, InCallback,
         Inv, TypeOK, Goto
    <2> QED BY <1>3, <2>1, <2>2, <2>3, <2>4, <2>5, <2>6, <2>7 DEF Running
  <1> QED BY <1>1, <1>2, <1>3, LockingLease, CallLease DEF Next

(* Every behaviour of the bridge is a behaviour of the lease: a reference is *)
(* used only between its grant and its single release, and released only     *)
(* when no thread is inside the JVM with it.                                 *)
THEOREM TunImplementsLease == Spec => ImplementsLease
  <1>1. Init => Lease!Init
    BY DEF Init, Lease!Init, InCallback
  <1> QED BY InvHolds, NextLease, <1>1, PTL DEF Spec, ImplementsLease, Lease!Spec

-----------------------------------------------------------------------------
(* With one starter nothing is published between its stop and its start. *)
OneStarter == \A s, u \in Starters : s = u

Single ==
    /\ OneTunnel
    /\ \A t \in Threads :
          /\ arg[t] # None => t \in Starters
          /\ pc[t] = "startLock" => tunHandler = None
          /\ pc[t] = "starting" => ~handler[arg[t]].listener

LEMMA LockingSingle ==
  ASSUME OneStarter, Inv, Session, Single, NEW t \in Threads, Locking(t)
  PROVE  Single'
  <1> USE DEF Inv, TypeOK, LocalsOK, LockOK, Single, OneTunnel, BeingClosed,
              Goto, Return, Load
  <1>1. CASE LockStop(t)
    BY <1>1 DEF LockStop, Session, SessionWhole
  <1>2. CASE StartWithoutFd(t)
    BY <1>2 DEF StartWithoutFd
  <1>3. CASE StartUnconfigured(t)
    BY <1>3 DEF StartUnconfigured
  <1>4. CASE StartPublish(t)
    <2> DEFINE c == arg[t]
    <2>1. c \in Callbacks /\ tunHandler = None /\ tunLock = None /\ t \in Starters
      BY <1>4 DEF StartPublish
    <2>2. \A d \in Callbacks : ~handler[d].listener
      BY <2>1
    <2>3. \A d \in Callbacks : handler'[d].listener = handler[d].listener
      BY <1>4, <2>1 DEF StartPublish
    <2>4. \A u \in Threads : pc'[u] = "startLock" => FALSE
      BY <1>4, <2>1 DEF StartPublish, OneStarter
    <2>5. \A u \in Threads : arg'[u] # None => u \in Starters
      BY <1>4 DEF StartPublish
    <2>6. \A u \in Threads : pc'[u] = "starting" => arg'[u] \in Callbacks
      BY <1>4 DEF StartPublish
    <2> QED BY <2>2, <2>3, <2>4, <2>5, <2>6
  <1>5. CASE VpnOptions(t)
    BY <1>5 DEF VpnOptions
  <1> QED BY <1>1, <1>2, <1>3, <1>4, <1>5 DEF Locking

LEMMA RunningSingle ==
  ASSUME OneStarter, Inv, Session, Single, NEW t \in Threads, Running(t)
  PROVE  Single'
  <1> USE DEF Inv, TypeOK, LocalsOK, LockOK, Single, OneTunnel, BeingClosed,
              Goto, Return, Load, Unlock
  <1>1. CASE CloseAdmitted(t)
    BY <1>1 DEF CloseAdmitted
  <1>2. CASE Close(t)
    <2>1. target[t] \in Callbacks /\ \A u \in Threads : pc[u] = "starting" => u = t
      BY <1>2 DEF Close
    <2>2. ~handler'[target[t]].listener
      BY <1>2, <2>1 DEF Close, NewHandler
    <2>3. \A c \in Callbacks \ {target[t]} : handler'[c] = handler[c]
      BY <1>2, <2>1 DEF Close
    <2> QED BY <1>2, <2>1, <2>2, <2>3 DEF Close
  <1>3. CASE UnlockStop(t)
    BY <1>3 DEF UnlockStop, Session
  <1>4. CASE ListenerUp(t)
    <2>1. arg[t] \in Callbacks /\ tunHandler = arg[t]
      BY <1>4 DEF ListenerUp, Session
    <2>2. \A c \in Callbacks \ {arg[t]} : handler'[c] = handler[c]
      BY <1>4, <2>1 DEF ListenerUp
    <2> QED BY <1>4, <2>1, <2>2 DEF ListenerUp, PendingOK
  <1>5. CASE ListenerFails(t)
    BY <1>5 DEF ListenerFails, Unpublish, Session
  <1>6. CASE Protect(t) \/ Resolve(t)
    BY <1>6 DEF Protect, Resolve, Admit
  <1>7. CASE Protected(t) \/ Resolved(t)
    BY <1>7 DEF Protected, Resolved, Leave
  <1>8. CASE LoadForResolve(t)
    BY <1>8 DEF LoadForResolve
  <1>9. CASE JoinProtect(t) \/ JoinResolve(t)
    BY <1>9 DEF JoinProtect, JoinResolve, Join
  <1> QED BY <1>1, <1>2, <1>3, <1>4, <1>5, <1>6, <1>7, <1>8, <1>9 DEF Running

LEMMA CallSingle ==
  ASSUME OneStarter, Inv, Session, Single, NEW t \in Threads,
         \/ CallStopTun(t) \/ CallVpnOptions(t) \/ CallProtect(t) \/ CallResolve(t)
         \/ \E c \in Callbacks, fd \in BOOLEAN : CallStartTun(t, c, fd)
  PROVE  Single'
  <1> USE DEF Inv, TypeOK, LocalsOK, Single, OneTunnel, BeingClosed, Goto, Load
  <1>1. CASE CallStopTun(t) \/ CallVpnOptions(t) \/ CallProtect(t) \/ CallResolve(t)
    BY <1>1 DEF CallStopTun, CallVpnOptions, CallProtect, CallResolve
  <1>2. CASE \E c \in Callbacks, fd \in BOOLEAN : CallStartTun(t, c, fd)
    BY <1>2 DEF CallStartTun, StartEntry
  <1> QED BY <1>1, <1>2

(* With one starter the bridge is single, whatever the other threads do. *)
LEMMA SingleHolds ==
  ASSUME OneStarter
  PROVE  Spec => []Single
  <1>1. Init => Single
    BY DEF Init, Single, OneTunnel, NewHandler
  <1>2. Inv /\ Session /\ Single /\ [Next]_vars => Single'
    <2> SUFFICES ASSUME Inv, Session, Single, [Next]_vars PROVE Single'
      OBVIOUS
    <2>1. CASE SetupConfig \/ UNCHANGED vars
      BY <2>1 DEF SetupConfig, vars, Single, OneTunnel, BeingClosed
    <2> QED BY <2>1, LockingSingle, RunningSingle, CallSingle DEF Next
  <1> QED BY InvHolds, SessionHolds, <1>1, <1>2, PTL DEF Spec

(* If startTUN has one caller, no listener stays open behind tunHandler's    *)
(* back: each open one is published or in the hands of a running close.      *)
THEOREM OneTunnelHolds == OneStarter /\ Spec => []OneTunnel
  <1> SUFFICES ASSUME OneStarter PROVE Spec => []OneTunnel
    OBVIOUS
  <1>1. Single => OneTunnel
    BY DEF Single
  <1> QED BY SingleHolds, <1>1, PTL

-----------------------------------------------------------------------------
(* A published handler, and one about to be closed, still has its callback,  *)
(* so that the close will release the reference.                             *)
Owned ==
    /\ LiveRefsOwned
    /\ tunHandler # None => handler[tunHandler].callback
    /\ \A t \in Threads :
          pc[t] \in {"closeWait", "closing"} => handler[target[t]].callback

LEMMA LockingOwned ==
  ASSUME OneStarter, Inv, Session, Single, Owned, NEW t \in Threads, Locking(t)
  PROVE  Owned'
  <1> USE DEF Inv, TypeOK, LocalsOK, LockOK, Owned, LiveRefsOwned, BeingClosed,
              Goto, Return, Load
  <1>1. CASE LockStop(t)
    BY <1>1 DEF LockStop
  <1>2. CASE StartWithoutFd(t)
    BY <1>2 DEF StartWithoutFd
  <1>3. CASE StartUnconfigured(t)
    BY <1>3 DEF StartUnconfigured
  <1>4. CASE StartPublish(t)
    <2> DEFINE c == arg[t]
    <2>1. c \in Callbacks /\ tunHandler = None
      BY <1>4 DEF StartPublish, Single
    <2>2. /\ handler'[c].callback
          /\ \A d \in Callbacks : handler[d].callback => handler'[d].callback
      BY <1>4, <2>1 DEF StartPublish
    <2> QED BY <1>4, <2>1, <2>2 DEF StartPublish
  <1>5. CASE VpnOptions(t)
    BY <1>5 DEF VpnOptions
  <1> QED BY <1>1, <1>2, <1>3, <1>4, <1>5 DEF Locking

LEMMA RunningOwned ==
  ASSUME Inv, Session, Owned, NEW t \in Threads, Running(t)
  PROVE  Owned'
  <1> USE DEF Inv, TypeOK, LocalsOK, LockOK, Owned, LiveRefsOwned, BeingClosed,
              Goto, Return, Load, Unlock
  <1>1. CASE CloseAdmitted(t)
    BY <1>1 DEF CloseAdmitted
  <1>2. CASE Close(t)
    <2> DEFINE c == target[t]
    <2>1. /\ c \in Callbacks /\ handler[c].callback /\ ref[c] = "live"
          /\ tunHandler = None
          /\ \A u \in Threads : pc[u] \in {"closeWait", "closing"} => u = t
      BY <1>2 DEF Close, Session, HandlerOK
    <2>2. ref'[c] = "released" /\ \A d \in Callbacks \ {c} : ref'[d] = ref[d]
      BY <1>2, <2>1 DEF Close, Deleted
    <2>3. /\ pc'[t] = "stopped" /\ \A u \in Threads \ {t} : pc'[u] = pc[u]
          /\ UNCHANGED <<tunHandler, dropped, target, arg>>
      BY <1>2 DEF Close
    <2>4. \A d \in Callbacks \ {c} : ~BeingClosed(d)
      BY <2>1
    <2>5. LiveRefsOwned'
      BY <2>1, <2>2, <2>3, <2>4
    <2> QED BY <2>1, <2>3, <2>5
  <1>3. CASE UnlockStop(t)
    BY <1>3 DEF UnlockStop
  <1>4. CASE ListenerUp(t)
    <2>1. arg[t] \in Callbacks /\ tunHandler = arg[t]
      BY <1>4 DEF ListenerUp, Session
    <2>2. \A c \in Callbacks : handler'[c].callback = handler[c].callback
      BY <1>4, <2>1 DEF ListenerUp
    <2> QED BY <1>4, <2>1, <2>2 DEF ListenerUp
  <1>5. CASE ListenerFails(t)
    BY <1>5 DEF ListenerFails, Unpublish, Session
  <1>6. CASE Protect(t) \/ Resolve(t)
    BY <1>6 DEF Protect, Resolve, Admit
  <1>7. CASE Protected(t) \/ Resolved(t)
    BY <1>7 DEF Protected, Resolved, Leave
  <1>8. CASE LoadForResolve(t)
    BY <1>8 DEF LoadForResolve
  <1>9. CASE JoinProtect(t) \/ JoinResolve(t)
    BY <1>9 DEF JoinProtect, JoinResolve, Join
  <1> QED BY <1>1, <1>2, <1>3, <1>4, <1>5, <1>6, <1>7, <1>8, <1>9 DEF Running

LEMMA CallOwned ==
  ASSUME Inv, Owned, NEW t \in Threads,
         \/ CallStopTun(t) \/ CallVpnOptions(t) \/ CallProtect(t) \/ CallResolve(t)
         \/ \E c \in Callbacks, fd \in BOOLEAN : CallStartTun(t, c, fd)
  PROVE  Owned'
  <1> USE DEF Inv, TypeOK, LocalsOK, Owned, LiveRefsOwned, BeingClosed, Goto, Load
  <1>1. CASE CallStopTun(t) \/ CallVpnOptions(t) \/ CallProtect(t) \/ CallResolve(t)
    BY <1>1 DEF CallStopTun, CallVpnOptions, CallProtect, CallResolve
  <1>2. CASE \E c \in Callbacks, fd \in BOOLEAN : CallStartTun(t, c, fd)
    BY <1>2 DEF CallStartTun, StartEntry
  <1> QED BY <1>1, <1>2

(* If startTUN has one caller, a JNI reference that is still live is in use, *)
(* in the hands of a start, or about to be released by a close; the only     *)
(* ones lost are those of a start without a descriptor or one that failed.   *)
THEOREM LiveRefsOwnedHolds == OneStarter /\ Spec => []LiveRefsOwned
  <1> SUFFICES ASSUME OneStarter PROVE Spec => []LiveRefsOwned
    OBVIOUS
  <1>1. Init => Owned
    BY DEF Init, Owned, LiveRefsOwned
  <1>2. Inv /\ Session /\ Single /\ Owned /\ [Next]_vars => Owned'
    <2> SUFFICES ASSUME Inv, Session, Single, Owned, [Next]_vars PROVE Owned'
      OBVIOUS
    <2>1. CASE SetupConfig \/ UNCHANGED vars
      BY <2>1 DEF SetupConfig, vars, Owned, LiveRefsOwned, BeingClosed
    <2> QED BY <2>1, LockingOwned, RunningOwned, CallOwned DEF Next
  <1>3. Owned => LiveRefsOwned
    BY DEF Owned
  <1> QED BY InvHolds, SessionHolds, SingleHolds, <1>1, <1>2, <1>3, PTL DEF Spec
=============================================================================
