---------------------------- MODULE TunLifecycle ----------------------------
(* The Android TUN of the Go bridge (core/lib_android.go).                   *)
(*                                                                           *)
(* JVM threads enter through the exported startTUN, stopTun and              *)
(* getAndroidVpnOptions; goroutines of the proxy core enter through the      *)
(* socket hook (protect) and the package-name resolver (resolve), and both   *)
(* call back into the JVM through a JNI global reference that startTUN got   *)
(* from core.cpp and that TunHandler.close gives back.  tunLock serialises   *)
(* the JVM side, a weighted semaphore in each handler separates close from   *)
(* the callbacks.                                                            *)
(*                                                                           *)
(* One TunHandler is made for each callback, so a handler is named by its    *)
(* callback.  A thread's local variables are `target` (the handler it        *)
(* loaded) and `arg`, `hasFd` (the arguments of its startTUN).               *)
EXTENDS Naturals, FiniteSets, Sequences

CONSTANTS
    Threads,      \* every thread that enters the bridge
    Starters,     \* those that may call startTUN
    Stoppers,     \* those that may call stopTun and getAndroidVpnOptions
    Dialers,      \* those that reach the hooks
    Callbacks,    \* the JNI references the run may hand out
    Permits,      \* weight of TunHandler.limit
    ParseMayFail, \* can setupConfig meet a configuration it cannot parse?
    None

ASSUME TunAssumption ==
    /\ Starters \subseteq Threads /\ Stoppers \subseteq Threads
    /\ Dialers \subseteq Threads
    /\ None \notin Threads /\ None \notin Callbacks
    /\ Permits \in Nat \ {0}
    /\ ParseMayFail \in BOOLEAN

VARIABLES
    config,      \* currentConfig # nil
    tunLock,     \* who holds tunLock
    runTime,     \* runTime # nil
    tunHandler,  \* the atomic pointer tunHandler
    hook,        \* process.DefaultPackageNameResolver # nil
    handler,     \* the fields callback and listener of each TunHandler
    limit,       \* the semaphore of each TunHandler
    ref,         \* the JNI global reference behind each callback
    dropped,     \* references whose startTUN returned without owning them
    pc, target, arg, hasFd

vars == <<config, tunLock, runTime, tunHandler, hook, handler, limit, ref,
          dropped, pc, target, arg, hasFd>>

locals == <<pc, target, arg, hasFd>>

Locations == {"idle", "stopLock", "closeWait", "closing", "stopped",
              "startLock", "starting", "optionsLock",
              "protectJoin", "protectWait", "protecting",
              "hooked", "resolveJoin", "resolveWait", "resolving"}

NewHandler == [callback |-> FALSE, listener |-> FALSE]
FreeLimit  == [users |-> {}, closer |-> None, queue |-> <<>>]

Limits == [users : SUBSET Threads, closer : Threads \cup {None},
           queue : Seq(Threads)]

TypeOK ==
    /\ config \in BOOLEAN /\ runTime \in BOOLEAN /\ hook \in BOOLEAN
    /\ tunLock \in Threads \cup {None}
    /\ tunHandler \in Callbacks \cup {None}
    /\ handler \in [Callbacks -> [callback : BOOLEAN, listener : BOOLEAN]]
    /\ limit \in [Callbacks -> Limits]
    /\ ref \in [Callbacks -> {"unused", "live", "released"}]
    /\ \A c \in Callbacks : limit[c].closer # None => limit[c].users = {}
    /\ dropped \subseteq Callbacks
    /\ pc \in [Threads -> Locations]
    /\ target \in [Threads -> Callbacks \cup {None}]
    /\ arg \in [Threads -> Callbacks \cup {None}]
    /\ hasFd \in [Threads -> BOOLEAN]

Init ==
    /\ config \in BOOLEAN
    /\ ParseMayFail \/ config
    /\ tunLock = None /\ runTime = FALSE /\ tunHandler = None /\ hook = FALSE
    /\ handler = [c \in Callbacks |-> NewHandler]
    /\ limit = [c \in Callbacks |-> FreeLimit]
    /\ ref = [c \in Callbacks |-> "unused"]
    /\ dropped = {}
    /\ pc = [t \in Threads |-> "idle"]
    /\ target = [t \in Threads |-> None]
    /\ arg = [t \in Threads |-> None]
    /\ hasFd = [t \in Threads |-> FALSE]

Goto(t, l)   == pc' = [pc EXCEPT ![t] = l]
Load(t, c)   == target' = [target EXCEPT ![t] = c]

(* A thread returns to its caller: its locals die. *)
Return(t) ==
    /\ Goto(t, "idle")
    /\ Load(t, None)
    /\ arg' = [arg EXCEPT ![t] = None]
    /\ hasFd' = [hasFd EXCEPT ![t] = FALSE]

-----------------------------------------------------------------------------
(* semaphore.Weighted serves its waiters in order: a thread joins the queue  *)
(* and is admitted from its head when its weight fits.                       *)

Enqueue(t, c) == limit' = [limit EXCEPT ![c].queue = Append(@, t)]

(* The head of the queue gets its permits and goes on, with one or with all. *)
Enter(t, c) ==
    limit' = [limit EXCEPT ![c].users = @ \cup {t}, ![c].queue = Tail(@)]
EnterAll(t, c) ==
    limit' = [limit EXCEPT ![c].closer = t, ![c].queue = Tail(@)]

(* Mutant: a thread that comes back from the JVM keeps its permit. *)
KeepPermit(t, c) == UNCHANGED limit

(* It finds nothing to do: its permit is granted and given back at once. *)
Skip(t, c) == limit' = [limit EXCEPT ![c].queue = Tail(@)]

Release(t, c) == limit' = [limit EXCEPT ![c].users = @ \ {t}]
ReleaseAll(c) == limit' = [limit EXCEPT ![c].closer = None]

First(t, c) == limit[c].queue # <<>> /\ Head(limit[c].queue) = t

(* Mutants: one permit granted during close; close asks for one permit only. *)
FitsOneDuringClose(c) == Cardinality(limit[c].users) < Permits
FitsAllAmongUsers(c) == limit[c].closer = None

FitsOne(c) == limit[c].closer = None /\ Cardinality(limit[c].users) < Permits

FitsAll(c) == limit[c].closer = None /\ limit[c].users = {}

Unlock == tunLock' = None

-----------------------------------------------------------------------------
(* handleStopTun, also the first call of handleStartTun. *)

CallStopTun(t) ==
    /\ pc[t] = "idle" /\ t \in Stoppers
    /\ Goto(t, "stopLock")
    /\ UNCHANGED <<config, tunLock, runTime, tunHandler, hook, handler, limit,
                   ref, dropped, target, arg, hasFd>>

(* tunLock.Lock, runTime = nil, Swap(nil); a handler's close joins the queue. *)
LockStop(t) ==
    /\ pc[t] = "stopLock" /\ tunLock = None
    /\ tunLock' = t
    /\ runTime' = FALSE
    /\ tunHandler' = None
    /\ Load(t, tunHandler)
    /\ IF tunHandler = None
         THEN Goto(t, "stopped") /\ UNCHANGED limit
         ELSE Goto(t, "closeWait") /\ Enqueue(t, tunHandler)
    /\ UNCHANGED <<config, hook, handler, ref, dropped, arg, hasFd>>

(* close gets all the permits and removes the resolver hook. *)
CloseAdmitted(t) ==
    LET c == target[t] IN
    /\ pc[t] = "closeWait" /\ First(t, c) /\ FitsAll(c)
    /\ EnterAll(t, c)
    /\ hook' = FALSE
    /\ Goto(t, "closing")
    /\ UNCHANGED <<config, tunLock, runTime, tunHandler, handler, ref, dropped,
                   target, arg, hasFd>>

(* Mutant: close forgets releaseObject. *)
NotDeleted(r) == r

(* DeleteGlobalRef on a reference already deleted is outside TypeOK. *)
Deleted(r) == IF r = "live" THEN "released" ELSE "deleted twice"

(* close closes the listener, releases the callback and drops the permits. *)
Close(t) ==
    LET c == target[t] IN
    /\ pc[t] = "closing"
    /\ ref' = IF handler[c].callback THEN [ref EXCEPT ![c] = Deleted(@)] ELSE ref
    /\ handler' = [handler EXCEPT ![c] = NewHandler]
    /\ ReleaseAll(c)
    /\ Goto(t, "stopped")
    /\ UNCHANGED <<config, tunLock, runTime, tunHandler, hook, dropped, target,
                   arg, hasFd>>

(* handleStopTun unlocks and returns, to its caller or into handleStartTun. *)
UnlockStop(t) ==
    /\ pc[t] = "stopped"
    /\ Unlock
    /\ IF arg[t] = None
         THEN Return(t)
         ELSE Goto(t, "startLock") /\ Load(t, None) /\ UNCHANGED <<arg, hasFd>>
    /\ UNCHANGED <<config, runTime, tunHandler, hook, handler, limit, ref, dropped>>

-----------------------------------------------------------------------------
(* handleStartTun. *)

(* Mutant: handleStartTun does not stop the running TUN first. *)
StartAtLock == "startLock"

StartEntry == "stopLock"

(* core.cpp makes a global reference and startTUN calls handleStopTun first. *)
CallStartTun(t, c, fd) ==
    /\ pc[t] = "idle" /\ t \in Starters
    /\ ref[c] = "unused"
    /\ ref' = [ref EXCEPT ![c] = "live"]
    /\ arg' = [arg EXCEPT ![t] = c]
    /\ hasFd' = [hasFd EXCEPT ![t] = fd]
    /\ Goto(t, StartEntry)
    /\ UNCHANGED <<config, tunLock, runTime, tunHandler, hook, handler, limit,
                   dropped, target>>

(* fd = 0: only the start time is recorded, nobody keeps the callback. *)
StartWithoutFd(t) ==
    /\ pc[t] = "startLock" /\ tunLock = None
    /\ ~hasFd[t]
    /\ runTime' = TRUE
    /\ dropped' = dropped \cup {arg[t]}
    /\ Return(t)
    /\ UNCHANGED <<config, tunLock, tunHandler, hook, handler, limit, ref>>

(* No configuration: handleStopTun is called with tunLock held. *)
StartUnconfigured(t) ==
    /\ pc[t] = "startLock" /\ tunLock = None
    /\ hasFd[t] /\ ~config
    /\ tunLock' = t
    /\ runTime' = TRUE
    /\ Goto(t, "stopLock")
    /\ UNCHANGED <<config, tunHandler, hook, handler, limit, ref, dropped,
                   target, arg, hasFd>>

(* The handler and the hook are published before the listener is opened. *)
StartPublish(t) ==
    LET c == arg[t] IN
    /\ pc[t] = "startLock" /\ tunLock = None
    /\ hasFd[t] /\ config
    /\ tunLock' = t
    /\ runTime' = TRUE
    /\ handler' = [handler EXCEPT ![c].callback = TRUE]
    /\ tunHandler' = c
    /\ hook' = TRUE
    /\ Goto(t, "starting")
    /\ UNCHANGED <<config, limit, ref, dropped, target, arg, hasFd>>

ListenerUp(t) ==
    /\ pc[t] = "starting"
    /\ handler' = [handler EXCEPT ![arg[t]].listener = TRUE]
    /\ Unlock
    /\ Return(t)
    /\ UNCHANGED <<config, runTime, tunHandler, hook, limit, ref, dropped>>

(* Mutant: a failed start forgets removeTunHook. *)
UnpublishHandler == tunHandler' = None /\ UNCHANGED hook

Unpublish == tunHandler' = None /\ hook' = FALSE

(* tun.Start failed: hook and handler go, the callback is not released. *)
ListenerFails(t) ==
    /\ pc[t] = "starting"
    /\ Unpublish
    /\ dropped' = dropped \cup {arg[t]}
    /\ Unlock
    /\ Return(t)
    /\ UNCHANGED <<config, runTime, handler, limit, ref>>

-----------------------------------------------------------------------------
(* handleGetAndroidVpnOptions. *)

CallVpnOptions(t) ==
    /\ pc[t] = "idle" /\ t \in Stoppers
    /\ Goto(t, "optionsLock")
    /\ UNCHANGED <<config, tunLock, runTime, tunHandler, hook, handler, limit,
                   ref, dropped, target, arg, hasFd>>

VpnOptions(t) ==
    /\ pc[t] = "optionsLock" /\ tunLock = None
    /\ Return(t)
    /\ UNCHANGED <<config, tunLock, runTime, tunHandler, hook, handler, limit,
                   ref, dropped>>

-----------------------------------------------------------------------------
(* The socket hook: handleProtect. *)

CallProtect(t) ==
    /\ pc[t] = "idle" /\ t \in Dialers
    /\ tunHandler # None
    /\ Load(t, tunHandler)
    /\ Goto(t, "protectJoin")
    /\ UNCHANGED <<config, tunLock, runTime, tunHandler, hook, handler, limit,
                   ref, dropped, arg, hasFd>>

(* The handler loaded may have been closed before a permit is asked of it. *)
Join(t, from, to) ==
    /\ pc[t] = from
    /\ Enqueue(t, target[t])
    /\ Goto(t, to)
    /\ UNCHANGED <<config, tunLock, runTime, tunHandler, hook, handler, ref,
                   dropped, target, arg, hasFd>>

JoinProtect(t) == Join(t, "protectJoin", "protectWait")

(* A thread admitted with one permit enters the JVM if `works`, else leaves. *)
Admit(t, works, inside) ==
    LET c == target[t] IN
    /\ First(t, c) /\ FitsOne(c)
    /\ IF works
         THEN Enter(t, c) /\ Goto(t, inside) /\ UNCHANGED <<target, arg, hasFd>>
         ELSE Skip(t, c) /\ Return(t)
    /\ UNCHANGED <<config, tunLock, runTime, tunHandler, hook, handler, ref, dropped>>

Leave(t) ==
    /\ Release(t, target[t])
    /\ Return(t)
    /\ UNCHANGED <<config, tunLock, runTime, tunHandler, hook, handler, ref, dropped>>

Protect(t) ==
    /\ pc[t] = "protectWait"
    /\ Admit(t, handler[target[t]].callback, "protecting")

Protected(t) == pc[t] = "protecting" /\ Leave(t)

-----------------------------------------------------------------------------
(* The package-name resolver: the hook is read, later the handler loaded. *)

CallResolve(t) ==
    /\ pc[t] = "idle" /\ t \in Dialers
    /\ hook
    /\ Goto(t, "hooked")
    /\ UNCHANGED <<config, tunLock, runTime, tunHandler, hook, handler, limit,
                   ref, dropped, target, arg, hasFd>>

LoadForResolve(t) ==
    /\ pc[t] = "hooked"
    /\ IF tunHandler = None
         THEN Return(t)
         ELSE /\ Load(t, tunHandler) /\ Goto(t, "resolveJoin")
              /\ UNCHANGED <<arg, hasFd>>
    /\ UNCHANGED <<config, tunLock, runTime, tunHandler, hook, handler, limit,
                   ref, dropped>>

JoinResolve(t) == Join(t, "resolveJoin", "resolveWait")

Resolve(t) ==
    /\ pc[t] = "resolveWait"
    /\ Admit(t, handler[target[t]].listener, "resolving")

Resolved(t) == pc[t] = "resolving" /\ Leave(t)

-----------------------------------------------------------------------------
(* setupConfig as this component sees it: ParseRawConfig's result is stored  *)
(* in currentConfig even when it is an error (core/common.go).               *)

SetupConfig ==
    /\ \/ config' = TRUE
       \/ ParseMayFail /\ config' = FALSE
    /\ UNCHANGED <<tunLock, runTime, tunHandler, hook, handler, limit, ref,
                   dropped, pc, target, arg, hasFd>>

Locking(t) ==
    \/ LockStop(t) \/ StartWithoutFd(t) \/ StartUnconfigured(t)
    \/ StartPublish(t) \/ VpnOptions(t)

Running(t) ==
    \/ CloseAdmitted(t) \/ Close(t) \/ UnlockStop(t)
    \/ ListenerUp(t) \/ ListenerFails(t)
    \/ JoinProtect(t) \/ Protect(t) \/ Protected(t)
    \/ LoadForResolve(t) \/ JoinResolve(t) \/ Resolve(t) \/ Resolved(t)

Next ==
    \/ SetupConfig
    \/ \E t \in Threads :
         \/ CallStopTun(t) \/ CallVpnOptions(t)
         \/ \E c \in Callbacks, fd \in BOOLEAN : CallStartTun(t, c, fd)
         \/ CallProtect(t) \/ CallResolve(t)
         \/ Locking(t) \/ Running(t)

Spec == Init /\ [][Next]_vars

(* Nobody is forced to call; a call once made is run by the scheduler, a     *)
(* sync.Mutex does not starve a waiter and the JVM's callbacks return.       *)
FairSpec ==
    /\ Spec
    /\ \A t \in Threads : SF_vars(Locking(t)) /\ WF_vars(Running(t))

-----------------------------------------------------------------------------
InCallback(t) == pc[t] \in {"protecting", "resolving"}

BeingClosed(c) == \E t \in Threads :
    pc[t] \in {"closeWait", "closing"} /\ target[t] = c

Starting(t) == arg[t] # None

(* handleProtect and handleResolveProcess never enter the JVM through a      *)
(* reference that close has given back (lib_android.go:39-85).               *)
NoUseAfterRelease ==
    \A t \in Threads : InCallback(t) => ref[target[t]] = "live"

(* While nobody holds tunLock the resolver hook is installed exactly when a  *)
(* handler is published, and then its listener is open and the start time is *)
(* set: neither an early return nor a failed start leaves half a session.    *)
SessionWhole ==
    tunLock = None =>
        /\ hook <=> tunHandler # None
        /\ tunHandler # None => handler[tunHandler].listener /\ runTime

(* With one caller of startTUN at a time every live reference has an owner   *)
(* that will release it, except those of a start that failed or had no fd.   *)
LiveRefsOwned ==
    \A c \in Callbacks : ref[c] = "live" =>
        \/ c = tunHandler \/ BeingClosed(c) \/ c \in dropped
        \/ \E t \in Threads : arg[t] = c

(* An open TUN listener is the published one or is being closed: none is     *)
(* left reading the tunnel's descriptor behind tunHandler's back.            *)
OneTunnel ==
    \A c \in Callbacks : handler[c].listener => c = tunHandler \/ BeingClosed(c)

(* The bridge keeps its promise to the JVM: every step is a grant, a use, a  *)
(* return or a release that CallbackLease allows.                            *)
Lease == INSTANCE CallbackLease WITH
    state <- ref,
    users <- [c \in Callbacks |->
                 {t \in Threads : InCallback(t) /\ target[t] = c}]

ImplementsLease == Lease!Spec

(* handleStartTun has called handleStopTun with tunLock held, because no      *)
(* configuration is loaded: the mutex is not reentrant, and the bridge stays *)
(* locked for good.                                                          *)
SelfLocked == \E t \in Threads : pc[t] = "stopLock" /\ tunLock = t

(* stopTun returns, and the tunnel that was open when it was called is       *)
(* closed, however many callbacks are in flight and whatever fails, with one *)
(* exception: a start with a descriptor and without a configuration, which   *)
(* locks itself out and everybody behind it.                                 *)
StopReturns ==
    \A t \in Threads : pc[t] = "stopLock" /\ ~Starting(t) ~> pc[t] = "idle" \/ SelfLocked

StopClosesTunnel ==
    \A t \in Threads, c \in Callbacks :
        pc[t] = "stopLock" /\ handler[c].listener ~> ~handler[c].listener \/ SelfLocked

(* A socket waiting to be protected is served even if close comes first, and *)
(* even when the bridge has locked itself out.                               *)
ProtectReturns ==
    \A t \in Threads : pc[t] \in {"protectJoin", "hooked"} ~> pc[t] = "idle"

(* The three together: lock and permits are always given back, so that a     *)
(* stop takes effect while sockets are protected, and the other way round.   *)
CallsReturn == StopReturns /\ StopClosesTunnel /\ ProtectReturns

=============================================================================
