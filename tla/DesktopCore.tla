---------------------------- MODULE DesktopCore ----------------------------
(* The core as a child process of the desktop application                    *)
(* (lib/clash/service.dart, lib/clash/interface.dart, core/server.go and, on *)
(* Windows, the helper service that starts the core with more rights).       *)
(*                                                                           *)
(* The application listens, starts a core, and the core dials in.  A restart *)
(* closes the old connection, stops the old core, starts a new one and waits *)
(* for its connection.  Dart runs one piece of code at a time, so an action  *)
(* is what runs between two awaits; the accept loop of each listening socket *)
(* and every call to the core run between the steps of a restart.            *)
(*                                                                           *)
(* The connection is handed over in socketCompleter, a future that the code  *)
(* completes once and replaces by a new object.  Who waits on an object that *)
(* is replaced before it completes waits until its own timeout.              *)
EXTENDS Naturals, Sequences, FiniteSets

CONSTANTS
    Restarts, \* calls of reStart
    Calls,    \* calls of the core
    MaxCores, \* core processes that may be started in a run
    Crashes,  \* cores that may die by themselves in a run
    Helpers,  \* {TRUE} on Windows, which has the helper service
    None

ASSUME DesktopAssumption ==
    /\ MaxCores \in Nat /\ Crashes \in Nat /\ Helpers \subseteq BOOLEAN
    /\ None \notin Restarts \cup (1 .. MaxCores)

Cores == 1 .. MaxCores

VARIABLES
    last,     \* None, or the restart whose completer is _restartCompleter
    prev,     \* of each restart: the one it waits for
    pc,       \* of each restart: the await it is at
    waits,    \* the future that the running restart waits on
    sc,       \* the core whose socket socketCompleter holds, or None
    process,  \* the core started directly, or None
    child,    \* the core in the slot of the helper service, or None
    server,   \* the listening socket: "unbound", "open", "closed", "failed"
    gen,      \* the number of listening sockets made so far
    backlog,  \* connections that the accept loop has not taken
    hand,     \* of each accept loop: the connection it is about to hand over
    born,     \* cores started so far
    up,       \* cores that run
    dying,    \* cores that were killed
    addr,     \* of each core: the listening socket it was told to dial
    link,     \* of each core: its connection, as the application left it
    crashed,  \* crashes so far
    failed,   \* has the helper failed to stop a core?
    helper,   \* does the application run on Windows?
    exit,     \* handleExit: "no", "closing", "down" or "gone"
    call,     \* of each call of the core: where it is
    to,       \* of each call: the core its message was written to
    ran       \* calls that a core has run

restarting == <<last, prev, pc, waits>>
listening == <<server, gen, backlog, hand>>
processes == <<process, child, born, up, dying, addr, crashed, failed>>
app == <<helper, exit>>
calling == <<call, to, ran>>
vars == <<restarting, sc, listening, processes, link, app, calling>>

Running == {"closing", "stopping", "killing", "starting", "direct", "rebind",
            "retry", "ready0", "ready1", "ready2"}

TypeOK ==
    /\ last \in Restarts \cup {None}
    /\ prev \in [Restarts -> Restarts \cup {None}]
    /\ pc \in [Restarts -> Running \cup {"idle", "queued", "done"}]
    /\ waits \in {"pending", "woken", "stale"}
    /\ sc \in Cores \cup {None}
    /\ process \in Cores \cup {None} /\ child \in Cores \cup {None}
    /\ server \in {"unbound", "open", "closed", "failed"}
    /\ gen \in Nat /\ backlog \in Seq(Cores)
    /\ hand \in [0 .. MaxCores -> Cores \cup {None}]
    /\ born \in 0 .. MaxCores
    /\ up \subseteq Cores /\ dying \subseteq Cores
    /\ addr \in [Cores -> Nat]
    /\ link \in [Cores -> {"new", "backlog", "hand", "open", "shut", "refused"}]
    /\ crashed \in Nat /\ failed \in BOOLEAN
    /\ helper \in Helpers /\ exit \in {"no", "closing", "down", "gone"}
    /\ call \in [Calls -> {"idle", "waiting", "stale", "sent",
                           "answer", "default", "error"}]
    /\ to \in [Calls -> Cores \cup {None}] /\ ran \subseteq Calls
    /\ \A k \in Calls : call[k] = "waiting" => sc = None

Init ==
    /\ last = None /\ prev = [r \in Restarts |-> None]
    /\ pc = [r \in Restarts |-> "idle"] /\ waits = "pending"
    /\ sc = None /\ process = None /\ child = None
    /\ server = "unbound" /\ gen = 0 /\ backlog = <<>>
    /\ hand = [g \in 0 .. MaxCores |-> None]
    /\ born = 0 /\ up = {} /\ dying = {} /\ crashed = 0 /\ failed = FALSE
    /\ addr = [c \in Cores |-> 0] /\ link = [c \in Cores |-> "new"]
    /\ helper \in Helpers /\ exit = "no"
    /\ call = [k \in Calls |-> "idle"] /\ to = [k \in Calls |-> None] /\ ran = {}

-----------------------------------------------------------------------------
(* The completer *)

(* socketCompleter = Completer(): the calls that wait on the old object are  *)
(* left to their timeout.                                                    *)
Orphaned == [k \in Calls |-> IF call[k] = "waiting" THEN "stale" ELSE call[k]]

Replace == sc' = None /\ call' = Orphaned /\ UNCHANGED to

(* socketCompleter.complete(socket): all who wait go on with this core. *)
Complete(c) ==
    /\ sc' = c
    /\ link' = [link EXCEPT ![c] = "open"]
    /\ waits' = IF waits = "pending" THEN "woken" ELSE waits
    /\ call' = [k \in Calls |-> IF call[k] = "waiting" THEN "sent" ELSE call[k]]
    /\ to' = [k \in Calls |-> IF call[k] = "waiting" THEN c ELSE to[k]]

(* The accept loop ended the wait for a close: it replaces the completer and *)
(* completes the new one.  Nobody waits on that yet.                         *)
Supplant(c) ==
    /\ sc' = c
    /\ link' = [link EXCEPT ![c] = "open"]
    /\ waits' = IF sc = None /\ waits = "pending" THEN "stale" ELSE waits
    /\ call' = Orphaned /\ UNCHANGED to

(* The first half of _destroySocket, up to the await of the close. *)
Shut == link' = IF sc = None THEN link ELSE [link EXCEPT ![sc] = "shut"]

-----------------------------------------------------------------------------
(* The listening socket and its accept loop (_initServer) *)

Bind ==
    /\ exit # "gone" /\ server = "unbound"
    /\ server' \in {"open", "failed"}
    /\ UNCHANGED <<restarting, sc, gen, backlog, hand, processes, link, app, calling>>

(* Mutant: the connection there is stays open behind the new one. *)
AcceptBeside ==
    /\ server = "open" /\ backlog # <<>> /\ hand[gen] = None
    /\ backlog' = Tail(backlog)
    /\ Complete(Head(backlog))
    /\ UNCHANGED <<last, prev, pc, server, gen, hand, processes, app, ran>>

(* A connection arrives in the loop: it becomes the connection at once, or   *)
(* the loop first closes the one there is.                                   *)
Accept ==
    /\ server = "open" /\ backlog # <<>> /\ hand[gen] = None
    /\ backlog' = Tail(backlog)
    /\ LET c == Head(backlog) IN
        \/ sc = None /\ Complete(c) /\ UNCHANGED hand
        \/ /\ sc # None
           /\ link' = [link EXCEPT ![sc] = "shut", ![c] = "hand"]
           /\ hand' = [hand EXCEPT ![gen] = c]
           /\ UNCHANGED <<sc, waits, call, to>>
    /\ UNCHANGED <<last, prev, pc, server, gen, processes, app, ran>>

HandOver ==
    /\ \E g \in 0 .. gen :
        /\ hand[g] # None
        /\ Supplant(hand[g])
        /\ hand' = [hand EXCEPT ![g] = None]
    /\ UNCHANGED <<last, prev, pc, server, gen, backlog, processes, app, ran>>

-----------------------------------------------------------------------------
(* Restarts *)

(* Mutant: a restart does not wait for the one before it. *)
reStartUnchained(r) ==
    /\ exit # "gone" /\ pc[r] = "idle"
    /\ last' = r
    /\ pc' = [pc EXCEPT ![r] = "queued"]
    /\ UNCHANGED <<prev, waits, sc, listening, processes, link, app, calling>>

reStart(r) ==
    /\ exit # "gone" /\ pc[r] = "idle"
    /\ last' = r
    /\ prev' = [prev EXCEPT ![r] = last]
    /\ pc' = [pc EXCEPT ![r] = "queued"]
    /\ UNCHANGED <<waits, sc, listening, processes, link, app, calling>>

Go(r, p) == pc' = [pc EXCEPT ![r] = p]

(* The finally of reStart. *)
Finish(r) ==
    /\ Go(r, "done")
    /\ last' = IF last = r THEN None ELSE last

(* The previous restart has returned: _doRestart begins with _destroySocket. *)
Begin(r) ==
    /\ exit # "gone" /\ pc[r] = "queued"
    /\ prev[r] # None => pc[prev[r]] = "done"
    /\ Go(r, IF sc = None THEN "stopping" ELSE "closing") /\ Shut
    /\ UNCHANGED <<last, prev, waits, sc, listening, processes, app, calling>>

Closed(r) ==
    /\ exit # "gone" /\ pc[r] = "closing"
    /\ Go(r, "stopping") /\ Replace
    /\ UNCHANGED <<last, prev, waits, listening, processes, link, app, ran>>

(* core.stop of the helper service: it kills its child and waits for it. *)
HelperStops == child' = None /\ up' = up \ {child} /\ UNCHANGED failed

HelperFails == failed' = (failed \/ child # None) /\ UNCHANGED <<child, up>>

Stop(r) ==
    /\ exit # "gone" /\ pc[r] = "stopping"
    /\ \/ helper /\ (HelperStops \/ HelperFails)
       \/ ~helper /\ UNCHANGED <<child, up, failed>>
    /\ dying' = dying \cup ({process} \ {None})
    /\ Go(r, "killing")
    /\ UNCHANGED <<last, prev, waits, sc, listening, process, born, addr, crashed,
                   link, app, calling>>

(* The core has exited, or two seconds are over. *)
Killed(r) ==
    /\ exit # "gone" /\ pc[r] = "killing"
    /\ process' = None
    /\ Go(r, "starting") /\ Replace
    /\ UNCHANGED <<last, prev, waits, listening, child, born, up, dying, addr,
                   crashed, failed, link, app, ran>>

(* A new core that will dial the present listening socket; the restart waits *)
(* on the completer as it is now.                                            *)
Spawn(running) ==
    /\ born < MaxCores /\ born' = born + 1
    /\ up' = running \cup {born'}
    /\ addr' = [addr EXCEPT ![born'] = gen]
    /\ waits' = IF sc = None THEN "pending" ELSE "woken"

(* core.start of the helper service kills its child and starts another.  The *)
(* service may not be there, and its answer may be lost: the restart then    *)
(* starts a core directly.                                                   *)
HelperStart(r) ==
    /\ exit # "gone" /\ pc[r] = "starting" /\ helper /\ server = "open"
    /\ \/ /\ Spawn(up \ {child}) /\ child' = born'
          /\ Go(r, "ready0") \/ Go(r, "direct")
       \/ Go(r, "direct") /\ UNCHANGED <<child, born, up, addr, waits>>
    /\ UNCHANGED <<last, prev, sc, listening, process, dying, crashed, failed, link,
                   app, calling>>

(* _startCoreDirectly, the first time and the second; Process.start throws   *)
(* when there is no program to start.                                        *)
Start(r) ==
    /\ exit # "gone"
    /\ \/ pc[r] = "starting" /\ ~helper /\ server = "open"
       \/ pc[r] \in {"direct", "retry"}
    /\ \/ /\ Spawn(up) /\ process' = born' /\ UNCHANGED last
          /\ Go(r, IF pc[r] = "retry" THEN "ready2" ELSE "ready1")
       \/ Finish(r) /\ UNCHANGED <<born, up, addr, waits, process>>
    /\ UNCHANGED <<prev, sc, listening, child, dying, crashed, failed, link, app,
                   calling>>

Ready(r) ==
    /\ exit # "gone" /\ pc[r] \in {"ready0", "ready1", "ready2"}
    /\ waits = "woken"
    /\ Finish(r)
    /\ UNCHANGED <<prev, waits, sc, listening, processes, link, app, calling>>

Timeout(r) ==
    /\ exit # "gone" /\ pc[r] \in {"ready0", "ready2"} /\ waits # "woken"
    /\ Finish(r)
    /\ UNCHANGED <<prev, waits, sc, listening, processes, link, app, calling>>

Backlog == {backlog[i] : i \in DOMAIN backlog}

(* The core did not connect in five seconds: kill it and begin to close the  *)
(* listening socket, which takes the connections in its backlog along.       *)
FirstTimeout(r) ==
    /\ exit # "gone" /\ pc[r] = "ready1" /\ waits # "woken"
    /\ dying' = dying \cup ({process} \ {None}) /\ process' = None
    /\ server' = "closed" /\ backlog' = <<>>
    /\ link' = [c \in Cores |-> IF c \in Backlog THEN "refused" ELSE link[c]]
    /\ Go(r, "rebind")
    /\ UNCHANGED <<last, prev, waits, sc, gen, hand, child, born, up, addr, crashed,
                   failed, app, calling>>

(* The rest of _rebindTransport: a new path, and a bind nobody waits for. *)
Rebind(r) ==
    /\ exit # "gone" /\ pc[r] = "rebind"
    /\ server' = "unbound" /\ gen' = gen + 1
    /\ Go(r, "retry")
    /\ UNCHANGED <<last, prev, waits, sc, backlog, hand, processes, link, app, calling>>

-----------------------------------------------------------------------------
(* The core process (main.go, server.go) *)

Dial(c) ==
    /\ c \in up /\ link[c] = "new"
    /\ IF server = "open" /\ addr[c] = gen /\ exit # "gone"
       THEN link' = [link EXCEPT ![c] = "backlog"] /\ backlog' = Append(backlog, c)
       ELSE link' = [link EXCEPT ![c] = "refused"] /\ UNCHANGED backlog
    /\ UNCHANGED <<restarting, sc, server, gen, hand, processes, app, calling>>

(* Killed, refused, or at the end of what it reads. *)
CoreExits(c) ==
    /\ c \in up /\ (c \in dying \/ link[c] \in {"shut", "refused"})
    /\ up' = up \ {c}
    /\ UNCHANGED <<restarting, sc, listening, process, child, born, dying, addr,
                   crashed, failed, link, app, calling>>

CoreCrashes(c) ==
    /\ c \in up /\ crashed < Crashes
    /\ up' = up \ {c} /\ crashed' = crashed + 1
    /\ UNCHANGED <<restarting, sc, listening, process, child, born, dying, addr,
                   failed, link, app, calling>>

-----------------------------------------------------------------------------
(* The end of the application *)

Shutdown ==
    /\ exit = "no"
    /\ \/ helper /\ (HelperStops \/ HelperFails)
       \/ ~helper /\ UNCHANGED <<child, up, failed>>
    /\ Shut /\ exit' = "closing"
    /\ UNCHANGED <<restarting, sc, listening, process, born, dying, addr, crashed,
                   helper, calling>>

ShutdownKills ==
    /\ exit = "closing" /\ exit' = "down"
    /\ Replace
    /\ dying' = dying \cup ({process} \ {None}) /\ process' = None
    /\ UNCHANGED <<restarting, listening, child, born, up, addr, crashed, failed,
                   link, helper, ran>>

(* system.exit at the end of handleExit, or the application is killed: its   *)
(* sockets close and its memory is gone.                                     *)
AppEnds ==
    /\ exit # "gone" /\ exit' = "gone"
    /\ link' = [c \in Cores |-> IF link[c] \in {"backlog", "hand", "open"}
                                THEN "shut" ELSE link[c]]
    /\ last' = None /\ prev' = [r \in Restarts |-> None] /\ waits' = "pending"
    /\ pc' = [r \in Restarts |-> "idle"] /\ sc' = None /\ process' = None
    /\ server' = "closed" /\ gen' = 0 /\ backlog' = <<>>
    /\ hand' = [g \in 0 .. MaxCores |-> None]
    /\ UNCHANGED <<child, born, up, dying, addr, crashed, failed, helper, calling>>

-----------------------------------------------------------------------------
(* Calls (invoke, sendMessage, handleResult, safeFuture) *)

Become(k, s) == call' = [call EXCEPT ![k] = s]

Invoke(k) ==
    /\ exit # "gone" /\ call[k] = "idle"
    /\ \/ exit # "no" /\ Become(k, "sent") /\ UNCHANGED to
       \/ exit = "no" /\ sc = None /\ Become(k, "waiting") /\ UNCHANGED to
       \/ exit = "no" /\ sc # None /\ Become(k, "sent") /\ to' = [to EXCEPT ![k] = sc]
    /\ UNCHANGED <<restarting, sc, listening, processes, link, app, ran>>

(* Mutant: a message that was written may still end in an error. *)
SendFailsLate(k) ==
    /\ exit # "gone" /\ call[k] \in {"waiting", "stale", "sent"}
    /\ Become(k, "error")
    /\ UNCHANGED <<restarting, sc, listening, processes, link, app, to, ran>>

(* No connection in five seconds: the entry is removed, the error goes up. *)
SendFails(k) ==
    /\ exit # "gone" /\ call[k] \in {"waiting", "stale"}
    /\ Become(k, "error")
    /\ UNCHANGED <<restarting, sc, listening, processes, link, app, to, ran>>

(* handleAction runs in a goroutine of its own, also for a caller that no    *)
(* longer waits.                                                             *)
Run(k) ==
    /\ call[k] \in {"sent", "default"} /\ to[k] # None /\ k \notin ran
    /\ to[k] \in up
    /\ ran' = ran \cup {k}
    /\ UNCHANGED <<restarting, sc, listening, processes, link, app, call, to>>

(* The answer completes the completer of the call's id. *)
Answer(k) ==
    /\ exit # "gone" /\ call[k] = "sent" /\ k \in ran
    /\ Become(k, "answer")
    /\ UNCHANGED <<restarting, sc, listening, processes, link, app, to, ran>>

GiveDefault(k) ==
    /\ exit # "gone" /\ call[k] = "sent"
    /\ Become(k, "default")
    /\ UNCHANGED <<restarting, sc, listening, processes, link, app, to, ran>>

-----------------------------------------------------------------------------
Restart(r) == Begin(r) \/ Closed(r) \/ Stop(r) \/ Killed(r) \/ HelperStart(r)
              \/ Start(r) \/ Ready(r) \/ Timeout(r) \/ FirstTimeout(r) \/ Rebind(r)

Core(c) == Dial(c) \/ CoreExits(c)

Exit == Shutdown \/ ShutdownKills \/ AppEnds

Call(k) == SendFails(k) \/ Answer(k) \/ GiveDefault(k)

Loop == Accept \/ HandOver

Next ==
    \/ Bind \/ Loop \/ Exit
    \/ \E r \in Restarts : reStart(r) \/ Restart(r)
    \/ \E c \in Cores : Core(c) \/ CoreCrashes(c)
    \/ \E k \in Calls : Invoke(k) \/ Run(k) \/ Call(k)

Spec == Init /\ [][Next]_vars

(* The event loop of Dart runs every continuation whose future is complete   *)
(* and every timer; a core that is told to end ends, and dials when it       *)
(* begins.  Nothing says that the application ends, or that a core answers.  *)
Fairness ==
    /\ WF_vars(Bind) /\ WF_vars(Loop)
    /\ \A r \in Restarts : WF_vars(Restart(r))
    /\ \A c \in Cores : WF_vars(Core(c))
    /\ \A k \in Calls : WF_vars(Call(k))

FairSpec == Spec /\ Fairness

-----------------------------------------------------------------------------
(* Properties *)

(* The restarts form a chain: whatever the order of their calls and returns, *)
(* and when one of them throws, no two are inside _doRestart at once.        *)
OneRestart ==
    \A r, s \in Restarts : pc[r] \in Running /\ pc[s] \in Running => r = s

(* Every reStart returns, unless the listening socket could not be bound:    *)
(* then serverCompleter never completes, and the restart and all behind it   *)
(* wait for ever.  (The application may also end.)                           *)
RestartsReturn ==
    <>[](\/ \A r \in Restarts : pc[r] \in {"idle", "done"}
         \/ server = "failed" \/ exit = "gone")

(* In the end at most one core runs, and it is the one the application talks *)
(* to: late connections of killed cores, restarts that overlap with the      *)
(* accept loop and lost answers of the helper leave no second core behind.   *)
(* The exception is a core that the helper failed to stop.  After the        *)
(* application has ended, in whatever way, no core runs at all.              *)
OneCore ==
    <>[](\A c \in up : c = sc \/ exit \in {"closing", "down"} \/ (failed /\ exit = "no"))

(* What the chain of restarts rests on: the types of its parts, and that no  *)
(* two are at work at once.                                                  *)
DesktopInv == TypeOK /\ OneRestart

(* All restarts come to an end, and one core at most remains. *)
RestartsSettle == RestartsReturn /\ OneCore

(* Each call behaves as RemoteCall promises. *)
result == [k \in Calls |-> IF call[k] \in {"answer", "default", "error"}
                           THEN call[k] ELSE "none"]

Remote == INSTANCE RemoteCall

ImplementsRemoteCall == Remote!Spec

=============================================================================
