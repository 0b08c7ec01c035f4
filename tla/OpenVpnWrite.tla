---------------------------- MODULE OpenVpnWrite ----------------------------
(* How a packet of the OpenVPN client gets to its socket                     *)
(* (Clash.Meta/transport/openvpn/control.go and mux.go).  Control writers    *)
(* queue for sendGate, whose holder is subject to the write deadline; then,  *)
(* with the data writer, for the gate of the transport, where control goes   *)
(* first.  A wait ends when the context of the write is done or the          *)
(* transport closes, which may race with the gate being handed over.  When   *)
(* the context of a control write is done while its packet is on its way, a  *)
(* callback closes the transport, unless the write is a retransmission that  *)
(* is no longer wanted.                                                      *)
EXTENDS Naturals, Sequences, SequencesExt, FiniteSets

CONSTANTS
    ControlWriters, DataWriters,
    Stoppable,       \* of ControlWriters, those that retransmit
    LastWrite,       \* control writes in a run
    LastDeadline,    \* deadlines that are set in a run
    Nobody

ASSUME WriteAssumption ==
    /\ ControlWriters \cap DataWriters = {} /\ Stoppable \subseteq ControlWriters
    /\ Nobody \notin ControlWriters \cup DataWriters
    /\ LastWrite \in Nat /\ LastDeadline \in Nat

Writers == ControlWriters \cup DataWriters
Kinds == {"control", "data"}
Kind(w) == IF w \in ControlWriters THEN "control" ELSE "data"

VARIABLES
    (* the control channel *)
    sendGate, writeGeneration,
    writeDeadline,            \* "none", "future" or "past"
    writeDeadlineGeneration,
    writeTimer,               \* [write, deadline] of the timer that is set
    callbacks,                \* and of those that have fired and wait for the lock
    (* the gate of the transport *)
    active, waiting,
    granted,                  \* who has been given the gate and not released it
    (* each write *)
    pc, context,
    watching,                 \* the callback of its context
    closed                    \* is the transport closed, and by what?

channel == <<sendGate, writeGeneration, writeDeadline, writeDeadlineGeneration,
             writeTimer, callbacks>>
gate == <<active, waiting, granted>>
write == <<pc, context, watching>>
writeVars == <<channel, gate, write, closed>>

Timer == [write : 1 .. LastWrite, deadline : 1 .. LastWrite + LastDeadline]

WriteTypeOK ==
    /\ sendGate \in ControlWriters \cup {Nobody}
    /\ writeGeneration \in 0 .. LastWrite
    /\ writeDeadline \in {"none", "future", "past"}
    /\ writeDeadlineGeneration \in 0 .. LastWrite + LastDeadline
    /\ writeTimer \in Timer \cup {Nobody} /\ callbacks \subseteq Timer
    /\ active \in BOOLEAN
    /\ waiting \in [Kinds -> Seq(Writers)] /\ granted \subseteq Writers
    /\ pc \in [Writers -> {"idle", "gate", "enter", "queued", "leaving", "held",
                           "writing", "wrote", "finish"}]
    /\ context \in [Writers -> {"live", "cancelled", "deadline", "stopped"}]
    /\ watching \in [Writers -> {"no", "armed", "closing", "over"}]
    /\ closed \in {"no", "cancelled", "otherwise"}

WriteInit ==
    /\ sendGate = Nobody /\ writeGeneration = 0
    /\ writeDeadline = "none" /\ writeDeadlineGeneration = 0
    /\ writeTimer = Nobody /\ callbacks = {}
    /\ active = FALSE /\ waiting = [k \in Kinds |-> <<>>] /\ granted = {}
    /\ pc = [w \in Writers |-> "idle"] /\ context = [w \in Writers |-> "live"]
    /\ watching = [w \in Writers |-> "no"]
    /\ closed = "no"

Moves(w, from, to) == pc[w] = from /\ pc' = [pc EXCEPT ![w] = to]
Done(w) == context[w] # "live"

-----------------------------------------------------------------------------
(* Deadlines *)

(* scheduleWriteDeadlineLocked for the write w that holds sendGate. *)
Schedule(w, deadline) ==
    /\ writeDeadlineGeneration' = writeDeadlineGeneration + 1
    /\ writeTimer' = IF w # Nobody /\ deadline = "future"
                     THEN [write |-> writeGeneration', deadline |-> writeDeadlineGeneration']
                     ELSE Nobody
    /\ context' = [v \in Writers |-> IF v = w /\ ~Done(v) /\ deadline = "past"
                                    THEN "deadline" ELSE context[v]]

(* SetDeadline: a time, or none. *)
SetWriteDeadline(deadline) ==
    /\ writeDeadlineGeneration - writeGeneration < LastDeadline
    /\ writeDeadline' = deadline
    /\ UNCHANGED writeGeneration
    /\ Schedule(sendGate, deadline)
    /\ UNCHANGED <<sendGate, callbacks, gate, pc, watching, closed>>

DeadlinePasses ==
    /\ writeDeadline = "future" /\ writeDeadline' = "past"
    /\ UNCHANGED <<sendGate, writeGeneration, writeDeadlineGeneration, writeTimer,
                   callbacks, gate, write, closed>>

Fire ==
    /\ writeTimer # Nobody /\ writeDeadline = "past"
    /\ callbacks' = callbacks \cup {writeTimer} /\ writeTimer' = Nobody
    /\ UNCHANGED <<sendGate, writeGeneration, writeDeadline, writeDeadlineGeneration,
                   gate, write, closed>>

(* Mutant: whatever write is under way is cancelled. *)
cancelWriteUnchecked(t) ==
    /\ t \in callbacks /\ callbacks' = callbacks \ {t}
    /\ context' = [w \in Writers |-> IF w = sendGate /\ ~Done(w) THEN "deadline" ELSE context[w]]
    /\ UNCHANGED <<sendGate, writeGeneration, writeDeadline, writeDeadlineGeneration,
                   writeTimer, gate, pc, watching, closed>>

cancelWriteGeneration(t) ==
    /\ t \in callbacks /\ callbacks' = callbacks \ {t}
    /\ context' = [w \in Writers |->
          IF /\ w = sendGate /\ ~Done(w)
             /\ t = [write |-> writeGeneration, deadline |-> writeDeadlineGeneration]
          THEN "deadline" ELSE context[w]]
    /\ UNCHANGED <<sendGate, writeGeneration, writeDeadline, writeDeadlineGeneration,
                   writeTimer, gate, pc, watching, closed>>

-----------------------------------------------------------------------------
(* The control channel *)

BeginWrite(w) ==
    /\ w \in ControlWriters =>
          writeGeneration + Cardinality({v \in Writers : pc[v] = "gate"}) < LastWrite
    /\ Moves(w, "idle", IF w \in ControlWriters THEN "gate" ELSE "enter")
    /\ UNCHANGED <<channel, gate, context, watching, closed>>

(* The caller is cancelled, or its ControlConn closed.  A retransmission may *)
(* also just be stopped.                                                     *)
CancelWrite(w) ==
    /\ pc[w] # "idle" /\ ~Done(w)
    /\ \E c \in {"cancelled"} \cup (IF w \in Stoppable THEN {"stopped"} ELSE {}) :
          context' = [context EXCEPT ![w] = c]
    /\ UNCHANGED <<channel, gate, pc, watching, closed>>

(* acquireWriteGate, and the context and the generation of the write. *)
TakeSendGate(w) ==
    /\ sendGate = Nobody /\ sendGate' = w /\ ~Done(w)
    /\ writeGeneration' = writeGeneration + 1
    /\ Schedule(w, writeDeadline)
    /\ Moves(w, "gate", "enter")
    /\ UNCHANGED <<writeDeadline, callbacks, gate, watching, closed>>

LeaveSendGate(w) ==
    /\ Done(w) /\ Moves(w, "gate", "idle")
    /\ context' = [context EXCEPT ![w] = "live"]
    /\ UNCHANGED <<channel, gate, watching, closed>>

(* finishWrite and releaseWriteGate. *)
finishWrite(w) ==
    /\ Moves(w, "finish", "idle")
    /\ IF w = sendGate
       THEN sendGate' = Nobody /\ writeTimer' = Nobody
       ELSE UNCHANGED <<sendGate, writeTimer>>
    /\ context' = [context EXCEPT ![w] = "live"]
    /\ UNCHANGED <<writeGeneration, writeDeadline, writeDeadlineGeneration, callbacks,
                   gate, watching, closed>>

-----------------------------------------------------------------------------
(* The gate of the transport *)

Enter(w) ==
    /\ pc[w] = "enter"
    /\ \/ /\ Done(w) \/ closed # "no"
          /\ Moves(w, "enter", "finish") /\ UNCHANGED gate
       \/ /\ closed = "no" /\ ~active
          /\ active' = TRUE /\ granted' = granted \cup {w} /\ UNCHANGED waiting
          /\ Moves(w, "enter", "held")
       \/ /\ closed = "no" /\ active
          /\ waiting' = [waiting EXCEPT ![Kind(w)] = Append(@, w)]
          /\ Moves(w, "enter", "queued") /\ UNCHANGED <<active, granted>>
    /\ UNCHANGED <<channel, context, watching, closed>>

Ready(w) ==
    /\ w \in granted /\ Moves(w, "queued", "held")
    /\ UNCHANGED <<channel, gate, context, watching, closed>>

(* The select has seen the context or the transport; the grant may still     *)
(* come before the lock does.                                                *)
Leave(w) ==
    /\ Done(w) \/ closed # "no"
    /\ Moves(w, "queued", "leaving")
    /\ UNCHANGED <<channel, gate, context, watching, closed>>

(* grantNextLocked, when w lets go. *)
GrantNext(w) ==
    LET k == IF waiting["control"] # <<>> THEN "control" ELSE "data" IN
    IF waiting[k] = <<>>
    THEN active' = FALSE /\ granted' = granted \ {w} /\ UNCHANGED waiting
    ELSE /\ granted' = (granted \ {w}) \cup {Head(waiting[k])}
         /\ waiting' = [waiting EXCEPT ![k] = Tail(@)]
         /\ UNCHANGED active

(* Mutant: a waiter that leaves only takes itself out of the queue. *)
abandonGranted(w) ==
    /\ Moves(w, "leaving", "finish")
    /\ waiting' = [waiting EXCEPT ![Kind(w)] = RemoveFirst(@, w)]
    /\ UNCHANGED <<active, granted>>
    /\ UNCHANGED <<channel, context, watching, closed>>

abandon(w) ==
    /\ Moves(w, "leaving", "finish")
    /\ IF w \in granted THEN GrantNext(w)
       ELSE /\ waiting' = [waiting EXCEPT ![Kind(w)] = RemoveFirst(@, w)]
            /\ UNCHANGED <<active, granted>>
    /\ UNCHANGED <<channel, context, watching, closed>>

-----------------------------------------------------------------------------
(* The physical write *)

CheckWrite(w) ==
    /\ pc[w] = "held"
    /\ IF Done(w) \/ closed # "no"
       THEN Moves(w, "held", "finish") /\ GrantNext(w)
            /\ UNCHANGED watching
       ELSE /\ Moves(w, "held", "writing") /\ UNCHANGED gate
            /\ watching' = [watching EXCEPT ![w] =
                               IF w \in ControlWriters THEN "armed" ELSE "no"]
    /\ UNCHANGED <<channel, context, closed>>

(* A datagram that the system drops counts as written; it is an error only   *)
(* before the server has answered at all.                                    *)
Written(w) ==
    /\ Moves(w, "writing", "wrote")
    /\ UNCHANGED <<channel, gate, context, watching, closed>>

(* The callback of the context: it looks whether the write is under way, and *)
(* then closes the transport.                                                *)
Notice(w) ==
    /\ watching[w] = "armed" /\ Done(w)
    /\ watching' = [watching EXCEPT ![w] =
                       IF pc[w] = "writing" /\ context[w] # "stopped" THEN "closing" ELSE "over"]
    /\ UNCHANGED <<channel, gate, pc, context, closed>>

CloseWith(cause) == closed' = IF closed = "no" THEN cause ELSE closed

Abort(w) ==
    /\ watching[w] = "closing" /\ watching' = [watching EXCEPT ![w] = "over"]
    /\ CloseWith("cancelled")
    /\ UNCHANGED <<channel, gate, pc, context>>

(* The callback is taken back, or has run to its end. *)
Returned(w) ==
    /\ watching[w] # "closing" /\ watching' = [watching EXCEPT ![w] = "no"]
    /\ Moves(w, "wrote", "finish") /\ GrantNext(w)
    /\ CloseWith("otherwise") \/ UNCHANGED closed
    /\ UNCHANGED <<channel, context>>

(* PacketMux.Close, or the end of the reading goroutine. *)
CloseMux ==
    /\ closed = "no" /\ CloseWith("otherwise")
    /\ UNCHANGED <<channel, gate, write>>

-----------------------------------------------------------------------------
WriteStep(w) ==
    \/ TakeSendGate(w) \/ LeaveSendGate(w) \/ Enter(w) \/ Ready(w) \/ Leave(w)
    \/ abandon(w) \/ CheckWrite(w) \/ Returned(w) \/ finishWrite(w)

WriteNext ==
    \/ \E w \in Writers : \/ BeginWrite(w) \/ CancelWrite(w) \/ WriteStep(w)
                          \/ Written(w) \/ Notice(w) \/ Abort(w)
    \/ \E d \in {"none", "future", "past"} : SetWriteDeadline(d)
    \/ DeadlinePasses \/ Fire \/ \E t \in callbacks : cancelWriteGeneration(t)
    \/ CloseMux

WriteSpec == WriteInit /\ [][WriteNext]_writeVars

(* Goroutines go on and callbacks run.  A write may block for as long as the *)
(* transport is open, and ends when it is closed.                            *)
WriteFairness ==
    \A w \in Writers :
        /\ WF_writeVars(WriteStep(w)) /\ WF_writeVars(Notice(w)) /\ WF_writeVars(Abort(w))
        /\ WF_writeVars(closed # "no" /\ Written(w))

-----------------------------------------------------------------------------
(* Properties *)

Cancelled(w) == context[w] \in {"cancelled", "deadline"}

(* The gate is never given to two, and never taken with nobody to release    *)
(* it: a grant that meets a cancellation is passed on.                       *)
GateIsHeld ==
    /\ active <=> granted # {}
    /\ Cardinality(granted) <= 1
    /\ \A w \in Writers :
          /\ pc[w] \in {"held", "writing", "wrote"} => w \in granted
          /\ w \in granted => pc[w] \in {"queued", "leaving", "held", "writing", "wrote"}
    /\ ~active => \A k \in Kinds : waiting[k] = <<>>

(* A write is cancelled for a deadline only if that deadline applies to it   *)
(* still: a timer that fires late cancels no later write, and none whose     *)
(* deadline was put off or taken back.                                       *)
DeadlineIsItsOwn ==
    [][\A w \in Writers :
          context[w] = "live" /\ context'[w] = "deadline"
          => sendGate' = w /\ writeDeadline' = "past"]_writeVars

(* A cancellation closes the transport only for a write that it found on its *)
(* way and that has not returned: none that follows pays for it, and to stop *)
(* the retransmitter closes nothing.                                         *)
CloseIsForTheCancelled ==
    [][closed' = "cancelled" /\ closed = "no"
       => \E w \in ControlWriters : pc[w] \in {"writing", "wrote"} /\ Cancelled(w)
      ]_writeVars

(* Who is cancelled, or whose transport is closed, comes back: whatever it   *)
(* waits for, and even if the socket takes no more.                          *)
WritersReturn ==
    \A w \in Writers :
        pc[w] # "idle" /\ (closed # "no" \/ (w \in ControlWriters /\ Cancelled(w)))
        ~> pc[w] = "idle"

(* The gate with its types: one writer, who is known. *)
WriteInv == WriteTypeOK /\ GateIsHeld

(* A cancellation, of a deadline or of a context, meets the write that it is *)
(* meant for and closes the transport for that write alone.                  *)
CancelsItsOwn == DeadlineIsItsOwn /\ CloseIsForTheCancelled
=============================================================================
