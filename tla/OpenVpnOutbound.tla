--------------------------- MODULE OpenVpnOutbound ---------------------------
(* The adapter that owns the OpenVPN client                                  *)
(* (Clash.Meta/adapter/outbound/openvpn.go).  Dials share one link - socket, *)
(* client and stack device - that one of them starts under runLock; a link   *)
(* that fails stops itself and makes room for the next; Close ends all.      *)
(* With a handshake timeout the start is a goroutine of its own, which the   *)
(* dial may leave behind; without one the dial's end ends the start as well, *)
(* in fewer ways.                                                            *)
EXTENDS Naturals, FiniteSets

CONSTANTS Dials, LastLink, NoLink

ASSUME OutboundAssumption == LastLink \in Nat /\ NoLink \notin Nat

Links == 1 .. LastLink

VARIABLES
    dial,             \* what each dial does
    starting,         \* the start under runLock: "no", "dial" or "handshake"
    started,          \* links so far
    open,             \* those of them that are open
    running,
    client,           \* o.client and o.tunDevice
    stop,             \* each link's loops: run, have closed the link, are over
    runCtx,           \* is the adapter not closed?
    closer, taken     \* what Close does, and the link that it took

outboundVars == <<dial, starting, started, open, running, client, stop, runCtx, closer, taken>>

OutboundTypeOK ==
    /\ dial \in [Dials -> {"idle", "lock", "start"}]
    /\ starting \in {"no", "dial", "handshake"} /\ started \in 0 .. LastLink
    /\ open \subseteq 1 .. started
    /\ running \in BOOLEAN /\ {client, taken} \subseteq Links \cup {NoLink}
    /\ stop \in [Links -> {"none", "run", "closed", "over"}] /\ runCtx \in BOOLEAN
    /\ closer \in {"no", "lock", "close", "done"}
    /\ running <=> client # NoLink

OutboundInit ==
    /\ dial = [d \in Dials |-> "idle"] /\ starting = "no" /\ started = 0
    /\ open = {} /\ running = FALSE /\ client = NoLink
    /\ stop = [l \in Links |-> "none"] /\ runCtx = TRUE
    /\ closer = "no" /\ taken = NoLink

runLockIsFree == starting = "no"

-----------------------------------------------------------------------------
(* run *)

Dial(d) ==
    /\ dial[d] = "idle" /\ dial' = [dial EXCEPT ![d] = "lock"]
    /\ UNCHANGED <<starting, started, open, running, client, stop, runCtx, closer, taken>>

(* The context of the dial, or of the adapter, is done. *)
DialEnds(d) ==
    /\ dial[d] \in {"lock", "start"}
    /\ dial' = [dial EXCEPT ![d] = "idle"]
    /\ UNCHANGED <<starting, started, open, running, client, stop, runCtx, closer, taken>>

(* There is a link, or the adapter is closed. *)
UseLink(d) ==
    /\ dial[d] = "lock" /\ runLockIsFree /\ (running \/ ~runCtx)
    /\ dial' = [dial EXCEPT ![d] = "idle"]
    /\ UNCHANGED <<starting, started, open, running, client, stop, runCtx, closer, taken>>

StartLink(d) ==
    /\ dial[d] = "lock" /\ runLockIsFree /\ ~running /\ runCtx
    /\ started < LastLink
    /\ dial' = [dial EXCEPT ![d] = "start"] /\ starting' = "dial"
    /\ UNCHANGED <<started, open, running, client, stop, runCtx, closer, taken>>

-----------------------------------------------------------------------------
(* startLocked *)

openPacketIO ==
    /\ starting = "dial" /\ starting' = "handshake"
    /\ started' = started + 1 /\ open' = open \cup {started'}
    /\ UNCHANGED <<dial, running, client, stop, runCtx, closer, taken>>

(* Who waits for the start returns, and the lock is released. *)
StartEnds ==
    /\ starting' = "no"
    /\ dial' = [d \in Dials |-> IF dial[d] = "start" THEN "idle" ELSE dial[d]]

(* Mutant: the socket of a handshake that failed stays open. *)
StartFailsOpen ==
    /\ starting # "no" /\ StartEnds
    /\ UNCHANGED <<started, open, running, client, stop, runCtx, closer, taken>>

(* The dial, the handshake or the device fails, or the context is done. *)
StartFails ==
    /\ starting # "no" /\ StartEnds
    /\ open' = open \ (IF starting = "handshake" THEN {started} ELSE {})
    /\ UNCHANGED <<started, running, client, stop, runCtx, closer, taken>>

startPacketLoops ==
    /\ starting = "handshake" /\ StartEnds
    /\ client' = started /\ running' = TRUE
    /\ stop' = [stop EXCEPT ![started] = "run"]
    /\ UNCHANGED <<started, open, runCtx, closer, taken>>

-----------------------------------------------------------------------------
(* The end of a link: one of its loops has failed, or the adapter is closed. *)

StopLink(l) ==
    /\ stop[l] = "run" /\ stop' = [stop EXCEPT ![l] = "closed"]
    /\ open' = open \ {l}
    /\ UNCHANGED <<dial, starting, started, running, client, runCtx, closer, taken>>

ClearLink(l) ==
    /\ stop[l] = "closed" /\ runLockIsFree /\ stop' = [stop EXCEPT ![l] = "over"]
    /\ IF client = l THEN client' = NoLink /\ running' = FALSE
       ELSE UNCHANGED <<client, running>>
    /\ UNCHANGED <<dial, starting, started, open, runCtx, closer, taken>>

(* Close *)
CloseBegins ==
    /\ closer = "no" /\ closer' = "lock" /\ runCtx' = FALSE
    /\ UNCHANGED <<dial, starting, started, open, running, client, stop, taken>>

(* Mutant: Close does not wait for a start that is under way. *)
CloseTakesUnlocked ==
    /\ closer = "lock" /\ closer' = "close"
    /\ taken' = client /\ client' = NoLink /\ running' = FALSE
    /\ UNCHANGED <<dial, starting, started, open, stop, runCtx>>

CloseTakes ==
    /\ closer = "lock" /\ runLockIsFree /\ closer' = "close"
    /\ taken' = client /\ client' = NoLink /\ running' = FALSE
    /\ UNCHANGED <<dial, starting, started, open, stop, runCtx>>

CloseReturns ==
    /\ closer = "close" /\ closer' = "done" /\ open' = open \ {taken}
    /\ UNCHANGED <<dial, starting, started, running, client, stop, runCtx, taken>>

-----------------------------------------------------------------------------
Starting == openPacketIO \/ StartFails \/ startPacketLoops
Closing == CloseTakes \/ CloseReturns

OutboundNext ==
    \/ \E d \in Dials : Dial(d) \/ DialEnds(d) \/ UseLink(d) \/ StartLink(d)
    \/ Starting \/ CloseBegins \/ Closing
    \/ \E l \in Links : StopLink(l) \/ ClearLink(l)

OutboundSpec == OutboundInit /\ [][OutboundNext]_outboundVars

(* A start ends with its context; the loops see that runCtx is done.  A link *)
(* may run for as long as it likes.                                          *)
OutboundFairness ==
    /\ WF_outboundVars(Starting) /\ SF_outboundVars(Closing)
    /\ \A l \in Links : WF_outboundVars(StopLink(l) /\ ~runCtx) /\ SF_outboundVars(ClearLink(l))

-----------------------------------------------------------------------------
(* Properties *)

(* There is one link at most, also while one ends and the next begins; one   *)
(* that is open has an owner that will close it; and when Close has returned *)
(* nothing is open or comes up again.                                        *)
OneOwnedLink ==
    /\ Cardinality(open) <= 1
    /\ \A l \in open :
          \/ l = started /\ starting = "handshake"
          \/ stop[l] = "run" /\ (client = l \/ (closer = "close" /\ taken = l))
    /\ closer = "done" => open = {} /\ starting = "no" /\ ~running

(* A link that has failed gives its place up, so that a dial can start the   *)
(* next, and Close returns.                                                  *)
LinksEnd ==
    /\ \A l \in Links : client = l /\ l \notin open ~> client # l
    /\ closer = "lock" ~> closer = "done"

(* One link with one owner, of the right types. *)
OutboundInv == OutboundTypeOK /\ OneOwnedLink
=============================================================================
