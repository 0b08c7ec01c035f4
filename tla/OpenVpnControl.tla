--------------------------- MODULE OpenVpnControl ---------------------------
(* The control channel of the OpenVPN client                                 *)
(* (Clash.Meta/transport/openvpn/control.go, and what client.go does with    *)
(* it): a reliable layer over datagrams, one per key epoch.  An epoch starts *)
(* with a reset of each side, message 0, and carries a dialogue of TLS; the  *)
(* client then watches for the soft reset that starts the next one.          *)
(*                                                                           *)
(* The server is another program.  It is modelled as the code uses it: it    *)
(* follows the dialogue, repeats what is not acknowledged, buffers within a  *)
(* window and starts an epoch when the client has acknowledged the last.     *)
(* Only one goroutine reads, and it alone changes the epoch, so a datagram   *)
(* is taken in one step; the writes of the others may arrive late as any     *)
(* datagram may.  A datagram is lost or arrives twice at most MaxFaults times *)
(* in a run, and any two may change their order; of two in flight with one   *)
(* number the second waits.                                                  *)
EXTENDS Naturals, Sequences, FiniteSets

CONSTANTS
    LastEpoch,       \* epochs in a run, from 0
    KeyIDMask,       \* key ids, which return to 1 (7 in the code): a datagram
                     \* of an epoch is gone before its key id comes again
    AckMax,          \* controlSendAckMax: acknowledgements in a packet
    AckSize,         \* reliableAckSize: acknowledgements that are repeated
    Capacity,        \* reliableCapacity: the receive window
    ServerNeeds,     \* the client's message that each of the server's answers
    ClientNeeds,     \* the server's message that each of the client's answers
    LateMessages,    \* messages of the server after the dialogue: new tokens
    MaxFaults, None

ASSUME ControlAssumption ==
    /\ LastEpoch \in Nat /\ KeyIDMask \in Nat /\ LastEpoch < KeyIDMask
    /\ AckMax \in Nat \ {0} /\ AckSize \in Nat /\ AckMax <= AckSize
    /\ Capacity \in Nat \ {0} /\ LateMessages \in Nat /\ MaxFaults \in Nat
    /\ ServerNeeds \in Seq(Nat) /\ ClientNeeds \in Seq(Nat)
    /\ None \notin Nat

Epochs == 0 .. LastEpoch
LastServer == Len(ServerNeeds)
LastClient == Len(ClientNeeds)
Late == LastServer + 1 .. LastServer + LateMessages
ServerIDs == 0 .. LastServer + LateMessages
ClientIDs == 0 .. LastClient

VARIABLES
    (* the client *)
    epoch,            \* keyID counts epochs
    mode,             \* what the reading goroutine does
    remote,           \* is the session of the server known?
    sendMessage, recvMessage, ackPending, lruAcks,
    pending,          \* messages sent and not acknowledged
    recvPending,      \* messages received ahead of their turn
    parkedTLS,        \* messages that the watcher put aside
    pendingSoftReset, \* the epoch of a soft reset that came early, or None
    stream,           \* the messages that TLS has been given in this epoch
    (* the server *)
    sEpoch, sSent, sPending,
    sGot,             \* messages of the client that it has accepted
    (* datagrams in flight, by number; None numbers a bare acknowledgement *)
    toServer, toClient,
    faults

reliable == <<sendMessage, recvMessage, ackPending, lruAcks, pending, recvPending>>
clientSide == <<epoch, mode, remote, reliable, parkedTLS, pendingSoftReset, stream>>
serverSide == <<sEpoch, sSent, sPending, sGot>>
net == <<toServer, toClient, faults>>
controlVars == <<clientSide, serverSide, net>>

Datagrams(ids) == [epoch : Epochs, acks : SUBSET ids]
Message == [epoch : Epochs, id : ServerIDs]

ControlTypeOK ==
    /\ epoch \in Epochs /\ remote \in BOOLEAN
    /\ mode \in {"closed", "hardReset", "tls", "watch", "parked", "probe",
                 "reset", "resetProbe", "adopted"}
    /\ sendMessage \in Nat /\ recvMessage \in Nat
    /\ ackPending \in Seq(ServerIDs) /\ lruAcks \in Seq(ServerIDs)
    /\ Len(lruAcks) <= AckSize
    /\ pending \subseteq ClientIDs
    /\ recvPending \subseteq Message
    /\ \A m \in recvPending : m.id \in recvMessage .. recvMessage + Capacity - 1
    /\ parkedTLS \in Seq(Message) /\ stream \in Seq(Message)
    /\ pendingSoftReset \in Epochs \cup {None}
    /\ sEpoch \in Epochs /\ sSent \in Nat
    /\ sPending \subseteq ServerIDs /\ sGot \subseteq ClientIDs
    /\ toServer \in [ClientIDs \cup {None} -> Datagrams(ServerIDs) \cup {None}]
    /\ toClient \in [ServerIDs \cup {None} -> Datagrams(ClientIDs) \cup {None}]
    /\ faults \in 0 .. MaxFaults

ControlInit ==
    /\ epoch = 0 /\ mode = "closed" /\ remote = FALSE
    /\ sendMessage = 0 /\ recvMessage = 0 /\ ackPending = <<>> /\ lruAcks = <<>>
    /\ pending = {} /\ recvPending = {} /\ parkedTLS = <<>>
    /\ pendingSoftReset = None /\ stream = <<>>
    /\ sEpoch = 0 /\ sSent = 0 /\ sPending = {} /\ sGot = {}
    /\ toServer = [i \in ClientIDs \cup {None} |-> None]
    /\ toClient = [i \in ServerIDs \cup {None} |-> None]
    /\ faults = 0

-----------------------------------------------------------------------------
(* Key ids and acknowledgements *)

(* 0 is the first epoch's; then 1 .. KeyIDMask, and from there to 1. *)
NextKeyID(k) == IF k = KeyIDMask THEN 1 ELSE k + 1

KeyID(e) == IF e = 0 THEN 0 ELSE 1 + ((e - 1) % KeyIDMask)

Ids(s) == {s[i] : i \in DOMAIN s}
First(s, n) == SubSeq(s, 1, IF Len(s) < n THEN Len(s) ELSE n)

appendAck(id) == IF id \in Ids(ackPending) THEN ackPending ELSE Append(ackPending, id)

(* The pending acknowledgements that fit move to the front of those that are *)
(* repeated, the others keep their order, and the packet carries the first   *)
(* AckMax.                                                                   *)
TakeAcks ==
    LET taken == First(ackPending, AckMax)
        rest == {j \in DOMAIN lruAcks : lruAcks[j] \notin Ids(taken)}
    IN /\ ackPending' = SubSeq(ackPending, Len(taken) + 1, Len(ackPending))
       /\ \E at \in [1 .. Cardinality(rest) -> rest] :
             /\ \A i, j \in DOMAIN at : i < j => at[i] < at[j]
             /\ lruAcks' = First(taken \o [i \in DOMAIN at |-> lruAcks[at[i]]], AckSize)

Acks == Ids(First(lruAcks', AckMax))

-----------------------------------------------------------------------------
(* What the client sends *)

Write(i) ==
    /\ toServer[i] = None
    /\ toServer' = [toServer EXCEPT ![i] = [epoch |-> epoch, acks |-> Acks]]
    /\ UNCHANGED toClient

Send ==
    /\ pending' = pending \cup {sendMessage}
    /\ sendMessage' = sendMessage + 1
    /\ TakeAcks /\ Write(sendMessage) /\ UNCHANGED faults

(* The dialogue of TLS and the key exchange: a message follows the one of    *)
(* the server that it answers.                                               *)
SendNext ==
    /\ mode = "tls" /\ sendMessage \in 1 .. LastClient
    /\ ClientNeeds[sendMessage] < recvMessage
    /\ Send
    /\ UNCHANGED <<epoch, mode, remote, recvMessage, recvPending, parkedTLS,
                   pendingSoftReset, stream, serverSide>>

SendReset ==
    /\ mode = "closed" /\ mode' = "hardReset"
    /\ Send
    /\ UNCHANGED <<epoch, remote, recvMessage, recvPending, parkedTLS,
                   pendingSoftReset, stream, serverSide>>

SendSoftReset ==
    /\ mode = "adopted" /\ mode' = "tls"
    /\ Send
    /\ UNCHANGED <<epoch, remote, recvMessage, recvPending, parkedTLS,
                   pendingSoftReset, stream, serverSide>>

(* Every second while a reset or a handshake is under way, all that is       *)
(* pending.  A second is longer than a round trip.                           *)
Quiet == \A box \in {toServer, toClient} : \A i \in DOMAIN box : box[i] = None

Again(box, ids, d) == [i \in DOMAIN box |-> IF i \in ids THEN d ELSE None]

RetransmitPending ==
    /\ mode \in {"hardReset", "tls"} /\ pending # {} /\ Quiet
    /\ TakeAcks
    /\ toServer' = Again(toServer, pending, [epoch |-> epoch, acks |-> Acks])
    /\ UNCHANGED <<epoch, mode, remote, sendMessage, recvMessage, pending, recvPending,
                   parkedTLS, pendingSoftReset, stream, serverSide, toClient, faults>>

(* flushControlACKs *)
SendAck ==
    /\ ackPending # <<>>
    /\ TakeAcks /\ Write(None) /\ UNCHANGED faults
    /\ UNCHANGED <<epoch, mode, remote, sendMessage, recvMessage, pending, recvPending,
                   parkedTLS, pendingSoftReset, stream, serverSide>>

-----------------------------------------------------------------------------
(* What the client reads *)

Queued == {m \in recvPending : m.id = recvMessage}

(* read returns a message: TLS gets it, unless the watcher reads, which puts *)
(* it aside; a reset is nothing to TLS.                                      *)
Deliver(m) ==
    /\ recvMessage' = recvMessage + 1
    /\ IF mode = "watch"
       THEN mode' = "parked" /\ parkedTLS' = Append(parkedTLS, m) /\ UNCHANGED stream
       ELSE /\ mode' = IF mode = "hardReset" THEN "tls" ELSE mode
            /\ stream' = IF m.id = 0 THEN stream ELSE Append(stream, m)
            /\ UNCHANGED parkedTLS

Reading == mode \in {"hardReset", "tls", "watch", "probe", "resetProbe"}

ReadQueued ==
    /\ Reading /\ Queued # {} /\ (mode = "watch" => pendingSoftReset = None)
    /\ \E m \in Queued : Deliver(m) /\ recvPending' = recvPending \ {m}
    /\ UNCHANGED <<epoch, remote, sendMessage, ackPending, lruAcks, pending,
                   pendingSoftReset, serverSide, net>>

Ignore == UNCHANGED clientSide

(* A message of this epoch.  What is acknowledged has been delivered or      *)
(* buffered; what does not fit the window is neither.                        *)
Accept(d, i) ==
    /\ pending' = pending \ d.acks
    /\ LET m == [epoch |-> d.epoch, id |-> i]
           fits == i < recvMessage + Capacity /\ Cardinality(recvPending) < Capacity
       IN \/ /\ i = None
             /\ UNCHANGED <<recvMessage, ackPending, recvPending, mode, parkedTLS, stream>>
          \/ /\ i # None /\ i = recvMessage
             /\ ackPending' = appendAck(i) /\ Deliver(m) /\ UNCHANGED recvPending
          \/ /\ i # None /\ i # recvMessage
             /\ IF i < recvMessage \/ m \in recvPending
                THEN ackPending' = appendAck(i) /\ UNCHANGED recvPending
                ELSE IF fits
                THEN ackPending' = appendAck(i) /\ recvPending' = recvPending \cup {m}
                ELSE UNCHANGED <<ackPending, recvPending>>
             /\ UNCHANGED <<recvMessage, mode, parkedTLS, stream>>
    /\ UNCHANGED <<epoch, sendMessage, lruAcks, pendingSoftReset>>

IsNext(d) == KeyID(d.epoch) = NextKeyID(KeyID(epoch))
IsSoftReset(d, i) == i = 0 /\ d.epoch > 0

(* A soft reset while the epoch is still being set up, or the last messages  *)
(* of an epoch are read: the next epoch's is kept, any other dropped.        *)
KeepSoftReset(d) ==
    IF ~IsNext(d) THEN Ignore ELSE
        /\ pendingSoftReset' = IF pendingSoftReset = None THEN d.epoch
                               ELSE pendingSoftReset
        /\ pending' = pending \ d.acks
        /\ UNCHANGED <<epoch, mode, remote, sendMessage, recvMessage, ackPending,
                       lruAcks, recvPending, parkedTLS, stream>>

TakeSoftReset(d) ==
    IF ~IsNext(d) THEN Ignore ELSE
        /\ mode' = "reset"
        /\ UNCHANGED <<epoch, remote, reliable, parkedTLS, pendingSoftReset, stream>>

(* A datagram arrives, perhaps not for the last time. *)
Arrive(box, i) ==
    \/ box' = [box EXCEPT ![i] = None] /\ UNCHANGED faults
    \/ UNCHANGED box /\ faults < MaxFaults /\ faults' = faults + 1

Read(i) ==
    /\ Reading /\ Queued = {} /\ (mode = "watch" => pendingSoftReset = None)
    /\ toClient[i] # None
    /\ LET d == toClient[i] IN
       \/ ~remote /\ ~(i = 0 /\ d.epoch = 0) /\ Ignore
       \/ /\ remote /\ IsSoftReset(d, i)
          /\ IF mode = "watch" THEN TakeSoftReset(d) ELSE KeepSoftReset(d)
       \/ /\ remote /\ ~IsSoftReset(d, i) /\ KeyID(d.epoch) # KeyID(epoch)
          /\ Ignore
       \/ /\ remote \/ (i = 0 /\ d.epoch = 0)
          /\ ~IsSoftReset(d, i) /\ KeyID(d.epoch) = KeyID(epoch)
          /\ Accept(d, i) /\ remote' = TRUE
    /\ Arrive(toClient, i)
    /\ UNCHANGED <<serverSide, toServer>>

-----------------------------------------------------------------------------
(* What the client does with it *)

(* Handshake and renegotiate return. *)
Established ==
    /\ mode = "tls" /\ mode' = "watch"
    /\ sendMessage > LastClient /\ recvMessage > LastServer
    /\ UNCHANGED <<epoch, remote, reliable, parkedTLS, pendingSoftReset, stream,
                   serverSide, net>>

(* waitForSoftReset begins with a reset that was kept, if it is the next     *)
(* epoch's still.                                                            *)
TakeKept ==
    /\ mode = "watch" /\ pendingSoftReset # None
    /\ pendingSoftReset' = None
    /\ mode' = IF KeyID(pendingSoftReset) = NextKeyID(KeyID(epoch)) THEN "reset" ELSE mode
    /\ UNCHANGED <<epoch, remote, reliable, parkedTLS, stream, serverSide, net>>

(* The messages at hand in their order (ReadAll). *)
InTurn(ms) == {m \in ms : \A i \in recvMessage .. m.id : \E n \in ms : n.id = i}

(* Mutant: what was put aside comes after what is in turn. *)
ConsumeQueuedParkedLast ==
    /\ mode \in {"parked", "reset"}
    /\ mode' = IF mode = "parked" THEN "probe" ELSE "resetProbe"
    /\ LET now == InTurn(recvPending) IN
       /\ recvPending' = recvPending \ now
       /\ recvMessage' = recvMessage + Cardinality(now)
       /\ stream' = stream \o
            [k \in 1 .. Cardinality(now) |->
                CHOOSE m \in now : m.id = recvMessage + k - 1] \o parkedTLS
    /\ parkedTLS' = <<>>
    /\ UNCHANGED <<epoch, remote, sendMessage, ackPending, lruAcks, pending,
                   pendingSoftReset, serverSide, net>>

(* consumeQueuedControl gives TLS what was put aside and what is in turn,    *)
(* and TLS may then read more, for a token that is on its way.               *)
ConsumeQueued ==
    /\ mode \in {"parked", "reset"}
    /\ mode' = IF mode = "parked" THEN "probe" ELSE "resetProbe"
    /\ LET now == InTurn(recvPending) IN
       /\ recvPending' = recvPending \ now
       /\ recvMessage' = recvMessage + Cardinality(now)
       /\ stream' = stream \o parkedTLS \o
            [k \in 1 .. Cardinality(now) |->
                CHOOSE m \in now : m.id = recvMessage + k - 1]
    /\ parkedTLS' = <<>>
    /\ UNCHANGED <<epoch, remote, sendMessage, ackPending, lruAcks, pending,
                   pendingSoftReset, serverSide, net>>

ProbeEnds ==
    /\ mode = "probe" /\ mode' = "watch"
    /\ UNCHANGED <<epoch, remote, reliable, parkedTLS, pendingSoftReset, stream,
                   serverSide, net>>

(* Mutant: the next epoch begins without a look at what is queued. *)
AdoptAtOnce ==
    /\ mode \in {"reset", "resetProbe"} /\ mode' = "adopted"
    /\ epoch' = epoch + 1
    /\ sendMessage' = 0 /\ recvMessage' = 1
    /\ ackPending' = <<0>> /\ lruAcks' = <<>>
    /\ pending' = {} /\ recvPending' = {} /\ parkedTLS' = <<>> /\ stream' = <<>>
    /\ UNCHANGED <<remote, pendingSoftReset, serverSide, net>>

(* AdoptKeyID, MarkReceived and QueueAck for the server's reset, whose key   *)
(* id is the next.                                                           *)
Adopt ==
    /\ mode = "resetProbe" /\ mode' = "adopted"
    /\ epoch' = epoch + 1
    /\ sendMessage' = 0 /\ recvMessage' = 1
    /\ ackPending' = <<0>> /\ lruAcks' = <<>>
    /\ pending' = {} /\ recvPending' = {} /\ parkedTLS' = <<>> /\ stream' = <<>>
    /\ UNCHANGED <<remote, pendingSoftReset, serverSide, net>>

-----------------------------------------------------------------------------
(* The server *)

Has(n) == 0 .. n \subseteq sGot

ServerWrite(i, e, got) ==
    /\ toClient[i] = None
    /\ toClient' = [toClient EXCEPT ![i] = [epoch |-> e, acks |-> got]]
    /\ UNCHANGED toServer

ServerSend ==
    /\ sSent \in ServerIDs
    /\ \/ sSent = 0 /\ sEpoch = 0 /\ Has(0)
       \/ sSent \in 1 .. LastServer /\ Has(ServerNeeds[sSent])
       \/ sSent \in Late /\ Has(LastClient)
    /\ sSent' = sSent + 1 /\ sPending' = sPending \cup {sSent}
    /\ ServerWrite(sSent, sEpoch, sGot)
    /\ UNCHANGED <<sEpoch, sGot, clientSide, faults>>

ServerRetransmits ==
    /\ sPending # {} /\ Quiet
    /\ toClient' = Again(toClient, sPending, [epoch |-> sEpoch, acks |-> sGot])
    /\ UNCHANGED <<serverSide, clientSide, toServer, faults>>

ServerSoftReset ==
    /\ sEpoch < LastEpoch /\ sEpoch' = sEpoch + 1
    /\ sSent > LastServer /\ Has(LastClient) /\ sPending \subseteq Late
    /\ sSent' = 1 /\ sPending' = {0} /\ sGot' = {}
    /\ ServerWrite(0, sEpoch', {})
    /\ UNCHANGED <<clientSide, faults>>

(* What it has already it may answer with a bare acknowledgement. *)
ServerRead(i) ==
    /\ toServer[i] # None
    /\ LET d == toServer[i]
           got == IF d.epoch # sEpoch \/ i = None THEN sGot
                  ELSE IF \E n \in 0 .. i : i < n + Capacity /\ 0 .. n - 1 \subseteq sGot
                  THEN sGot \cup {i} ELSE sGot
       IN /\ sGot' = got
          /\ sPending' = IF d.epoch = sEpoch THEN sPending \ d.acks ELSE sPending
          /\ \/ UNCHANGED toClient
             \/ /\ i \in sGot /\ toClient[None] = None
                /\ toClient' = [toClient EXCEPT ![None] = [epoch |-> sEpoch, acks |-> got]]
    /\ Arrive(toServer, i)
    /\ UNCHANGED <<sEpoch, sSent, clientSide>>

Lose ==
    /\ faults < MaxFaults /\ faults' = faults + 1
    /\ \/ /\ \E i \in DOMAIN toServer : toServer[i] # None
                /\ toServer' = [toServer EXCEPT ![i] = None]
          /\ UNCHANGED toClient
       \/ /\ \E i \in DOMAIN toClient : toClient[i] # None
                /\ toClient' = [toClient EXCEPT ![i] = None]
          /\ UNCHANGED toServer
    /\ UNCHANGED <<clientSide, serverSide>>

-----------------------------------------------------------------------------
Step == ReadQueued \/ Established \/ TakeKept \/ ConsumeQueued \/ ProbeEnds \/ Adopt
        \/ SendSoftReset

ControlNext ==
    \/ SendReset \/ SendNext \/ SendAck \/ RetransmitPending \/ Step
    \/ \E i \in DOMAIN toClient : Read(i)
    \/ ServerSend \/ ServerRetransmits \/ ServerSoftReset \/ Lose
    \/ \E i \in DOMAIN toServer : ServerRead(i)

ControlSpec == ControlInit /\ [][ControlNext]_controlVars

ControlFairness ==
    /\ WF_controlVars(SendNext) /\ WF_controlVars(SendAck) /\ WF_controlVars(Step)
    /\ SF_controlVars(RetransmitPending) /\ SF_controlVars(ServerRetransmits)
    /\ \A i \in ServerIDs \cup {None} : WF_controlVars(Read(i))
    /\ WF_controlVars(ServerSend)
    /\ \A i \in ClientIDs \cup {None} : WF_controlVars(ServerRead(i))

-----------------------------------------------------------------------------
(* Properties *)

(* TLS is given the messages of its own epoch, each once, in their order and *)
(* without a gap, whatever is lost, repeated, late or of another epoch.      *)
StreamInOrder ==
    LET s == stream \o parkedTLS IN
    /\ s = [k \in 1 .. Len(s) |-> [epoch |-> epoch, id |-> k]]
    /\ recvMessage > 0 => Len(s) = recvMessage - 1

(* What the server has struck from its list the client has; what the client  *)
(* has struck from its list the server has.  A message that neither repeats  *)
(* is not missing on either side.                                            *)
AckedIsKept ==
    /\ sEpoch = epoch =>
        /\ \A i \in (0 .. sSent - 1) \ sPending :
               i < recvMessage \/ \E m \in recvPending : m.id = i
        /\ (0 .. sendMessage - 1) \ pending \subseteq sGot
    /\ sEpoch = epoch + 1 => 0 \in sPending
    /\ sEpoch \in {epoch, epoch + 1}

(* What has been acknowledged and is in turn when a soft reset is taken - it  *)
(* may be a token that the next exchange needs - TLS is given before the     *)
(* epoch ends.                                                               *)
QueueIsConsumed ==
    [][mode = "reset" /\ mode' # "reset" =>
          Ids(parkedTLS) \cup InTurn(recvPending) \subseteq Ids(stream')]_controlVars

(* Every epoch that is started is set up in the end, and nothing that the    *)
(* server sent stays without an acknowledgement.                             *)
EpochsSettle ==
    <>[](\/ mode = "closed"
         \/ mode \in {"watch", "parked", "probe"} /\ epoch = sEpoch /\ sPending = {})

(* Reliable delivery in both directions: the lists and windows keep their    *)
(* bounds, nothing acknowledged is missing, and TLS reads it in order.       *)
ControlInv == ControlTypeOK /\ StreamInOrder /\ AckedIsKept

(* An epoch ends with what was received given to TLS, and the next is set up *)
(* on both sides.                                                            *)
EpochsHold == QueueIsConsumed /\ EpochsSettle
=============================================================================
