--------------------------- MODULE OpenVpnProofs ---------------------------
(* Proofs about the OpenVPN client: the links of the adapter                 *)
(* (OpenVpnOutbound), the keys of the data channel (OpenVpnData), the way of *)
(* a packet to the socket (OpenVpnWrite) and the control channel             *)
(* (OpenVpnControl), for any number of dials, senders and writers, of links, *)
(* of epochs and of deadlines, any dialogue, window and faults.              *)
EXTENDS OpenVpnWrite, OpenVpnData, OpenVpnOutbound, OpenVpnControl,
        FiniteSetTheorems, SequenceTheorems, FunctionTheorems,
        WellFoundedInduction, TLAPS

-----------------------------------------------------------------------------
(* OpenVpnOutbound *)

LinkTypes ==
    /\ dial \in [Dials -> {"idle", "lock", "start"}]
    /\ starting \in {"no", "dial", "handshake"} /\ started \in 0 .. LastLink
    /\ open \subseteq 1 .. started
    /\ client \in Links \cup {NoLink} /\ taken \in Links \cup {NoLink}
    /\ stop \in [Links -> {"none", "run", "closed", "over"}]
    /\ closer \in {"no", "lock", "close", "done"}
LinkFlags == running = (client # NoLink) /\ runCtx \in BOOLEAN

(* A start under runLock finds no other link and has room for its own; and   *)
(* when Close has taken the lock no start comes any more.                    *)
LinkOrder ==
    /\ starting # "no" => client = NoLink /\ closer \in {"no", "lock"}
    /\ starting = "dial" => started < LastLink
    /\ starting = "handshake" => started # 0
    /\ closer # "no" => ~runCtx
    /\ closer \in {"close", "done"} => client = NoLink
    /\ closer = "done" => open = {}

Owner(l) == \/ l = started /\ starting = "handshake"
            \/ stop[l] = "run" /\ (client = l \/ (closer = "close" /\ taken = l))

LinkInv == LinkTypes /\ LinkFlags /\ LinkOrder /\ \A l \in open : Owner(l)

LEMMA LinkStep ==
  ASSUME LinkInv, [OutboundNext]_outboundVars
  PROVE  LinkInv'
  <1> USE OutboundAssumption DEF LinkInv, Links
  <1>1. CASE UNCHANGED outboundVars
    BY <1>1 DEF outboundVars, LinkTypes, LinkFlags, LinkOrder, Owner
  <1>2. ASSUME NEW d \in Dials, Dial(d) \/ DialEnds(d) \/ UseLink(d) PROVE LinkInv'
    <2>1. /\ dial' \in [Dials -> {"idle", "lock", "start"}]
          /\ UNCHANGED <<starting, started, open, running, client, stop, runCtx, closer,
                         taken>>
      BY <1>2 DEF Dial, DialEnds, UseLink, LinkTypes
    <2> QED BY <2>1 DEF LinkTypes, LinkFlags, LinkOrder, Owner
  <1>3. ASSUME NEW d \in Dials, StartLink(d) PROVE LinkInv'
    BY <1>3 DEF StartLink, runLockIsFree, LinkTypes, LinkFlags, LinkOrder, Owner
  <1>4. CASE openPacketIO
    <2>1. open = {}
      BY <1>4 DEF openPacketIO, LinkOrder, LinkTypes, Owner
    <2> QED BY <1>4, <2>1 DEF openPacketIO, LinkTypes, LinkFlags, LinkOrder, Owner
  <1>5. CASE StartFails
    BY <1>5 DEF StartFails, StartEnds, LinkTypes, LinkFlags, LinkOrder, Owner
  <1>6. CASE startPacketLoops
    <2>1. started \in Links /\ open' = open /\ \A l \in open : l = started
      BY <1>6 DEF startPacketLoops, LinkTypes, LinkOrder, Owner
    <2>2. LinkTypes'
      BY <1>6, <2>1 DEF startPacketLoops, StartEnds, LinkTypes
    <2>3. LinkFlags'
      <3>1. client' # NoLink
        BY <1>6, <2>1 DEF startPacketLoops
      <3> QED BY <1>6, <3>1, Zenon DEF startPacketLoops, StartEnds, LinkFlags
    <2>5. LinkOrder'
      BY <1>6, <2>1 DEF startPacketLoops, StartEnds, LinkOrder
    <2>4. \A l \in open : Owner(l)'
      BY <1>6, <2>1 DEF startPacketLoops, LinkTypes, Owner
    <2> QED BY <2>1, <2>2, <2>3, <2>4, <2>5
  <1>7. ASSUME NEW l \in Links, StopLink(l) \/ ClearLink(l) PROVE LinkInv'
    <2>1. CASE StopLink(l)
      BY <2>1 DEF StopLink, LinkTypes, LinkFlags, LinkOrder, Owner
    <2>2. CASE ClearLink(l)
      <3>1. l \notin open
        BY <2>2 DEF ClearLink, runLockIsFree, Owner
      <3>2. LinkTypes' /\ LinkFlags' /\ LinkOrder'
        BY <2>2 DEF ClearLink, LinkTypes, LinkFlags, LinkOrder
      <3> QED BY <2>2, <3>1, <3>2 DEF ClearLink, runLockIsFree, LinkTypes, Owner
    <2> QED BY <1>7, <2>1, <2>2
  <1>8. CASE CloseBegins
    BY <1>8 DEF CloseBegins, LinkTypes, LinkFlags, LinkOrder, Owner
  <1>9. CASE CloseTakes
    BY <1>9 DEF CloseTakes, runLockIsFree, LinkTypes, LinkFlags, LinkOrder, Owner
  <1>10. CASE CloseReturns
    BY <1>10 DEF CloseReturns, LinkTypes, LinkFlags, LinkOrder, Owner
  <1> QED BY <1>1, <1>2, <1>3, <1>4, <1>5, <1>6, <1>7, <1>8, <1>9, <1>10
       DEF OutboundNext, Starting, Closing

(* Whatever dials, failing links and Close do, one link at most is open, it  *)
(* has an owner that will close it, and nothing outlives Close.              *)
THEOREM OutboundInvHolds == OutboundSpec => []OutboundInv
  <1>1. OutboundInit => LinkInv
    <2> SUFFICES ASSUME OutboundInit PROVE LinkInv
      OBVIOUS
    <2>1. LinkTypes
      BY OutboundAssumption DEF OutboundInit, LinkTypes, Links
    <2>2. LinkFlags /\ LinkOrder /\ \A l \in open : Owner(l)
      BY DEF OutboundInit, LinkFlags, LinkOrder
    <2> QED BY <2>1, <2>2 DEF LinkInv
  <1>2. LinkInv => OutboundInv
    <2> SUFFICES ASSUME LinkInv PROVE OutboundInv
      OBVIOUS
    <2>1. OutboundTypeOK
      BY DEF LinkInv, LinkTypes, LinkFlags, OutboundTypeOK
    <2>2. \A l, m \in open : l = m
      BY OutboundAssumption DEF LinkInv, LinkOrder, LinkTypes, Owner
    <2>3. Cardinality(open) <= 1
      <3>1. CASE open = {}
        BY <3>1, FS_EmptySet
      <3>2. CASE open # {}
        <4>1. PICK l : open = {l}
          BY <2>2, <3>2
        <4> QED BY <4>1, FS_Singleton
      <3> QED BY <3>1, <3>2
    <2>4. closer = "done" => open = {} /\ starting = "no" /\ ~running
      BY DEF LinkInv, LinkOrder, LinkTypes, LinkFlags
    <2> QED BY <2>1, <2>3, <2>4 DEF OutboundInv, OneOwnedLink, LinkInv, Owner
  <1> QED BY <1>1, <1>2, LinkStep, PTL DEF OutboundSpec

-----------------------------------------------------------------------------
(* OpenVpnData *)

KeyTypes ==
    /\ watcher \in {"closed", "waits", "reset", "adopted", "exchanged"}
    /\ keyID \in Keys
    /\ data \in MaybeKey /\ retiring \in MaybeKey /\ outboundKey \in MaybeKey
    /\ lastSent \in MaybeKey /\ marking \in MaybeKey /\ peerKey \in MaybeKey
    /\ selection \in Clock /\ retiringExpiry \in Clock
    /\ pendingRetiringExpiry \in Clock /\ pendingSelection \in Clock
    /\ dataChanged \in 0 .. LastKey + 1 /\ recvEvidence \subseteq Keys
SenderTypes ==
    /\ at \in [DataSenders -> {"idle", "select", "encrypt", "paused", "write"}]
    /\ outbound \in [DataSenders -> MaybeKey]
    /\ changed \in [DataSenders -> 0 .. LastKey + 1]
SenderFlags == runs \in BOOLEAN /\ writeSem \in BOOLEAN

(* The watching goroutine installs the keys in their order, and the sender   *)
(* is told of each; the key that retires is the one before.                  *)
KeyOrder ==
    /\ watcher = "closed" => keyID = 0 /\ data = NoKey
    /\ watcher \in {"waits", "reset"} => data = keyID
    /\ watcher = "reset" => keyID < LastKey
    /\ watcher = "adopted" => keyID # 0
    /\ watcher \in {"adopted", "exchanged"} =>
          IF keyID = 0 THEN data = NoKey ELSE data = keyID - 1
    /\ IF data = NoKey THEN dataChanged = 0 /\ retiring = NoKey /\ outboundKey = NoKey
       ELSE dataChanged = data + 1 /\ outboundKey \in {data, retiring} \ {NoKey}
    /\ retiring # NoKey => data = retiring + 1

(* One sender at a time has the semaphore.  The key that it has selected is  *)
(* at least the last that was used, and no newer than the one that is now    *)
(* selected; and an old one that it has selected is that one.                *)
SenderOrder ==
    /\ \A s \in DataSenders : at[s] # "idle" => writeSem
    /\ \A s, u \in DataSenders : at[s] # "idle" /\ at[u] # "idle" => s = u
    /\ lastSent # NoKey => outboundKey # NoKey /\ lastSent <= outboundKey
    /\ \A s \in DataSenders : at[s] = "encrypt" =>
          /\ outbound[s] # NoKey /\ outboundKey # NoKey /\ outbound[s] <= outboundKey
          /\ lastSent # NoKey => lastSent <= outbound[s]
          /\ outbound[s] = retiring => outboundKey = retiring
    /\ \A s \in DataSenders : at[s] # "idle" => data # NoKey

(* The peer has no newer key than the one that was exchanged. *)
PeerOrder ==
    /\ peerKey # NoKey => peerKey <= keyID
    /\ EvidenceIsItsOwn
    /\ marking # NoKey => peerKey # NoKey /\ marking <= peerKey

KeysInv == KeyTypes /\ SenderTypes /\ SenderFlags /\ KeyOrder /\ SenderOrder /\ PeerOrder

Watching == Handshake \/ stageRetiringWindow \/ Watch \/ failControl

LEMMA WatchingKeeps ==
  ASSUME KeysInv, Watching
  PROVE  KeysInv'
  <1> USE DataAssumption DEF KeysInv, control, windows, keys, sender, peer, Keys,
     MaybeKey
  <1>1. SenderFlags'
    BY Zenon DEF Watching, Handshake, stageRetiringWindow, Watch, AdoptKey,
       Exchange,
       installDataChannel, Installs, failControl, SenderFlags
  <1>2. SenderTypes'
    BY DEF Watching, Handshake, stageRetiringWindow, Watch, AdoptKey, Exchange,
       installDataChannel, Installs, failControl, SenderTypes
  <1>3. KeyTypes' /\ KeyOrder'
    <2>1. CASE Handshake \/ Exchange \/ failControl
      BY <2>1 DEF Handshake, Exchange, failControl, KeyTypes, KeyOrder
    <2>2. CASE stageRetiringWindow
      BY <2>2 DEF stageRetiringWindow, KeyTypes, KeyOrder, Clock
    <2>3. CASE AdoptKey
      BY <2>3 DEF AdoptKey, KeyTypes, KeyOrder
    <2>4. CASE installDataChannel
      <3>1. KeyOrder'
        BY <2>4 DEF installDataChannel, Installs, KeyTypes, KeyOrder
      <3>2. keyID \in Nat /\ dataChanged' \in 0 .. LastKey + 1
        BY <2>4 DEF installDataChannel, Installs, KeyTypes, KeyOrder
      <3>3. KeyTypes'
        BY <2>4, <3>2 DEF installDataChannel, Installs, KeyTypes, Clock
      <3> QED BY <3>1, <3>3
    <2> QED BY <2>1, <2>2, <2>3, <2>4 DEF Watching, Watch
  <1>4. SenderOrder'
    BY DEF Watching, Handshake, stageRetiringWindow, Watch, AdoptKey, Exchange,
       installDataChannel, Installs, failControl, KeyTypes, SenderTypes, KeyOrder,
       SenderOrder
  <1>5. PeerOrder'
    <2>1. keyID' \in Nat /\ keyID <= keyID' /\ UNCHANGED peer
      BY DEF Watching, Handshake, stageRetiringWindow, Watch, AdoptKey, Exchange,
         installDataChannel, Installs, failControl, KeyTypes
    <2> QED BY <2>1 DEF KeyTypes, PeerOrder, EvidenceIsItsOwn
  <1> QED BY <1>1, <1>2, <1>3, <1>4, <1>5

LEMMA PeerKeeps ==
  ASSUME KeysInv,
     WindowPasses \/ PeerSwitches \/ MarkPeerActive \/ \E k \in Keys : Decrypt(k)
  PROVE  KeysInv'
  <1> USE DataAssumption DEF KeysInv, control, windows, keys, sender, peer, Keys,
     MaybeKey
  <1>1. SenderFlags'
    BY Zenon DEF WindowPasses, PeerSwitches, MarkPeerActive, Decrypt, SenderFlags
  <1>2. SenderTypes' /\ KeyOrder' /\ SenderOrder'
    BY DEF WindowPasses, PeerSwitches, MarkPeerActive, Decrypt, SenderTypes,
       KeyOrder,
       SenderOrder
  <1>3. KeyTypes' /\ PeerOrder'
    <2>1. CASE WindowPasses
      BY <2>1 DEF WindowPasses, KeyTypes, PeerOrder, EvidenceIsItsOwn, Clock, Passes
    <2>2. CASE PeerSwitches
      BY <2>2 DEF PeerSwitches, KeyTypes, PeerOrder, EvidenceIsItsOwn
    <2>3. CASE MarkPeerActive
      BY <2>3 DEF MarkPeerActive, KeyTypes, PeerOrder, EvidenceIsItsOwn
    <2>4. CASE \E k \in Keys : Decrypt(k)
      BY <2>4 DEF Decrypt, KeyTypes, PeerOrder, EvidenceIsItsOwn
    <2> QED BY <2>1, <2>2, <2>3, <2>4
  <1> QED BY <1>1, <1>2, <1>3

LEMMA SenderKeeps ==
  ASSUME KeysInv, NEW s \in DataSenders, Acquire(s) \/ SendPacket(s) \/ GiveUp(s)
  PROVE  KeysInv'
  <1> USE DataAssumption DEF KeysInv, control, windows, keys, sender, peer, Keys,
     MaybeKey,
          Unlock, GoTo
  <1>1. SenderFlags'
    BY Zenon DEF Acquire, SendPacket, GiveUp, Pause, Select, Promote, Encrypt,
       SelectAgain,
       Resume, Return, Leaves, SenderFlags
  <1>2. SenderTypes'
    BY DEF Acquire, SendPacket, GiveUp, Pause, Select, Promote, Encrypt,
       SelectAgain,
       Resume, Return, Leaves, SenderTypes, KeyTypes
  <1>3. KeyTypes' /\ KeyOrder' /\ PeerOrder'
    <2>1. \/ UNCHANGED <<control, windows, keys, dataChanged, peer, lastSent>>
          \/ Encrypt(s) \/ Promote(s)
      BY DEF Acquire, SendPacket, GiveUp, Pause, Select, SelectAgain, Resume,
         Return, Leaves
    <2>2. CASE UNCHANGED <<control, windows, keys, dataChanged, peer, lastSent>>
      BY <2>2 DEF KeyTypes, KeyOrder, PeerOrder, EvidenceIsItsOwn
    <2>3. CASE Encrypt(s)
      BY <2>3 DEF Encrypt, SenderTypes, KeyTypes, KeyOrder, PeerOrder,
         EvidenceIsItsOwn
    <2>4. CASE Promote(s)
      BY <2>4 DEF Promote, SenderTypes, SenderOrder, KeyTypes, KeyOrder, PeerOrder,
         EvidenceIsItsOwn, Clock
    <2> QED BY <2>1, <2>2, <2>3, <2>4
  <1>4. SenderOrder'
    <2>1. CASE Acquire(s)
      BY <2>1 DEF Acquire, SenderTypes, SenderOrder
    <2>2. CASE Pause(s) \/ SelectAgain(s) \/ Resume(s)
      BY <2>2 DEF Pause, SelectAgain, Resume, SenderTypes, SenderOrder
    <2>3. CASE Return(s) \/ GiveUp(s)
      BY <2>3 DEF Return, GiveUp, Leaves, SenderTypes, SenderOrder
    <2>4. CASE Select(s)
      BY <2>4 DEF Select, SenderTypes, SenderOrder, KeyTypes, KeyOrder
    <2>5. CASE Promote(s)
      BY <2>5 DEF Promote, SenderTypes, SenderOrder, KeyTypes, KeyOrder
    <2>6. CASE Encrypt(s)
      BY <2>6 DEF Encrypt, SenderTypes, SenderOrder, KeyTypes, KeyOrder
    <2> QED BY <2>1, <2>2, <2>3, <2>4, <2>5, <2>6 DEF SendPacket
  <1> QED BY <1>1, <1>2, <1>3, <1>4

LEMMA KeysStep ==
  ASSUME KeysInv, [DataNext]_dataVars
  PROVE  KeysInv'
  <1>1. CASE UNCHANGED dataVars
    BY <1>1 DEF dataVars, control, windows, keys, sender, peer, KeysInv, KeyTypes,
       SenderTypes, SenderFlags, KeyOrder, SenderOrder, PeerOrder, EvidenceIsItsOwn
  <1> QED BY <1>1, WatchingKeeps, PeerKeeps, SenderKeeps DEF DataNext, Watching

LEMMA KeysInit ==
  ASSUME DataInit
  PROVE  KeysInv
  <1> USE DataAssumption DEF DataInit, Keys, MaybeKey
  <1>1. KeyTypes /\ KeyOrder
    BY DEF KeyTypes, KeyOrder, Clock
  <1>2. SenderTypes
    <2>1. 0 \in 0 .. LastKey + 1
      OBVIOUS
    <2> QED BY <2>1 DEF SenderTypes
  <1>4. SenderFlags
    BY DEF SenderFlags
  <1>3. SenderOrder /\ PeerOrder
    BY DEF SenderOrder, PeerOrder, EvidenceIsItsOwn
  <1> QED BY <1>1, <1>2, <1>3, <1>4 DEF KeysInv

(* The keys stay in their windows, and a key counts as used by the peer only *)
(* if the peer has used it, whatever renegotiation a packet is read in.      *)
THEOREM DataInvHolds == DataSpec => []DataInv
  <1>1. KeysInv => DataInv
    <2> SUFFICES ASSUME KeysInv PROVE DataInv
      OBVIOUS
    <2>1. retiring # NoKey => retiring < data
      BY DataAssumption DEF KeysInv, KeyTypes, KeyOrder, Keys, MaybeKey
    <2> QED BY <2>1, Zenon DEF KeysInv, KeyTypes, SenderTypes, SenderFlags,
       PeerOrder,
         DataInv, DataTypeOK
  <1> QED BY <1>1, KeysInit, KeysStep, PTL DEF DataSpec

LEMMA SendsForward ==
  ASSUME KeysInv, [DataNext]_dataVars, NEW s \in DataSenders,
         at[s] = "encrypt", at'[s] = "write"
  PROVE  /\ lastSent # NoKey => lastSent <= lastSent'
         /\ lastSent' = data
            \/ (lastSent' = retiring /\ "passed" \notin {retiringExpiry, pendingRetiringExpiry})
  <1> USE DEF control, windows, keys, sender, peer, Unlock, GoTo
  <1>1. at' # at
    OBVIOUS
  <1>2. PICK u \in DataSenders : Acquire(u) \/ SendPacket(u) \/ GiveUp(u)
    BY <1>1 DEF DataNext, dataVars, Handshake, stageRetiringWindow, Watch,
       AdoptKey, Exchange,
       installDataChannel, Installs, failControl, WindowPasses, PeerSwitches, MarkPeerActive,
       Decrypt
  <1>3. Encrypt(s)
    BY <1>2 DEF Acquire, SendPacket, GiveUp, Pause, Select, Promote, Encrypt,
       SelectAgain,
       Resume, Return, Leaves, KeysInv, SenderTypes
  <1> QED BY <1>3, DataAssumption DEF Encrypt, KeysInv, KeyTypes, SenderTypes,
     SenderOrder,
       KeyOrder, promotionIsDue, retiringExpired, Keys, MaybeKey

(* No packet leaves under a key older than the last one used, or under one   *)
(* that was dropped or whose window is over, whatever happens between the    *)
(* selection of a key and the encryption under it.                           *)
THEOREM KeysGoForwardHolds == DataSpec => KeysGoForward
  <1>1. KeysInv /\ [DataNext]_dataVars
        => [\A s \in DataSenders :
              at[s] = "encrypt" /\ at'[s] = "write"
              => /\ lastSent # NoKey => lastSent <= lastSent'
                 /\ lastSent' = data
                    \/ (lastSent' = retiring
                        /\ "passed" \notin {retiringExpiry, pendingRetiringExpiry})]_dataVars
    BY SendsForward
  <1> QED BY <1>1, KeysInit, KeysStep, PTL DEF DataSpec, KeysGoForward

-----------------------------------------------------------------------------
(* OpenVpnWrite: the queues of the gate. *)
IsOnce(q) == \A i, j \in 1 .. Len(q) : q[i] = q[j] => i = j

LEMMA FirstLeaves ==
  ASSUME NEW S, NEW q \in Seq(S), IsOnce(q), q # <<>>
  PROVE  /\ Head(q) \in S /\ Tail(q) \in Seq(S) /\ IsOnce(Tail(q))
         /\ Head(q) = q[1] /\ 1 \in 1 .. Len(q)
         /\ \A i \in 1 .. Len(Tail(q)) : /\ i + 1 \in 1 .. Len(q) /\ Tail(q)[i] = q[i + 1]
                                         /\ Tail(q)[i] # Head(q)
  <1>1. Head(q) = q[1] /\ 1 \in 1 .. Len(q) /\ Head(q) \in S /\ Tail(q) \in Seq(S)
        /\ Len(Tail(q)) = Len(q) - 1
    BY HeadTailProperties
  <1>2. \A i \in 1 .. Len(Tail(q)) : i + 1 \in 1 .. Len(q) /\ Tail(q)[i] = q[i + 1]
    BY <1>1, HeadTailProperties
  <1> QED BY <1>1, <1>2 DEF IsOnce

LEMMA LastComes ==
  ASSUME NEW S, NEW q \in Seq(S), IsOnce(q), NEW e \in S,
     \A i \in 1 .. Len(q) : q[i] # e
  PROVE  /\ Append(q, e) \in Seq(S) /\ IsOnce(Append(q, e))
         /\ \A i \in 1 .. Len(Append(q, e)) :
               Append(q, e)[i] = e \/ (i \in 1 .. Len(q) /\ Append(q, e)[i] = q[i])
  BY AppendProperties DEF IsOnce

LEMMA OneLeaves ==
  ASSUME NEW S, NEW q \in Seq(S), IsOnce(q), NEW e
  PROVE  /\ RemoveFirst(q, e) \in Seq(S) /\ IsOnce(RemoveFirst(q, e))
         /\ \A i \in 1 .. Len(RemoveFirst(q, e)) :
               /\ RemoveFirst(q, e)[i] # e
               /\ \E j \in 1 .. Len(q) : RemoveFirst(q, e)[i] = q[j]
  <1>1. CASE ~\E i \in 1 .. Len(q) : q[i] = e
    BY <1>1 DEF RemoveFirst
  <1>2. CASE \E i \in 1 .. Len(q) : q[i] = e
    <2>1. PICK n \in 1 .. Len(q) : q[n] = e
      BY <1>2
    <2>2. {i \in 1 .. Len(q) : q[i] = e} = {n}
      BY <2>1 DEF IsOnce
    <2>3. Min({n}) = n
      BY DEF Min
    <2>4. SelectInSeq(q, LAMBDA v : v = e) = n
      BY <2>2, <2>3 DEF SelectInSeq
    <2>5. RemoveFirst(q, e) = RemoveAt(q, n)
      BY <1>2, <2>4 DEF RemoveFirst
    <2> DEFINE r == RemoveAt(q, n)
    <2>6. /\ r \in Seq(S) /\ Len(r) = Len(q) - 1
          /\ \A i \in 1 .. Len(r) : r[i] = IF i < n THEN q[i] ELSE q[i + 1]
      <3> DEFINE a == SubSeq(q, 1, n - 1)
                 b == SubSeq(q, n + 1, Len(q))
      <3>1. a \in Seq(S) /\ Len(a) = n - 1 /\ \A i \in 1 .. n - 1 : a[i] = q[i]
        BY SubSeqProperties
      <3>2. b \in Seq(S) /\ Len(b) = Len(q) - n
            /\ \A i \in 1 .. Len(q) - n : b[i] = q[n + i]
        BY SubSeqProperties
      <3>3. r = a \o b
        BY DEF RemoveAt
      <3> HIDE DEF a, b, r
      <3>4. r \in Seq(S) /\ Len(r) = Len(q) - 1
        BY <3>1, <3>2, <3>3, ConcatProperties
      <3>5. \A i \in 1 .. Len(r) : r[i] = IF i < n THEN q[i] ELSE q[i + 1]
        BY <3>1, <3>2, <3>3, <3>4, ConcatProperties
      <3> QED BY <3>4, <3>5
    <2> HIDE DEF r
    <2>7. IsOnce(r)
      BY <2>6, SMTT(30) DEF IsOnce
    <2>8. \A i \in 1 .. Len(r) : r[i] # e /\ \E j \in 1 .. Len(q) : r[i] = q[j]
      BY <2>1, <2>6 DEF IsOnce
    <2> QED BY <2>5, <2>6, <2>7, <2>8 DEF r
  <1> QED BY <1>1, <1>2

-----------------------------------------------------------------------------
(* OpenVpnWrite *)
AtGate == {v \in Writers : pc[v] = "gate"}

WriteTypes ==
    /\ sendGate \in ControlWriters \cup {Nobody}
    /\ writeDeadline \in {"none", "future", "past"}
    /\ writeTimer \in Timer \cup {Nobody} /\ callbacks \subseteq Timer
    /\ waiting \in [Kinds -> Seq(Writers)] /\ granted \subseteq Writers
    /\ pc \in [Writers -> {"idle", "gate", "enter", "queued", "leaving", "held",
                           "writing", "wrote", "finish"}]
    /\ context \in [Writers -> {"live", "cancelled", "deadline", "stopped"}]
    /\ watching \in [Writers -> {"no", "armed", "closing", "over"}]
    /\ closed \in {"no", "cancelled", "otherwise"}

(* Who waits for sendGate has a generation ahead of it, who holds it has one. *)
CountsOK ==
    /\ IsFiniteSet(AtGate) /\ AtGate \subseteq ControlWriters
    /\ writeGeneration \in Nat /\ writeDeadlineGeneration \in Nat
    /\ writeGeneration + Cardinality(AtGate) <= LastWrite
    /\ writeDeadlineGeneration - writeGeneration <= LastDeadline
    /\ sendGate # Nobody => writeGeneration # 0

(* The gate has one owner, and who waits stands once in the queue of its     *)
(* kind until it is granted the gate or leaves.                              *)
GateOK ==
    /\ active = (granted # {}) /\ \A u, w \in granted : u = w
    /\ \A w \in Writers :
          /\ pc[w] \in {"held", "writing", "wrote"} => w \in granted
          /\ w \in granted => pc[w] \in {"queued", "leaving", "held", "writing", "wrote"}
    /\ granted = {} => \A k \in Kinds : waiting[k] = <<>>
    /\ \A k \in Kinds :
          /\ IsOnce(waiting[k])
          /\ \A i \in 1 .. Len(waiting[k]) :
                /\ Kind(waiting[k][i]) = k /\ waiting[k][i] \notin granted
                /\ pc[waiting[k][i]] \in {"queued", "leaving"}

(* A timer, and a callback of the present generation, is of the deadline     *)
(* that is set.                                                              *)
TimersOK ==
    /\ writeTimer # Nobody => /\ writeTimer.deadline = writeDeadlineGeneration
                              /\ writeDeadline # "none"
    /\ \A t \in callbacks :
          /\ t.deadline <= writeDeadlineGeneration
          /\ t.deadline = writeDeadlineGeneration => writeDeadline = "past"

(* A callback that is set watches a control write under way; one that is     *)
(* about to close the transport has seen the write cancelled.                *)
WatchedOK ==
    \A w \in Writers :
        /\ watching[w] \in {"armed", "closing"} =>
              w \in ControlWriters /\ pc[w] \in {"writing", "wrote"}
        /\ watching[w] = "closing" => Cancelled(w)

WriteProofInv == WriteTypes /\ CountsOK /\ GateOK /\ TimersOK /\ WatchedOK

LEMMA GrantKeeps ==
  ASSUME WriteProofInv, NEW w \in Writers, w \in granted, GrantNext(w),
         pc' = [pc EXCEPT ![w] = "finish"]
  PROVE  GateOK' /\ waiting' \in [Kinds -> Seq(Writers)] /\ granted' \subseteq Writers
  <1> USE DEF WriteProofInv, Kinds
  <1>1. granted = {w}
    BY DEF GateOK
  <1>2. \A v \in Writers : pc'[v] = IF v = w THEN "finish" ELSE pc[v]
    BY DEF WriteTypes
  <1> DEFINE k == IF waiting["control"] # <<>> THEN "control" ELSE "data"
  <1>3. CASE waiting[k] = <<>>
    <2>1. active' = FALSE /\ granted' = {} /\ UNCHANGED waiting
      BY <1>1, <1>3 DEF GrantNext
    <2>2. \A j \in Kinds : waiting[j] = <<>>
      BY <1>3 DEF WriteTypes
    <2>3. active' = (granted' # {})
      BY <2>1, Zenon
    <2>4. \A j \in Kinds : waiting'[j] = <<>> /\ IsOnce(waiting'[j])
      BY <2>1, <2>2 DEF IsOnce
    <2>5. \A v \in Writers : pc'[v] \notin {"held", "writing", "wrote"}
      BY <1>1, <1>2 DEF GateOK
    <2> QED BY <2>1, <2>3, <2>4, <2>5 DEF GateOK, WriteTypes
  <1>4. CASE waiting[k] # <<>>
    <2> DEFINE q == waiting[k]
               h == Head(q)
    <2>1. k \in Kinds /\ q \in Seq(Writers) /\ IsOnce(q)
      BY DEF WriteTypes, GateOK
    <2>2. granted' = {h} /\ waiting' = [waiting EXCEPT ![k] = Tail(q)] /\ UNCHANGED active
      BY <1>1, <1>4 DEF GrantNext
    <2> HIDE DEF q, k
    <2>3. /\ h \in Writers /\ Tail(q) \in Seq(Writers) /\ IsOnce(Tail(q))
          /\ h = q[1] /\ 1 \in 1 .. Len(q)
          /\ \A i \in 1 .. Len(Tail(q)) : /\ i + 1 \in 1 .. Len(q) /\ Tail(q)[i] = q[i + 1]
                                          /\ Tail(q)[i] # h
      BY <1>4, <2>1, FirstLeaves DEF q
    <2> HIDE DEF h
    <2>4. h \notin granted /\ h # w /\ pc'[h] \in {"queued",
       "leaving"} /\ Kind(h) = k
      BY <1>1, <1>2, <2>1, <2>3 DEF GateOK, q
    <2>5. \A j \in Kinds : waiting'[j] = IF j = k THEN Tail(q) ELSE waiting[j]
      BY <2>2 DEF WriteTypes
    <2>6. ASSUME NEW j \in Kinds
          PROVE  /\ IsOnce(waiting'[j])
                 /\ \A i \in 1 .. Len(waiting'[j]) :
                       /\ Kind(waiting'[j][i]) = j /\ waiting'[j][i] \notin granted'
                       /\ pc'[waiting'[j][i]] \in {"queued", "leaving"}
      <3>1. CASE j = k
        <4>1. ASSUME NEW i \in 1 .. Len(Tail(q))
              PROVE  /\ Kind(Tail(q)[i]) = k /\ Tail(q)[i] # h /\ Tail(q)[i] # w
                     /\ Tail(q)[i] \in Writers /\ pc[Tail(q)[i]] \in {"queued", "leaving"}
          <5>1. i + 1 \in 1 .. Len(q) /\ Tail(q)[i] = q[i + 1] /\ Tail(q)[i] # h
            BY <2>3
          <5>2. q[i + 1] \in Writers
            BY <2>1, <5>1, ElementOfSeq
          <5> QED BY <1>1, <2>1, <5>1, <5>2 DEF GateOK, q
        <4>2. waiting'[j] = Tail(q) /\ IsOnce(Tail(q))
          BY <2>3, <2>5, <3>1
        <4>3. \A i \in 1 .. Len(Tail(q)) :
                 /\ Kind(Tail(q)[i]) = j /\ Tail(q)[i] \notin granted'
                 /\ pc'[Tail(q)[i]] \in {"queued", "leaving"}
          BY <1>2, <2>2, <3>1, <4>1
        <4> QED BY <4>2, <4>3
      <3>2. CASE j # k
        <4>1. ASSUME NEW i \in 1 .. Len(waiting[j])
              PROVE  /\ Kind(waiting[j][i]) = j /\ waiting[j][i] # h /\ waiting[j][i] # w
                     /\ waiting[j][i] \in Writers /\ pc[waiting[j][i]] \in {"queued", "leaving"}
          <5>1. waiting[j][i] \in Writers
            BY ElementOfSeq DEF WriteTypes
          <5> QED BY <1>1, <2>4, <3>2, <5>1 DEF GateOK
        <4> QED BY <1>2, <2>2, <2>5, <3>2, <4>1 DEF GateOK
      <3> QED BY <3>1, <3>2
    <2>7. active' = (granted' # {})
      <3>1. granted' # {} /\ granted # {}
        BY <1>1, <2>2
      <3> QED BY <2>2, <3>1, Zenon DEF GateOK
    <2>8. \A v \in Writers :
             /\ pc'[v] \in {"held", "writing", "wrote"} => v \in granted'
             /\ v \in granted' => pc'[v] \in {"queued", "leaving", "held", "writing", "wrote"}
      BY <1>1, <1>2, <2>2, <2>4 DEF GateOK
    <2>9. waiting' \in [Kinds -> Seq(Writers)] /\ granted' \subseteq Writers
      BY <2>1, <2>2, <2>3 DEF WriteTypes
    <2> QED BY <2>2, <2>6, <2>7, <2>8, <2>9 DEF GateOK
  <1> QED BY <1>3, <1>4

(* A step of w that does not touch the gate. *)
LEMMA OutsideKeeps ==
  ASSUME WriteTypes, GateOK, NEW w \in Writers, NEW p, UNCHANGED gate,
         pc[w] \notin {"queued", "leaving", "held", "writing", "wrote"},
         p \notin {"queued", "leaving", "held", "writing", "wrote"},
         pc' = [pc EXCEPT ![w] = p]
  PROVE  GateOK'
  <1>1. \A v \in Writers : pc'[v] = IF v = w THEN p ELSE pc[v]
    BY DEF WriteTypes
  <1>2. \A k \in Kinds : \A i \in 1 .. Len(waiting[k]) :
           waiting[k][i] \in Writers /\ waiting[k][i] # w
    <2> SUFFICES ASSUME NEW k \in Kinds, NEW i \in 1 .. Len(waiting[k])
                 PROVE  waiting[k][i] \in Writers /\ waiting[k][i] # w
      OBVIOUS
    <2>1. waiting[k] \in Seq(Writers)
      BY DEF WriteTypes
    <2> QED BY <2>1, ElementOfSeq DEF GateOK
  <1> QED BY <1>1, <1>2 DEF GateOK, gate

LEMMA GateSame ==
  ASSUME GateOK, UNCHANGED <<gate, pc>>
  PROVE  GateOK'
  BY DEF GateOK, gate

LEMMA DeadlineKeeps ==
  ASSUME WriteProofInv,
         \/ \E d \in {"none", "future", "past"} : SetWriteDeadline(d)
         \/ DeadlinePasses \/ Fire \/ \E t \in callbacks : cancelWriteGeneration(t)
  PROVE  WriteProofInv'
  <1> USE WriteAssumption DEF WriteProofInv, gate, write
  <1>1. UNCHANGED <<gate, pc, watching, closed, sendGate, writeGeneration>>
    BY DEF SetWriteDeadline, DeadlinePasses, Fire, cancelWriteGeneration
  <1>2. GateOK'
    BY <1>1, GateSame
  <1>3. /\ context' \in [Writers -> {"live", "cancelled", "deadline", "stopped"}]
        /\ \A w \in Writers : context[w] # "live" => context'[w] = context[w]
    BY DEF SetWriteDeadline, DeadlinePasses, Fire, cancelWriteGeneration, Schedule,
       Done,
       WriteTypes
  <1>4. WatchedOK'
    BY <1>1, <1>3 DEF WatchedOK, Cancelled
  <1>5. WriteTypes' /\ CountsOK' /\ TimersOK'
    <2>1. ASSUME NEW d \in {"none", "future", "past"}, SetWriteDeadline(d)
          PROVE  WriteTypes' /\ CountsOK' /\ TimersOK'
      <3>1. CountsOK'
        BY <1>1, <2>1 DEF SetWriteDeadline, Schedule, CountsOK, AtGate
      <3>2. writeDeadlineGeneration' = writeDeadlineGeneration + 1
            /\ writeDeadlineGeneration' \in 1 .. LastWrite + LastDeadline
        <4>1. Cardinality(AtGate) \in Nat
          BY FS_CardinalityType DEF CountsOK
        <4> QED BY <1>1, <2>1, <3>1, <4>1 DEF SetWriteDeadline, Schedule, CountsOK,
           AtGate
      <3>3. writeTimer' \in Timer \cup {Nobody}
        <4>1. Cardinality(AtGate) \in Nat
          BY FS_CardinalityType DEF CountsOK
        <4>2. sendGate # Nobody => writeGeneration' \in 1 .. LastWrite
          BY <1>1, <4>1 DEF CountsOK
        <4> QED BY <2>1, <3>2, <4>2 DEF SetWriteDeadline, Schedule, Timer
      <3>4. TimersOK'
        <4>1. \A t \in callbacks' : t.deadline \in Nat /\ t.deadline < writeDeadlineGeneration'
          BY <2>1, <3>2 DEF SetWriteDeadline, TimersOK, WriteTypes, Timer, CountsOK
        <4>2. writeTimer' # Nobody => /\ writeTimer'.deadline = writeDeadlineGeneration'
                                      /\ writeDeadline' # "none"
          BY <2>1 DEF SetWriteDeadline, Schedule
        <4> QED BY <3>2, <4>1, <4>2 DEF TimersOK
      <3> QED BY <1>1, <1>3, <2>1, <3>1, <3>3, <3>4 DEF SetWriteDeadline, WriteTypes
    <2>2. CASE DeadlinePasses
      BY <2>2 DEF DeadlinePasses, WriteTypes, CountsOK, TimersOK, AtGate
    <2>3. CASE Fire
      <3>1. writeTimer \in Timer /\ writeTimer # Nobody
        BY <2>3 DEF Fire, WriteTypes
      <3>2. WriteTypes' /\ CountsOK'
        BY <2>3, <3>1 DEF Fire, WriteTypes, CountsOK, AtGate
      <3>3. TimersOK'
        BY <2>3, <3>1 DEF Fire, TimersOK, CountsOK
      <3> QED BY <3>2, <3>3
    <2>4. ASSUME NEW t \in callbacks, cancelWriteGeneration(t)
          PROVE  WriteTypes' /\ CountsOK' /\ TimersOK'
      BY <1>1, <1>3, <2>4 DEF cancelWriteGeneration, WriteTypes, CountsOK,
         TimersOK, AtGate
    <2> QED BY <2>1, <2>2, <2>3, <2>4
  <1> QED BY <1>2, <1>4, <1>5

LEMMA ChannelKeeps ==
  ASSUME WriteProofInv, NEW w \in Writers,
         BeginWrite(w) \/ CancelWrite(w) \/ TakeSendGate(w) \/ LeaveSendGate(w)
         \/ finishWrite(w)
  PROVE  WriteProofInv'
  <1> USE WriteAssumption DEF WriteProofInv, gate, write, channel, Moves
  <1>1. UNCHANGED <<gate, watching, closed, writeDeadline, callbacks>>
    BY DEF BeginWrite, CancelWrite, TakeSendGate, LeaveSendGate, finishWrite
  <1>2. UNCHANGED pc
        \/ \E p \in {"idle", "gate", "enter"} :
              /\ pc' = [pc EXCEPT ![w] = p]
              /\ pc[w] \notin {"queued", "leaving", "held", "writing", "wrote"}
    BY DEF BeginWrite, CancelWrite, TakeSendGate, LeaveSendGate, finishWrite
  <1>3. GateOK'
    BY <1>1, <1>2, GateSame, OutsideKeeps
  <1>4. /\ context' \in [Writers -> {"live", "cancelled", "deadline", "stopped"}]
        /\ \A v \in Writers : watching[v] = "closing" /\ context[v] # "live"
                                => context'[v] = context[v]
    BY DEF BeginWrite, CancelWrite, TakeSendGate, LeaveSendGate, finishWrite,
       Schedule,
       Done, WriteTypes, WatchedOK
  <1>5. WatchedOK'
    <2>1. \A v \in Writers : pc[v] \in {"writing", "wrote"} => pc'[v] = pc[v]
      BY <1>2 DEF WriteTypes
    <2> QED BY <1>1, <1>4, <2>1 DEF WatchedOK, Cancelled
  <1>6. pc' \in [Writers -> {"idle", "gate", "enter", "queued", "leaving", "held",
                             "writing", "wrote", "finish"}]
    BY <1>2 DEF WriteTypes
  <1>7. IsFiniteSet(AtGate) /\ Cardinality(AtGate) \in Nat
    BY FS_CardinalityType DEF CountsOK
  <1>8. WriteTypes' /\ CountsOK' /\ TimersOK'
    <2>1. CASE BeginWrite(w)
      <3>1. IF w \in ControlWriters THEN AtGate' = AtGate \cup {w} ELSE AtGate' = AtGate
        BY <2>1 DEF BeginWrite, AtGate, WriteTypes
      <3>2. CountsOK'
        <4>1. UNCHANGED channel
          BY <2>1 DEF BeginWrite
        <4>2. CASE w \in ControlWriters
          <5>1. w \notin AtGate /\ writeGeneration + Cardinality(AtGate) < LastWrite
            BY <2>1, <4>2 DEF BeginWrite, AtGate
          <5>2. IsFiniteSet(AtGate') /\ Cardinality(AtGate') = Cardinality(AtGate) + 1
            BY <1>7, <3>1, <4>2, <5>1, FS_AddElement
          <5> QED BY <1>7, <3>1, <4>1, <4>2, <5>1, <5>2 DEF CountsOK
        <4>3. CASE w \notin ControlWriters
          BY <3>1, <4>1, <4>3 DEF CountsOK
        <4> QED BY <4>2, <4>3
      <3> QED BY <1>6, <2>1, <3>2 DEF BeginWrite, WriteTypes, TimersOK
    <2>2. CASE CancelWrite(w)
      BY <1>4, <2>2 DEF CancelWrite, WriteTypes, CountsOK, TimersOK, AtGate
    <2>3. CASE TakeSendGate(w)
      <3>1. w \in AtGate /\ AtGate' = AtGate \ {w} /\ w \in ControlWriters
        BY <2>3 DEF TakeSendGate, AtGate, WriteTypes, CountsOK
      <3>2. IsFiniteSet(AtGate') /\ Cardinality(AtGate') = Cardinality(AtGate) - 1
        BY <1>7, <3>1, FS_RemoveElement
      <3>3. /\ writeGeneration' = writeGeneration + 1
            /\ writeDeadlineGeneration' = writeDeadlineGeneration + 1
            /\ sendGate' = w
        BY <2>3 DEF TakeSendGate, Schedule
      <3>4. CountsOK'
        BY <1>7, <3>1, <3>2, <3>3 DEF CountsOK
      <3>5. Cardinality(AtGate') \in Nat
        BY <3>4, FS_CardinalityType DEF CountsOK
      <3>6. writeGeneration' \in 1 .. LastWrite
            /\ writeDeadlineGeneration' \in 1 .. LastWrite + LastDeadline
        BY <3>3, <3>4, <3>5 DEF CountsOK
      <3>7. writeTimer' \in Timer \cup {Nobody}
        BY <2>3, <3>6 DEF TakeSendGate, Schedule, Timer
      <3>8. TimersOK'
        <4>1. \A t \in callbacks' : t.deadline \in Nat /\ t.deadline < writeDeadlineGeneration'
          BY <1>1, <3>3 DEF TimersOK, WriteTypes, Timer, CountsOK
        <4>2. writeTimer' # Nobody => /\ writeTimer'.deadline = writeDeadlineGeneration'
                                      /\ writeDeadline' # "none"
          BY <2>3 DEF TakeSendGate, Schedule
        <4> QED BY <3>6, <4>1, <4>2 DEF TimersOK
      <3> QED BY <1>1, <1>4, <1>6, <3>1, <3>3, <3>4, <3>7, <3>8 DEF WriteTypes
    <2>4. CASE LeaveSendGate(w)
      <3>1. AtGate' = AtGate \ {w} /\ w \in AtGate
        BY <2>4 DEF LeaveSendGate, AtGate, WriteTypes
      <3>2. IsFiniteSet(AtGate') /\ Cardinality(AtGate') = Cardinality(AtGate) - 1
        BY <1>7, <3>1, FS_RemoveElement
      <3>3. CountsOK'
        BY <1>7, <2>4, <3>1, <3>2 DEF LeaveSendGate, CountsOK
      <3> QED BY <1>4, <1>6, <2>4, <3>3 DEF LeaveSendGate, WriteTypes, TimersOK
    <2>5. CASE finishWrite(w)
      <3>1. AtGate' = AtGate
        BY <2>5 DEF finishWrite, AtGate, WriteTypes
      <3>2. CountsOK'
        BY <2>5, <3>1 DEF finishWrite, CountsOK
      <3> QED BY <1>4, <1>6, <2>5, <3>2 DEF finishWrite, WriteTypes, TimersOK
    <2> QED BY <2>1, <2>2, <2>3, <2>4, <2>5
  <1> QED BY <1>3, <1>5, <1>8

LEMMA ClosingKeeps ==
  ASSUME WriteProofInv, CloseMux \/ \E w \in Writers : Notice(w) \/ Abort(w)
  PROVE  WriteProofInv'
  <1> USE DEF WriteProofInv, gate, write, channel, CloseWith
  <1>1. UNCHANGED <<channel, gate, pc, context>>
    BY DEF CloseMux, Notice, Abort
  <1>2. GateOK' /\ CountsOK' /\ TimersOK'
    BY <1>1, GateSame DEF CountsOK, TimersOK, AtGate
  <1>3. WriteTypes'
    BY <1>1 DEF CloseMux, Notice, Abort, WriteTypes
  <1>4. WatchedOK'
    BY <1>1 DEF CloseMux, Notice, Abort, WatchedOK, Cancelled, Done, WriteTypes
  <1> QED BY <1>2, <1>3, <1>4

(* A step through the gate. *)
LEMMA ThroughGateKeeps ==
  ASSUME WriteProofInv, NEW w \in Writers,
         Enter(w) \/ Ready(w) \/ Leave(w) \/ abandon(w) \/ CheckWrite(w) \/ Written(w)
         \/ Returned(w)
  PROVE  WriteProofInv'
  <1> USE DEF WriteProofInv, channel, Moves, CloseWith
  <1>1. UNCHANGED <<channel, context>>
    BY DEF Enter, Ready, Leave, abandon, CheckWrite, Written, Returned
  <1>2. PICK p \in {"queued", "leaving", "held", "writing", "wrote", "finish"} :
           pc' = [pc EXCEPT ![w] = p]
    BY DEF Enter, Ready, Leave, abandon, CheckWrite, Written, Returned
  <1>3. pc[w] \in {"enter", "queued", "leaving", "held", "writing", "wrote"}
    BY DEF Enter, Ready, Leave, abandon, CheckWrite, Written, Returned
  <1>4. \A v \in Writers : pc'[v] = IF v = w THEN p ELSE pc[v]
    BY <1>2 DEF WriteTypes
  <1>10. \A x : pc' = [pc EXCEPT ![w] = x] => pc'[w] = x
    BY DEF WriteTypes
  <1>5. AtGate' = AtGate /\ CountsOK' /\ TimersOK'
    <2>1. AtGate' = AtGate
      BY <1>3, <1>4 DEF AtGate
    <2> QED BY <1>1, <2>1 DEF CountsOK, TimersOK
  <1>6. WatchedOK' /\ watching' \in [Writers -> {"no", "armed", "closing", "over"}]
    BY <1>1, <1>4 DEF Enter, Ready, Leave, abandon, CheckWrite, Written, Returned,
       WatchedOK,
       Cancelled, WriteTypes
  <1>7. closed' \in {"no", "cancelled", "otherwise"}
    BY DEF Enter, Ready, Leave, abandon, CheckWrite, Written, Returned, WriteTypes
  <1>8. GateOK' /\ waiting' \in [Kinds -> Seq(Writers)] /\ granted' \subseteq Writers
    <2>0. \A k \in Kinds : \A i \in 1 .. Len(waiting[k]) : waiting[k][i] \in Writers
      BY ElementOfSeq DEF WriteTypes
    <2>1. CASE Enter(w) /\ pc'[w] = "finish"
      BY <1>4, <2>1, <2>0, OutsideKeeps DEF Enter, gate, WriteTypes
    <2>2. CASE Enter(w) /\ pc'[w] = "held"
      <3>1. granted = {} /\ granted' = {w} /\ active' = TRUE /\ UNCHANGED waiting
        <4>1. ~active /\ active' = TRUE /\ granted' = granted \cup {w} /\ UNCHANGED waiting
          BY <1>10, <2>2 DEF Enter
        <4>2. granted = {}
          BY <4>1, Zenon DEF GateOK
        <4> QED BY <4>1, <4>2
      <3>2. active' = (granted' # {})
        BY <3>1, Zenon
      <3>3. \A k \in Kinds : waiting[k] = <<>>
        BY <3>1 DEF GateOK
      <3> QED BY <1>4, <2>2, <3>1, <3>2, <3>3 DEF GateOK, WriteTypes
    <2>3. CASE Enter(w) /\ pc'[w] = "queued"
      <3> DEFINE k == Kind(w)
                 q == waiting[k]
      <3>1. k \in Kinds /\ q \in Seq(Writers) /\ IsOnce(q) /\ pc[w] = "enter"
        BY <2>3 DEF Kind, Kinds, WriteTypes, GateOK, Enter
      <3>2. waiting' = [waiting EXCEPT ![k] = Append(q, w)] /\ UNCHANGED <<active,
         granted>>
            /\ granted # {}
        <4>1. active /\ waiting' = [waiting EXCEPT ![k] = Append(q, w)]
              /\ UNCHANGED <<active, granted>>
          BY <1>10, <2>3 DEF Enter
        <4>2. granted # {}
          BY <4>1, Zenon DEF GateOK
        <4> QED BY <4>1, <4>2
      <3>3. \A i \in 1 .. Len(q) : q[i] # w /\ q[i] \in Writers
        BY <2>0, <3>1 DEF GateOK
      <3> HIDE DEF q, k
      <3>4. /\ Append(q, w) \in Seq(Writers) /\ IsOnce(Append(q, w))
            /\ \A i \in 1 .. Len(Append(q, w)) :
                  Append(q, w)[i] = w \/ (i \in 1 .. Len(q) /\ Append(q,
                     w)[i] = q[i])
        BY <3>1, <3>3, LastComes
      <3>5. w \notin granted
        BY <3>1 DEF GateOK
      <3>6. \A j \in Kinds : waiting'[j] = IF j = k THEN Append(q,
         w) ELSE waiting[j]
        BY <3>2 DEF WriteTypes
      <3>7. ASSUME NEW j \in Kinds
            PROVE  /\ IsOnce(waiting'[j])
                   /\ \A i \in 1 .. Len(waiting'[j]) :
                         /\ Kind(waiting'[j][i]) = j /\ waiting'[j][i] \notin granted'
                         /\ pc'[waiting'[j][i]] \in {"queued", "leaving"}
        <4>1. CASE j = k
          <5>1. waiting'[j] = Append(q, w)
            BY <3>6, <4>1
          <5>2. \A i \in 1 .. Len(q) : /\ Kind(q[i]) = k /\ q[i] \notin granted
                                       /\ pc'[q[i]] \in {"queued", "leaving"}
            BY <1>4, <3>1, <3>3 DEF GateOK, q
          <5>3. Kind(w) = k /\ pc'[w] \in {"queued", "leaving"}
            BY <2>3 DEF k
          <5>4. \A i \in 1 .. Len(Append(q, w)) :
                   /\ Kind(Append(q, w)[i]) = k /\ Append(q, w)[i] \notin granted
                   /\ pc'[Append(q, w)[i]] \in {"queued", "leaving"}
            BY <3>4, <3>5, <5>2, <5>3
          <5> DEFINE a == Append(q, w)
          <5>5. /\ waiting'[j] = a /\ IsOnce(a) /\ j = k /\ granted' = granted
                /\ \A i \in 1 .. Len(a) : /\ Kind(a[i]) = k /\ a[i] \notin granted
                                          /\ pc'[a[i]] \in {"queued", "leaving"}
            BY <3>2, <3>4, <4>1, <5>1, <5>4
          <5> HIDE DEF a
          <5> QED BY <5>5
        <4>2. CASE j # k
          BY <1>4, <2>0, <2>3, <3>2, <3>6, <4>2 DEF GateOK
        <4> QED BY <4>1, <4>2
      <3>8. active' = (granted' # {})
        BY <3>2, Zenon DEF GateOK
      <3>9. waiting' \in [Kinds -> Seq(Writers)]
        BY <3>1, <3>2, <3>4 DEF WriteTypes
      <3> QED BY <1>4, <2>3, <3>2, <3>5, <3>7, <3>8, <3>9 DEF GateOK, WriteTypes
    <2>4. CASE Ready(w) \/ Leave(w) \/ Written(w)
             \/ (CheckWrite(w) /\ pc'[w] = "writing")
      <3>1. UNCHANGED gate
        BY <1>10, <2>4 DEF Ready, Leave, Written, CheckWrite
      <3>2. /\ pc'[w] \in {"held", "writing", "wrote"} => w \in granted
            /\ pc'[w] \in {"queued", "leaving", "held", "writing", "wrote"}
            /\ pc[w] \in {"queued", "leaving"} => pc'[w] \in {"leaving", "held"}
            /\ pc[w] \in {"queued", "leaving"} /\ w \notin granted => pc'[w] = "leaving"
        BY <1>10, <2>4 DEF Ready, Leave, Written, CheckWrite, GateOK
      <3>3. pc[w] \in {"queued", "leaving", "held", "writing", "wrote"}
        BY <1>4, <2>4 DEF Ready, Leave, Written, CheckWrite
      <3> QED BY <1>4, <2>0, <3>1, <3>2, <3>3 DEF GateOK, gate, WriteTypes
    <2>5. CASE Returned(w) \/ (CheckWrite(w) /\ pc'[w] = "finish")
             \/ (abandon(w) /\ w \in granted)
      <3>1. w \in granted /\ GrantNext(w) /\ p = "finish"
        <4>1. GrantNext(w) /\ p = "finish"
          BY <1>2, <1>10, <2>5 DEF Returned, CheckWrite, abandon
        <4>2. w \in granted
          BY <2>5 DEF Returned, CheckWrite, GateOK
        <4> QED BY <4>1, <4>2
      <3> QED BY <1>2, <3>1, GrantKeeps
    <2>6. CASE abandon(w) /\ w \notin granted
      <3> DEFINE k == Kind(w)
                 q == waiting[k]
                 r == RemoveFirst(q, w)
      <3>1. k \in Kinds /\ q \in Seq(Writers) /\ IsOnce(q)
        BY DEF Kind, Kinds, WriteTypes, GateOK
      <3>2. waiting' = [waiting EXCEPT ![k] = r] /\ UNCHANGED <<active, granted>>
            /\ pc'[w] = "finish"
        BY <1>10, <2>6 DEF abandon
      <3>3. /\ r \in Seq(Writers) /\ IsOnce(r)
            /\ \A i \in 1 .. Len(r) : r[i] # w /\ \E j \in 1 .. Len(q) : r[i] = q[j]
        BY <3>1, OneLeaves
      <3>4. \A i \in 1 .. Len(q) : /\ q[i] \in Writers /\ Kind(q[i]) = k /\ q[i] \notin granted
                                   /\ pc[q[i]] \in {"queued", "leaving"}
        BY <2>0, <3>1 DEF GateOK
      <3>5. granted = {} => q = <<>>
        BY <3>1 DEF GateOK
      <3>6. granted = {} => r = <<>>
        <4>1. q = <<>> => Len(q) = 0
          OBVIOUS
        <4>2. Len(q) = 0 => Len(r) = 0
          <5> HIDE DEF q, r
          <5> QED BY <3>1, <3>3
        <4> HIDE DEF q, r
        <4> QED BY <3>3, <3>5, <4>1, <4>2, EmptySeq
      <3> HIDE DEF q, k, r
      <3>7. \A j \in Kinds : waiting'[j] = IF j = k THEN r ELSE waiting[j]
        BY <3>2 DEF WriteTypes
      <3>8. ASSUME NEW j \in Kinds
            PROVE  /\ IsOnce(waiting'[j])
                   /\ \A i \in 1 .. Len(waiting'[j]) :
                         /\ Kind(waiting'[j][i]) = j /\ waiting'[j][i] \notin granted'
                         /\ pc'[waiting'[j][i]] \in {"queued", "leaving"}
        <4>1. CASE j = k
          <5>1. waiting'[j] = r
            BY <3>7, <4>1
          <5> QED BY <1>4, <3>2, <3>3, <3>4, <4>1, <5>1
        <4>2. CASE j # k
          <5>1. \A i \in 1 .. Len(waiting[j]) : waiting[j][i] # w
            BY <4>2 DEF GateOK, k
          <5> QED BY <1>4, <2>0, <3>2, <3>7, <4>2, <5>1 DEF GateOK
        <4> QED BY <4>1, <4>2
      <3>9. active' = (granted' # {})
        BY <3>2, Zenon DEF GateOK
      <3>10. waiting' \in [Kinds -> Seq(Writers)]
        BY <3>1, <3>2, <3>3 DEF WriteTypes
      <3> QED BY <1>4, <2>6, <3>2, <3>6, <3>7, <3>8, <3>9, <3>10 DEF GateOK,
         WriteTypes
    <2>7. Enter(w) => pc'[w] \in {"finish", "held", "queued"}
      BY <1>10 DEF Enter
    <2>8. CheckWrite(w) => pc'[w] \in {"finish", "writing"}
      BY <1>10 DEF CheckWrite
    <2> QED BY <2>1, <2>2, <2>3, <2>4, <2>5, <2>6, <2>7, <2>8
  <1>9. WriteTypes'
    <2>1. pc' \in [Writers -> {"idle", "gate", "enter", "queued", "leaving", "held",
                               "writing", "wrote", "finish"}]
      BY <1>2 DEF WriteTypes
    <2> QED BY <1>1, <1>6, <1>7, <1>8, <2>1 DEF WriteTypes
  <1> QED BY <1>5, <1>6, <1>8, <1>9

LEMMA WriteStepKeeps ==
  ASSUME WriteProofInv, [WriteNext]_writeVars
  PROVE  WriteProofInv'
  <1>1. CASE UNCHANGED writeVars
    BY <1>1 DEF writeVars, channel, gate, write, WriteProofInv, WriteTypes,
       CountsOK, AtGate,
       GateOK, TimersOK, WatchedOK, Cancelled
  <1>2. ASSUME NEW w \in Writers, BeginWrite(w) \/ CancelWrite(w) \/ WriteStep(w)
                                  \/ Written(w) \/ Notice(w) \/ Abort(w)
        PROVE  WriteProofInv'
    BY <1>2, ChannelKeeps, ThroughGateKeeps, ClosingKeeps DEF WriteStep
  <1>3. ASSUME \/ \E d \in {"none", "future", "past"} : SetWriteDeadline(d)
               \/ DeadlinePasses \/ Fire \/ \E t \in callbacks : cancelWriteGeneration(t)
        PROVE  WriteProofInv'
    BY <1>3, DeadlineKeeps
  <1>4. CASE CloseMux
    BY <1>4, ClosingKeeps
  <1> QED BY <1>1, <1>2, <1>3, <1>4 DEF WriteNext

LEMMA WriteProofInit ==
  ASSUME WriteInit
  PROVE  WriteProofInv
  <1> USE WriteAssumption DEF WriteInit
  <1>1. WriteTypes
    BY DEF WriteTypes, Kinds
  <1>2. CountsOK
    <2>1. AtGate = {}
      BY DEF AtGate
    <2> QED BY <2>1, FS_EmptySet DEF CountsOK
  <1>3. GateOK
    <2>1. active = (granted # {})
      BY Zenon
    <2>2. \A k \in Kinds : waiting[k] = <<>> /\ IsOnce(waiting[k])
      BY DEF IsOnce
    <2> QED BY <2>1, <2>2 DEF GateOK
  <1>4. TimersOK /\ WatchedOK
    BY DEF TimersOK, WatchedOK
  <1> QED BY <1>1, <1>2, <1>3, <1>4 DEF WriteProofInv

(* The gate of the transport is never given to two writers and never taken   *)
(* with nobody to release it, whoever is cancelled between the grant and the *)
(* lock.                                                                     *)
THEOREM WriteInvHolds == WriteSpec => []WriteInv
  <1>1. WriteProofInv => WriteInv
    <2> SUFFICES ASSUME WriteProofInv PROVE WriteInv
      OBVIOUS
    <2>1. writeGeneration \in 0 .. LastWrite
          /\ writeDeadlineGeneration \in 0 .. LastWrite + LastDeadline
      <3>1. Cardinality(AtGate) \in Nat
        BY FS_CardinalityType DEF WriteProofInv, CountsOK
      <3> QED BY <3>1, WriteAssumption DEF WriteProofInv, CountsOK
    <2>2. active \in BOOLEAN /\ (active <=> granted # {})
      BY Zenon DEF WriteProofInv, GateOK
    <2>3. Cardinality(granted) <= 1
      <3>1. CASE granted = {}
        BY <3>1, FS_EmptySet
      <3>2. CASE granted # {}
        <4>1. \A u, w \in granted : u = w
          BY DEF WriteProofInv, GateOK
        <4>2. PICK w : granted = {w}
          BY <3>2, <4>1
        <4> QED BY <4>2, FS_Singleton
      <3> QED BY <3>1, <3>2
    <2>4. WriteTypeOK
      BY <2>1, <2>2, Zenon DEF WriteProofInv, WriteTypes, WriteTypeOK
    <2>5. GateIsHeld
      BY <2>2, <2>3, Zenon DEF WriteProofInv, GateOK, GateIsHeld
    <2> QED BY <2>4, <2>5 DEF WriteInv
  <1> QED BY <1>1, WriteProofInit, WriteStepKeeps, PTL DEF WriteSpec

LEMMA CancelsOwn ==
  ASSUME WriteProofInv, [WriteNext]_writeVars
  PROVE  /\ \A w \in Writers :
              context[w] = "live" /\ context'[w] = "deadline"
              => sendGate' = w /\ writeDeadline' = "past"
         /\ closed' = "cancelled" /\ closed = "no"
            => \E w \in ControlWriters : pc[w] \in {"writing", "wrote"} /\ Cancelled(w)
  <1> USE DEF WriteProofInv, channel, gate, write
  <1>1. ASSUME NEW w \in Writers, context[w] = "live", context'[w] = "deadline"
        PROVE  sendGate' = w /\ writeDeadline' = "past"
    <2>1. \/ \E v \in Writers : CancelWrite(v) \/ TakeSendGate(v) \/ LeaveSendGate(v)
                                \/ finishWrite(v)
          \/ \E d \in {"none", "future", "past"} : SetWriteDeadline(d)
          \/ \E t \in callbacks : cancelWriteGeneration(t)
      BY <1>1 DEF WriteNext, WriteStep, writeVars, BeginWrite, Enter, Ready, Leave,
         abandon,
         CheckWrite, Written, Returned, Notice, Abort, CloseMux, DeadlinePasses,
            Fire
    <2>2. CASE \E v \in Writers : CancelWrite(v) \/ LeaveSendGate(v) \/ finishWrite(v)
      BY <1>1, <2>2 DEF CancelWrite, LeaveSendGate, finishWrite, WriteTypes
    <2>3. CASE \E v \in Writers : TakeSendGate(v)
      BY <1>1, <2>3 DEF TakeSendGate, Schedule, Done
    <2>4. CASE \E d \in {"none", "future", "past"} : SetWriteDeadline(d)
      BY <1>1, <2>4 DEF SetWriteDeadline, Schedule, Done
    <2>5. CASE \E t \in callbacks : cancelWriteGeneration(t)
      BY <1>1, <2>5 DEF cancelWriteGeneration, Done, TimersOK
    <2> QED BY <2>1, <2>2, <2>3, <2>4, <2>5
  <1>2. ASSUME closed' = "cancelled", closed = "no"
        PROVE  \E w \in ControlWriters : pc[w] \in {"writing",
           "wrote"} /\ Cancelled(w)
    <2>1. \E w \in Writers : Abort(w)
      BY <1>2 DEF WriteNext, WriteStep, writeVars, BeginWrite, CancelWrite,
         TakeSendGate,
         LeaveSendGate, finishWrite, SetWriteDeadline, cancelWriteGeneration,
            Enter, Ready,
         Leave, abandon, CheckWrite, Written, Returned, Notice, CloseMux, CloseWith,
         DeadlinePasses, Fire
    <2> QED BY <2>1 DEF Abort, WatchedOK
  <1> QED BY <1>1, <1>2

(* A deadline cancels the write that it applies to, however late its timer   *)
(* fires, and a cancellation closes the transport only for a write that it   *)
(* has found on its way.                                                     *)
THEOREM CancelsItsOwnHolds == WriteSpec => CancelsItsOwn
  <1>1. WriteProofInv /\ [WriteNext]_writeVars
        => [\A w \in Writers :
              context[w] = "live" /\ context'[w] = "deadline"
              => sendGate' = w /\ writeDeadline' = "past"]_writeVars
    BY CancelsOwn
  <1>2. WriteProofInv /\ [WriteNext]_writeVars
        => [closed' = "cancelled" /\ closed = "no"
            => \E w \in ControlWriters : pc[w] \in {"writing", "wrote"} /\ Cancelled(w)
           ]_writeVars
    BY CancelsOwn
  <1> QED BY <1>1, <1>2, WriteProofInit, WriteStepKeeps, PTL
       DEF WriteSpec, CancelsItsOwn, DeadlineIsItsOwn, CloseIsForTheCancelled

-----------------------------------------------------------------------------
(* OpenVpnControl                                                            *)
(*                                                                           *)
(* What either side strikes from its list the other must have got.  So the   *)
(* datagrams in flight are part of the invariant (BoxOK): one of the present *)
(* epoch acknowledges only what its sender has received, and one of an older *)
(* epoch is told apart by its key id (KeyIDsName).  While the server is an   *)
(* epoch ahead it has received nothing in it, so nothing can be struck       *)
(* (EpochOK), and a soft reset is shown only in that case.  TLS has been     *)
(* given a stretch of the epoch's messages from the first (StreamOK), and    *)
(* the end of an epoch makes it longer by just what is in turn (InTurnUpTo). *)

(* What the client has of the epoch, delivered or buffered.                  *)
Received == {i \in Nat : i < recvMessage \/ \E m \in recvPending : m.id = i}

(* Datagrams of epochs up to e; those of e acknowledge only what is got.     *)
BoxOK(box, ids, others, e, got) ==
    /\ box \in [ids \cup {None} -> Datagrams(others) \cup {None}]
    /\ \A i \in ids \cup {None} : box[i] # None =>
          box[i].epoch <= e /\ (box[i].epoch = e => box[i].acks \subseteq got)

Modes == {"closed", "hardReset", "tls", "watch", "parked", "probe",
          "reset", "resetProbe", "adopted"}

ModeOK ==
    /\ epoch \in Epochs /\ remote \in BOOLEAN /\ mode \in Modes
    /\ mode \in {"watch", "parked", "probe", "reset", "resetProbe"} => recvMessage > 0
SentOK ==
    /\ sendMessage \in Nat /\ pending \subseteq ClientIDs
    /\ mode \in {"closed", "adopted"} => sendMessage = 0
AcksOK ==
    /\ ackPending \in Seq(ServerIDs) /\ lruAcks \in Seq(ServerIDs)
    /\ Len(lruAcks) <= AckSize
    /\ Ids(ackPending) \subseteq Received /\ Ids(lruAcks) \subseteq Received
WindowOK ==
    /\ recvMessage \in Nat /\ recvPending \subseteq Message
    /\ \A m \in recvPending :
          m.epoch = epoch /\ m.id \in recvMessage .. recvMessage + Capacity - 1

(* The first n messages of epoch e.                                          *)
Stretch(e, n) == [k \in 1 .. n |-> [epoch |-> e, id |-> k]]
StreamOK ==
    /\ stream \in Seq(Message) /\ parkedTLS \in Seq(Message)
    /\ parkedTLS # <<>> => mode = "parked"
    /\ stream \o parkedTLS =
          Stretch(epoch, IF recvMessage = 0 THEN 0 ELSE recvMessage - 1)

EpochOK ==
    /\ sEpoch \in Epochs /\ sEpoch \in {epoch, epoch + 1}
    /\ sEpoch = epoch + 1 => sSent = 1 /\ sPending = {0} /\ sGot = {}
    /\ mode \in {"reset", "resetProbe"} => sEpoch = epoch + 1
    /\ pendingSoftReset \in Epochs \cup {None}
    /\ pendingSoftReset # None => pendingSoftReset <= sEpoch
ServerOK ==
    /\ sSent \in Nat /\ sPending \subseteq ServerIDs /\ sGot \subseteq ClientIDs
    /\ sEpoch = epoch =>
          /\ (0 .. sSent - 1) \ sPending \subseteq Received
          /\ (0 .. sendMessage - 1) \ pending \subseteq sGot
OutOK == BoxOK(toServer, ClientIDs, ServerIDs, epoch, Received)
InOK == BoxOK(toClient, ServerIDs, ClientIDs, sEpoch, sGot)

ControlProofInv ==
    /\ ModeOK /\ SentOK /\ AcksOK /\ WindowOK /\ StreamOK /\ EpochOK /\ ServerOK
    /\ OutOK /\ InOK /\ faults \in 0 .. MaxFaults

LEMMA Sizes ==
    /\ LastServer \in Nat /\ LastClient \in Nat /\ LateMessages \in Nat
    /\ LastEpoch \in Nat /\ KeyIDMask \in Nat /\ LastEpoch < KeyIDMask
    /\ AckMax \in Nat \ {0} /\ AckSize \in Nat /\ AckMax <= AckSize
    /\ Capacity \in Nat \ {0} /\ None \notin Nat /\ MaxFaults \in Nat
    /\ Epochs \subseteq Nat /\ ServerIDs \subseteq Nat /\ ClientIDs \subseteq Nat
    /\ 0 \in ServerIDs /\ 0 \in ClientIDs
  BY ControlAssumption DEF LastServer, LastClient, Epochs, ServerIDs, ClientIDs

(* Key ids do not come again within a run, so they name the epochs.          *)
LEMMA KeyIDsName ==
  /\ \A e \in Epochs : KeyID(e) = e
  /\ \A d, e \in Epochs : KeyID(d) = NextKeyID(KeyID(e)) <=> d = e + 1
  <1>1. ASSUME NEW e \in Epochs PROVE KeyID(e) = e
    <2>1. CASE e = 0
      BY <2>1 DEF KeyID
    <2>2. CASE e # 0
      <3>1. e - 1 \in Nat /\ e - 1 < KeyIDMask
        BY <2>2, Sizes DEF Epochs
      <3>2. (e - 1) % KeyIDMask = e - 1
        BY <3>1, Sizes
      <3> QED
        BY <2>2, <3>1, <3>2, Sizes DEF KeyID
    <2> QED
      BY <2>1, <2>2
  <1>2. ASSUME NEW d \in Epochs, NEW e \in Epochs
        PROVE  KeyID(d) = NextKeyID(KeyID(e)) <=> d = e + 1
    BY <1>1, Sizes DEF NextKeyID, Epochs
  <1> QED
    BY <1>1, <1>2

-----------------------------------------------------------------------------
(* Datagrams in flight *)

LEMMA BoxGrows ==
  ASSUME NEW box, NEW ids, NEW others, NEW e, NEW got, NEW more,
         BoxOK(box, ids, others, e, got), got \subseteq more
  PROVE  BoxOK(box, ids, others, e, more)
  BY DEF BoxOK

LEMMA BoxPut ==
  ASSUME NEW box, NEW ids, NEW others, NEW e, NEW got,
         BoxOK(box, ids, others, e, got),
         NEW i \in ids \cup {None}, NEW d \in Epochs, NEW acks \in SUBSET others,
         d <= e, d = e => acks \subseteq got
  PROVE  BoxOK([box EXCEPT ![i] = [epoch |-> d, acks |-> acks]],
               ids, others, e, got)
  BY DEF BoxOK, Datagrams

LEMMA BoxTake ==
  ASSUME NEW box, NEW ids, NEW others, NEW e, NEW got,
         BoxOK(box, ids, others, e, got), NEW i \in ids \cup {None}
  PROVE  BoxOK([box EXCEPT ![i] = None], ids, others, e, got)
  BY DEF BoxOK

LEMMA BoxAgain ==
  ASSUME NEW box, NEW ids, NEW others, NEW e, NEW got, NEW again,
         BoxOK(box, ids, others, e, got),
         NEW d \in Epochs, NEW acks \in SUBSET others,
         d <= e, d = e => acks \subseteq got
  PROVE  BoxOK(Again(box, again, [epoch |-> d, acks |-> acks]),
               ids, others, e, got)
  BY DEF BoxOK, Datagrams, Again

LEMMA BoxNext ==
  ASSUME NEW box, NEW ids, NEW others, NEW e \in Epochs, NEW got,
         BoxOK(box, ids, others, e, got)
  PROVE  BoxOK(box, ids, others, e + 1, {})
  <1> SUFFICES ASSUME NEW i \in ids \cup {None}, box[i] # None
               PROVE  box[i].epoch <= e + 1 /\ box[i].epoch # e + 1
    BY DEF BoxOK
  <1>1. box[i] \in Datagrams(others) /\ box[i].epoch <= e
    BY DEF BoxOK
  <1> QED
    BY <1>1, Sizes DEF Datagrams

-----------------------------------------------------------------------------
(* Acknowledgements *)

LEMMA FirstIs ==
  ASSUME NEW T, NEW s \in Seq(T), NEW n \in Nat
  PROVE  /\ First(s, n) \in Seq(T) /\ Len(First(s, n)) <= n
         /\ Len(First(s, n)) <= Len(s)
         /\ Ids(First(s, n)) \subseteq Ids(s)
  BY DEF First, Ids

LEMMA TakeAcksKeeps ==
  ASSUME AcksOK, TakeAcks, UNCHANGED <<recvMessage, recvPending>>
  PROVE  AcksOK' /\ Acks \subseteq Received /\ Acks \in SUBSET ServerIDs
  <1> DEFINE shown == First(ackPending, AckMax)
             rest == {j \in DOMAIN lruAcks : lruAcks[j] \notin Ids(shown)}
  <1>0. AckMax \in Nat /\ AckSize \in Nat
    BY Sizes
  <1>1. shown \in Seq(ServerIDs) /\ Ids(shown) \subseteq Received
        /\ Len(shown) <= Len(ackPending)
    BY <1>0, FirstIs DEF AcksOK
  <1>2. Cardinality(rest) \in Nat
    <2>1. Len(lruAcks) \in Nat /\ DOMAIN lruAcks = 1 .. Len(lruAcks)
      BY DEF AcksOK
    <2>2. IsFiniteSet(DOMAIN lruAcks)
      BY <2>1, FS_Interval
    <2>3. rest \in SUBSET (DOMAIN lruAcks)
      OBVIOUS
    <2> HIDE DEF rest
    <2>4. IsFiniteSet(rest)
      BY <2>2, <2>3, FS_Subset
    <2> QED
      BY <2>4, FS_CardinalityType
  <1>3. PICK pick \in [1 .. Cardinality(rest) -> rest] :
           lruAcks' = First(shown \o [i \in DOMAIN pick |-> lruAcks[pick[i]]], AckSize)
    BY DEF TakeAcks
  <1> DEFINE others == [i \in DOMAIN pick |-> lruAcks[pick[i]]]
             all == shown \o others
  <1>4. others \in Seq(ServerIDs) /\ Ids(others) \subseteq Received
    <2>1. rest \subseteq DOMAIN lruAcks /\ \A j \in DOMAIN lruAcks :
             lruAcks[j] \in ServerIDs /\ lruAcks[j] \in Received
      BY DEF AcksOK, Ids
    <2> DEFINE n == Cardinality(rest)
    <2>2. n \in Nat /\ pick \in [1 .. n -> rest]
      BY <1>2
    <2> HIDE DEF rest, n
    <2>3. others \in [1 .. n -> ServerIDs] /\ \A i \in 1 .. n : others[i] \in Received
      BY <2>1, <2>2
    <2> HIDE DEF others
    <2>4. others \in Seq(ServerIDs) /\ DOMAIN others = 1 .. n
      BY <2>2, <2>3
    <2> QED
      BY <2>3, <2>4 DEF Ids
  <1>5. all \in Seq(ServerIDs) /\ Ids(all) \subseteq Received
    <2> HIDE DEF shown, others
    <2> QED BY <1>1, <1>4 DEF Ids
  <1>6. lruAcks' \in Seq(ServerIDs) /\ Len(lruAcks') <= AckSize
        /\ Ids(lruAcks') \subseteq Received
    <2>1. lruAcks' = First(all, AckSize)
      BY <1>3
    <2> HIDE DEF all
    <2> QED BY <1>0, <2>1, <1>5, FirstIs
  <1>7. Acks \subseteq Received /\ Acks \in SUBSET ServerIDs
    <2>1. First(lruAcks', AckMax) \in Seq(ServerIDs)
          /\ Ids(First(lruAcks', AckMax)) \subseteq Ids(lruAcks')
      BY <1>0, <1>6, FirstIs
    <2> QED
      BY <2>1, <1>6 DEF Acks, Ids
  <1>8. ackPending' \in Seq(ServerIDs) /\ Ids(ackPending') \subseteq Received
    <2>1. ackPending' = SubSeq(ackPending, Len(shown) + 1, Len(ackPending))
      BY DEF TakeAcks
    <2> HIDE DEF shown
    <2> QED BY <2>1, <1>1 DEF AcksOK, Ids
  <1>9. Received' = Received
    BY DEF Received
  <1> QED
    BY <1>6, <1>7, <1>8, <1>9 DEF AcksOK

-----------------------------------------------------------------------------
(* What the client sends *)

LEMMA WriteKeeps ==
  ASSUME ControlProofInv, TakeAcks, UNCHANGED <<epoch, recvMessage, recvPending>>,
         NEW i \in ClientIDs \cup {None}, Write(i)
  PROVE  AcksOK' /\ OutOK' /\ toClient' = toClient
  <1>1. AcksOK' /\ Acks \subseteq Received /\ Acks \in SUBSET ServerIDs
    BY TakeAcksKeeps DEF ControlProofInv
  <1>2. Received' = Received /\ epoch \in Epochs /\ epoch <= epoch
    BY Sizes DEF Received, ControlProofInv, ModeOK
  <1>3. OutOK
    BY DEF ControlProofInv
  <1>4. BoxOK([toServer EXCEPT ![i] = [epoch |-> epoch, acks |-> Acks]],
              ClientIDs, ServerIDs, epoch, Received)
    BY <1>1, <1>2, <1>3, BoxPut DEF OutOK
  <1> QED
    BY <1>1, <1>2, <1>4 DEF OutOK, Write

LEMMA SendKeeps ==
  ASSUME ControlProofInv, Send, sendMessage \in ClientIDs,
         mode \in {"closed", "tls", "adopted"}, mode' \in {"hardReset", "tls"},
         UNCHANGED <<epoch, remote, recvMessage, recvPending, parkedTLS,
                     pendingSoftReset, stream, serverSide>>
  PROVE  ControlProofInv'
  <1> USE DEF ControlProofInv, serverSide, Send
  <1>1. AcksOK' /\ OutOK' /\ toClient' = toClient
    BY WriteKeeps
  <1>2. ModeOK' /\ WindowOK' /\ EpochOK' /\ faults' \in 0 .. MaxFaults
    BY DEF ModeOK, WindowOK, EpochOK, Modes
  <1>3. SentOK'
    BY DEF SentOK, ClientIDs
  <1>4. StreamOK'
    BY DEF StreamOK
  <1>5. ServerOK'
    BY DEF ServerOK, SentOK, Received
  <1>6. InOK'
    BY <1>1 DEF InOK
  <1> QED
    BY <1>1, <1>2, <1>3, <1>4, <1>5, <1>6

LEMMA SendsKeep ==
  ASSUME ControlProofInv, SendReset \/ SendNext \/ SendSoftReset
  PROVE  ControlProofInv'
  <1>1. CASE SendReset \/ SendSoftReset
    <2>1. sendMessage \in ClientIDs
      BY <1>1, Sizes DEF SendReset, SendSoftReset, ControlProofInv, SentOK
    <2> QED
      BY <1>1, <2>1, SendKeeps DEF SendReset, SendSoftReset
  <1>2. CASE SendNext
    <2>1. sendMessage \in ClientIDs
      BY <1>2, Sizes DEF SendNext, ClientIDs
    <2> QED
      BY <1>2, <2>1, SendKeeps DEF SendNext
  <1> QED
    BY <1>1, <1>2

LEMMA RepeatKeeps ==
  ASSUME ControlProofInv, RetransmitPending \/ SendAck
  PROVE  ControlProofInv'
  <1> USE DEF ControlProofInv, serverSide
  <1>1. TakeAcks /\ UNCHANGED <<epoch, mode, remote, sendMessage, recvMessage, pending,
           recvPending, parkedTLS, pendingSoftReset, stream, sEpoch, sSent, sPending,
           sGot, toClient, faults>>
    BY DEF RetransmitPending, SendAck, Write
  <1>2. AcksOK' /\ Acks \subseteq Received /\ Acks \in SUBSET ServerIDs
    BY <1>1, TakeAcksKeeps
  <1>3. OutOK'
    <2>1. CASE SendAck
      BY <2>1, WriteKeeps DEF SendAck
    <2>2. CASE RetransmitPending
      <3>1. Received' = Received /\ epoch \in Epochs /\ epoch <= epoch
        BY <1>1, Sizes DEF Received, ModeOK
      <3>2. BoxOK(Again(toServer, pending, [epoch |-> epoch, acks |-> Acks]),
                  ClientIDs, ServerIDs, epoch, Received)
        BY <1>2, <3>1, BoxAgain DEF OutOK
      <3> QED
        BY <1>1, <2>2, <3>1, <3>2 DEF OutOK, RetransmitPending
    <2> QED
      BY <2>1, <2>2
  <1>4. ModeOK' /\ SentOK' /\ WindowOK' /\ EpochOK'
    BY <1>1 DEF ModeOK, SentOK, WindowOK, EpochOK
  <1>5. StreamOK' /\ ServerOK' /\ InOK'
    BY <1>1 DEF StreamOK, ServerOK, Received, InOK
  <1> QED
    BY <1>1, <1>2, <1>3, <1>4, <1>5

-----------------------------------------------------------------------------
(* What the client reads *)

LEMMA StretchGrows ==
  ASSUME NEW e \in Epochs, NEW n \in Nat
  PROVE  Append(Stretch(e, n), [epoch |-> e, id |-> n + 1]) = Stretch(e, n + 1)
  <1> DEFINE s == Stretch(e, n)
             t == Append(s, [epoch |-> e, id |-> n + 1])
  <1>1. s \in Seq([epoch : Epochs, id : Nat]) /\ Len(s) = n
    BY DEF Stretch
  <1>2. Stretch(e, n + 1) \in Seq([epoch : Epochs, id : Nat])
        /\ Len(Stretch(e, n + 1)) = n + 1
    BY DEF Stretch
  <1>3. t \in Seq([epoch : Epochs, id : Nat]) /\ Len(t) = n + 1
        /\ t[n + 1] = [epoch |-> e, id |-> n + 1] /\ \A k \in 1 .. n : t[k] = s[k]
    <2> HIDE DEF s
    <2> QED BY <1>1
  <1>4. ASSUME NEW k \in 1 .. n + 1
        PROVE  t[k] = Stretch(e, n + 1)[k]
    <2>1. CASE k = n + 1
      BY <1>3, <2>1 DEF Stretch
    <2>2. CASE k # n + 1
      <3>1. k \in 1 .. n
        BY <2>2
      <3>2. s[k] = [epoch |-> e, id |-> k]
        BY <3>1 DEF Stretch
      <3>3. t[k] = s[k]
        BY <3>1, <1>3
      <3> HIDE DEF s, t
      <3> QED
        BY <3>2, <3>3 DEF Stretch
    <2> QED
      BY <2>1, <2>2
  <1> DEFINE u == Stretch(e, n + 1)
  <1>5. u \in Seq([epoch : Epochs, id : Nat]) /\ Len(u) = n + 1
        /\ \A k \in 1 .. n + 1 : t[k] = u[k]
    BY <1>2, <1>4
  <1>6. t = u
    <2> HIDE DEF t, u
    <2> QED BY <1>3, <1>5
  <1> QED
    BY <1>6

LEMMA AppendLater ==
  ASSUME NEW T, NEW s \in Seq(T), NEW t \in Seq(T), NEW x \in T
  PROVE  s \o Append(t, x) = Append(s \o t, x) /\ s \o <<>> = s
  OBVIOUS

(* The next message goes to TLS, or is put aside.                            *)
LEMMA DeliverKeeps ==
  ASSUME ControlProofInv, NEW m \in Message, m.epoch = epoch, m.id = recvMessage,
         Reading, Deliver(m), epoch' = epoch
  PROVE  StreamOK' /\ recvMessage' = recvMessage + 1
  <1> DEFINE n == IF recvMessage = 0 THEN 0 ELSE recvMessage - 1
  <1>1. /\ recvMessage \in Nat /\ epoch \in Epochs
        /\ mode = "watch" => recvMessage > 0
        /\ stream \in Seq(Message) /\ parkedTLS \in Seq(Message)
        /\ parkedTLS # <<>> => mode = "parked"
        /\ stream \o parkedTLS = Stretch(epoch, n)
    BY DEF ControlProofInv, ModeOK, WindowOK, StreamOK
  <1>2. m = [epoch |-> epoch, id |-> recvMessage]
    BY DEF Message
  <1>3. recvMessage' = recvMessage + 1
    BY DEF Deliver
  <1>4. mode # "parked" /\ parkedTLS = <<>> /\ stream = Stretch(epoch, n)
    BY <1>1, AppendLater DEF Reading
  <1>5. recvMessage # 0 => Append(stream, m) = Stretch(epoch, recvMessage)
    BY <1>1, <1>2, <1>4, StretchGrows
  <1>6. CASE mode = "watch"
    <2>1. stream' = stream /\ parkedTLS' = Append(parkedTLS, m) /\ mode' = "parked"
      BY <1>6 DEF Deliver
    <2>2. stream' \o parkedTLS' = Append(stream, m)
      BY <2>1, <1>1, <1>4, AppendLater
    <2>3. parkedTLS' \in Seq(Message)
      BY <2>1, <1>1
    <2> QED
      BY <2>1, <2>2, <2>3, <1>1, <1>3, <1>5, <1>6 DEF StreamOK
  <1>7. CASE mode # "watch"
    <2>1. parkedTLS' = <<>> /\ stream' = IF m.id = 0 THEN stream ELSE Append(stream, m)
      BY <1>4, <1>7 DEF Deliver
    <2>2. stream' \in Seq(Message)
      BY <2>1, <1>1
    <2>3. stream' = Stretch(epoch, recvMessage)
      BY <2>1, <1>1, <1>4, <1>5
    <2>4. stream' \o parkedTLS' = stream' /\ parkedTLS' \in Seq(Message)
      BY <2>1, <2>2, AppendLater
    <2>5. Stretch(epoch, recvMessage) =
             Stretch(epoch', IF recvMessage' = 0 THEN 0 ELSE recvMessage' - 1)
      BY <1>1, <1>3
    <2> HIDE DEF n
    <2>6. parkedTLS' = <<>> /\ stream' \in Seq(Message) /\ parkedTLS' \in Seq(Message)
          /\ stream' \o parkedTLS' =
             Stretch(epoch', IF recvMessage' = 0 THEN 0 ELSE recvMessage' - 1)
      BY <2>1, <2>2, <2>3, <2>4, <2>5
    <2> QED
      BY <2>6, <1>3 DEF StreamOK
  <1> QED
    BY <1>3, <1>6, <1>7

(* What a read leaves of the rest, if it takes nothing away from what is     *)
(* received.                                                                 *)
LEMMA ReadKeeps ==
  ASSUME ControlProofInv, Reading, recvMessage' \in Nat, Received \subseteq Received',
         recvMessage' = recvMessage \/ recvMessage' = recvMessage + 1,
         mode' = mode \/ mode' = "tls" \/ (mode = "watch" /\ mode' = "parked"),
         remote' \in BOOLEAN,
         pending' \subseteq pending, sEpoch = epoch => pending \ pending' \subseteq sGot,
         UNCHANGED <<epoch, sendMessage, pendingSoftReset, serverSide, toServer>>
  PROVE  ModeOK' /\ EpochOK' /\ SentOK' /\ ServerOK' /\ OutOK'
  <1> USE DEF ControlProofInv, serverSide
  <1>1. ModeOK'
    BY DEF ModeOK, WindowOK, Modes, Reading
  <1>2. EpochOK'
    BY DEF EpochOK, Reading
  <1>3. OutOK'
    BY BoxGrows DEF OutOK
  <1>4. SentOK'
    BY DEF SentOK, Reading
  <1>5. ServerOK'
    BY DEF ServerOK
  <1> QED
    BY <1>1, <1>2, <1>3, <1>4, <1>5

LEMMA ReadQueuedKeeps ==
  ASSUME ControlProofInv, ReadQueued
  PROVE  ControlProofInv'
  <1> USE DEF serverSide, net
  <1>1. PICK m \in Queued : Deliver(m) /\ recvPending' = recvPending \ {m}
    BY DEF ReadQueued
  <1>2. m \in recvPending /\ m \in Message /\ m.epoch = epoch /\ m.id = recvMessage
        /\ recvMessage \in Nat
    BY DEF Queued, ControlProofInv, WindowOK
  <1>3. Reading /\ UNCHANGED <<epoch, remote, sendMessage, ackPending, lruAcks, pending,
                               pendingSoftReset, serverSide, net>>
    BY DEF ReadQueued
  <1>4. StreamOK' /\ recvMessage' = recvMessage + 1
    BY <1>1, <1>2, <1>3, DeliverKeeps
  <1>5. \A n \in recvPending : n.id = recvMessage => n = m
    BY <1>2 DEF ControlProofInv, WindowOK, Message
  <1>6. WindowOK'
    BY <1>1, <1>2, <1>3, <1>4, <1>5, Sizes DEF ControlProofInv, WindowOK
  <1>7. Received \subseteq Received'
    BY <1>1, <1>2, <1>4, <1>5 DEF Received
  <1>8. mode' = mode \/ mode' = "tls" \/ (mode = "watch" /\ mode' = "parked")
    BY <1>1 DEF Deliver
  <1>9. ModeOK' /\ EpochOK' /\ SentOK' /\ ServerOK' /\ OutOK'
    BY <1>2, <1>3, <1>4, <1>7, <1>8, ReadKeeps DEF ControlProofInv, ModeOK
  <1>11. InOK'
    BY <1>3 DEF ControlProofInv, InOK
  <1>10. AcksOK'
    BY <1>3, <1>7 DEF ControlProofInv, AcksOK
  <1> QED
    BY <1>3, <1>4, <1>6, <1>9, <1>10, <1>11 DEF ControlProofInv

LEMMA ArriveKeeps ==
  ASSUME ControlProofInv, NEW i \in ServerIDs \cup {None}, Arrive(toClient, i),
         UNCHANGED <<sEpoch, sGot>>
  PROVE  InOK' /\ faults' \in 0 .. MaxFaults
  <1>1. InOK /\ faults \in 0 .. MaxFaults
    BY DEF ControlProofInv
  <1>2. BoxOK([toClient EXCEPT ![i] = None], ServerIDs, ClientIDs, sEpoch, sGot)
    BY <1>1, BoxTake DEF InOK
  <1>3. faults' \in 0 .. MaxFaults
    BY <1>1, Sizes DEF Arrive
  <1> QED
    BY <1>1, <1>2, <1>3 DEF Arrive, InOK

LEMMA AppendAckKeeps ==
  ASSUME AcksOK, NEW i \in ServerIDs, Received \subseteq Received', lruAcks' = lruAcks,
         ackPending' = ackPending \/ (ackPending' = appendAck(i) /\ i \in Received')
  PROVE  AcksOK'
  <1>1. ackPending' = ackPending \/ ackPending' = Append(ackPending, i)
    BY DEF appendAck
  <1>2. ackPending' \in Seq(ServerIDs)
    BY <1>1 DEF AcksOK
  <1>3. Ids(ackPending') \subseteq Received'
    <2>1. CASE ackPending' = ackPending
      BY <2>1 DEF AcksOK
    <2>2. CASE ackPending' # ackPending
      <3>1. ackPending' = Append(ackPending, i) /\ i \in Received'
        BY <2>2, <1>1
      <3>2. Ids(Append(ackPending, i)) \subseteq Ids(ackPending) \cup {i}
        BY DEF AcksOK, Ids
      <3> QED
        BY <3>1, <3>2 DEF AcksOK
    <2> QED
      BY <2>1, <2>2
  <1> QED
    BY <1>2, <1>3 DEF AcksOK

LEMMA AcceptKeeps ==
  ASSUME ControlProofInv, Reading, Queued = {}, NEW i \in ServerIDs \cup {None},
         NEW d \in Datagrams(ClientIDs), d.epoch = epoch,
         sEpoch = epoch => d.acks \subseteq sGot,
         Accept(d, i), remote' = TRUE, UNCHANGED <<serverSide, toServer>>
  PROVE  /\ ModeOK' /\ SentOK' /\ AcksOK' /\ WindowOK' /\ StreamOK' /\ EpochOK'
         /\ ServerOK' /\ OutOK'
  <1> DEFINE m == [epoch |-> d.epoch, id |-> i]
  <1>1. /\ UNCHANGED <<epoch, sendMessage, lruAcks, pendingSoftReset>>
        /\ pending' = pending \ d.acks
    BY DEF Accept
  <1>2. recvMessage \in Nat /\ epoch \in Epochs /\ AcksOK /\ WindowOK /\ StreamOK
    BY DEF ControlProofInv, ModeOK, WindowOK
  <1>3. i # None => m \in Message /\ m.epoch = epoch /\ m.id = i /\ i \in Nat
    BY <1>2, Sizes DEF Message
  <1> HIDE DEF m
  <1>4. \A n \in recvPending : n.epoch = epoch /\ n.id > recvMessage
          /\ n.id <= recvMessage + Capacity - 1 /\ n.id \in Nat /\ n \in Message
    BY <1>2, Sizes DEF WindowOK, Queued
  <1>5. SUFFICES /\ recvMessage' \in Nat /\ Received \subseteq Received'
                 /\ \/ recvMessage' = recvMessage
                    \/ recvMessage' = recvMessage + 1
                 /\ \/ mode' = mode \/ mode' = "tls"
                    \/ mode = "watch" /\ mode' = "parked"
                 /\ AcksOK' /\ WindowOK' /\ StreamOK'
    BY <1>1, ReadKeeps
  <1>6. CASE i = None
    <2>1. UNCHANGED <<recvMessage, ackPending, recvPending, mode, parkedTLS, stream>>
      BY <1>6, <1>2, Sizes DEF Accept
    <2> QED
      BY <2>1, <1>1, <1>2 DEF Received, AcksOK, WindowOK, StreamOK
  <1>7. CASE i # None /\ i = recvMessage
    <2>1. ackPending' = appendAck(i) /\ Deliver(m) /\ UNCHANGED recvPending
      BY <1>7 DEF Accept, m
    <2>2. StreamOK' /\ recvMessage' = recvMessage + 1
      BY <2>1, <1>1, <1>3, <1>7, DeliverKeeps
    <2>3. mode' = mode \/ mode' = "tls" \/ (mode = "watch" /\ mode' = "parked")
      BY <2>1 DEF Deliver
    <2>4. WindowOK'
      BY <2>1, <2>2, <1>1, <1>2, <1>4, Sizes DEF WindowOK
    <2>5. Received \subseteq Received' /\ i \in Received'
      BY <2>1, <2>2, <1>2, <1>7 DEF Received
    <2>6. AcksOK'
      BY <2>1, <2>5, <1>1, <1>2, <1>7, AppendAckKeeps
    <2> QED
      BY <2>2, <2>3, <2>4, <2>5, <2>6, <1>2
  <1>8. CASE i # None /\ i # recvMessage
    <2>1. UNCHANGED <<recvMessage, mode, parkedTLS, stream>>
      BY <1>8 DEF Accept
    <2>2. \/ UNCHANGED <<ackPending, recvPending>>
          \/ /\ ackPending' = appendAck(i) /\ recvPending' = recvPending
             /\ i < recvMessage \/ m \in recvPending
          \/ /\ ackPending' = appendAck(i) /\ recvPending' = recvPending \cup {m}
             /\ ~ i < recvMessage /\ i < recvMessage + Capacity
      BY <1>8 DEF Accept, m
    <2>3. WindowOK'
      BY <2>1, <2>2, <1>1, <1>2, <1>3, <1>8, Sizes DEF WindowOK
    <2>4. Received \subseteq Received'
      BY <2>1, <2>2 DEF Received
    <2>5. ackPending' = ackPending \/ (ackPending' = appendAck(i) /\ i \in Received')
      BY <2>1, <2>2, <1>2, <1>3, <1>8, Sizes DEF Received
    <2>6. AcksOK'
      BY <2>4, <2>5, <1>1, <1>2, <1>8, AppendAckKeeps
    <2>7. StreamOK'
      BY <2>1, <1>1, <1>2 DEF StreamOK
    <2> QED
      BY <2>1, <2>3, <2>4, <2>6, <2>7, <1>2
  <1> QED
    BY <1>6, <1>7, <1>8
LEMMA ReadIsKept ==
  ASSUME ControlProofInv, NEW i \in ServerIDs \cup {None}, Read(i)
  PROVE  ControlProofInv'
  <1> DEFINE d == toClient[i]
  <1>1. /\ Reading /\ Queued = {} /\ d # None /\ Arrive(toClient, i)
        /\ UNCHANGED <<serverSide, toServer>>
    BY DEF Read
  <1>2. /\ d \in Datagrams(ClientIDs) /\ d.epoch <= sEpoch
        /\ d.epoch = sEpoch => d.acks \subseteq sGot
    BY <1>1 DEF ControlProofInv, InOK, BoxOK
  <1>3. InOK' /\ faults' \in 0 .. MaxFaults
    BY <1>1, ArriveKeeps DEF serverSide
  <1>4. d.epoch \in Epochs /\ epoch \in Epochs /\ EpochOK
        /\ sEpoch \in {epoch, epoch + 1}
    BY <1>2 DEF ControlProofInv, EpochOK, ModeOK, Datagrams
  <1>5. IsNext(d) => d.epoch = epoch + 1 /\ sEpoch = epoch + 1
    <2>1. IsNext(d) => d.epoch = epoch + 1
      BY <1>4, KeyIDsName DEF IsNext
    <2> HIDE DEF d
    <2> QED BY <2>1, <1>2, <1>4, Sizes
  <1>6. KeyID(d.epoch) = KeyID(epoch) => d.epoch = epoch
    BY <1>4, KeyIDsName
  <1> SUFFICES /\ ModeOK' /\ SentOK' /\ AcksOK' /\ WindowOK' /\ StreamOK' /\ EpochOK'
               /\ ServerOK' /\ OutOK'
    BY <1>3 DEF ControlProofInv
  <1>7. \/ Ignore
        \/ mode = "watch" /\ TakeSoftReset(d)
        \/ mode # "watch" /\ KeepSoftReset(d)
        \/ /\ KeyID(d.epoch) = KeyID(epoch)
           /\ Accept(d, i) /\ remote' = TRUE
    BY DEF Read
  <1> HIDE DEF d
  <1>8. CASE Ignore
    <2>1. UNCHANGED <<epoch, mode, remote, sendMessage, recvMessage, ackPending,
             lruAcks, pending, recvPending, parkedTLS, pendingSoftReset, stream,
             sEpoch, sSent, sPending, sGot, toServer>>
      BY <1>1, <1>8 DEF Ignore, clientSide, reliable, serverSide
    <2> QED
      BY <2>1 DEF ControlProofInv, ModeOK, SentOK, AcksOK, WindowOK, StreamOK, EpochOK,
                  ServerOK, OutOK, Received
  <1>9. CASE mode = "watch" /\ TakeSoftReset(d) /\ IsNext(d)
    <2>1. /\ mode = "watch" /\ mode' = "reset" /\ sEpoch = epoch + 1
          /\ UNCHANGED <<epoch, remote, sendMessage, recvMessage, ackPending,
             lruAcks, pending, recvPending, parkedTLS, pendingSoftReset, stream,
             sEpoch, sSent, sPending, sGot, toServer>>
      BY <1>1, <1>5, <1>9 DEF TakeSoftReset, reliable, serverSide
    <2>2. ModeOK' /\ SentOK' /\ EpochOK' /\ StreamOK'
      BY <2>1 DEF ControlProofInv, ModeOK, SentOK, EpochOK, StreamOK, Modes
    <2>3. AcksOK' /\ WindowOK' /\ ServerOK' /\ OutOK'
      BY <2>1 DEF ControlProofInv, AcksOK, WindowOK, ServerOK, OutOK, Received
    <2> QED
      BY <2>2, <2>3
  <1>10. CASE mode # "watch" /\ KeepSoftReset(d) /\ IsNext(d)
    <2>1. /\ sEpoch = epoch + 1 /\ pending' = pending \ d.acks
          /\ pendingSoftReset' = pendingSoftReset \/ pendingSoftReset' = d.epoch
          /\ UNCHANGED <<epoch, mode, remote, sendMessage, recvMessage, ackPending,
             lruAcks, recvPending, parkedTLS, stream,
             sEpoch, sSent, sPending, sGot, toServer>>
      BY <1>1, <1>5, <1>10 DEF KeepSoftReset, serverSide
    <2>2. ModeOK' /\ SentOK' /\ StreamOK' /\ AcksOK' /\ WindowOK' /\ OutOK'
      BY <2>1 DEF ControlProofInv, ModeOK, SentOK, AcksOK, WindowOK, StreamOK, OutOK,
                  Received
    <2>3. EpochOK'
      BY <2>1, <1>2, <1>4 DEF EpochOK
    <2>4. ServerOK'
      BY <2>1, <1>4, Sizes DEF ControlProofInv, ServerOK
    <2> QED
      BY <2>2, <2>3, <2>4
  <1>11. CASE KeyID(d.epoch) = KeyID(epoch) /\ Accept(d, i) /\ remote' = TRUE
    BY <1>1, <1>2, <1>6, <1>11, AcceptKeeps
  <1> QED
    BY <1>7, <1>8, <1>9, <1>10, <1>11 DEF TakeSoftReset, KeepSoftReset
-----------------------------------------------------------------------------
(* The watcher *)

LEMMA WatchKeeps ==
  ASSUME ControlProofInv, Established \/ TakeKept \/ ProbeEnds
  PROVE  ControlProofInv'
  <1>1. /\ mode \in {"tls", "watch", "probe"} /\ mode' \in {"watch", "reset"}
        /\ mode = "tls" => recvMessage > LastServer
        /\ UNCHANGED <<epoch, remote, sendMessage, recvMessage, ackPending,
             lruAcks, pending, recvPending, parkedTLS, stream,
             sEpoch, sSent, sPending, sGot, toServer, toClient, faults>>
    BY DEF Established, TakeKept, ProbeEnds, reliable, serverSide, net
  <1>2. /\ pendingSoftReset' = pendingSoftReset \/ pendingSoftReset' = None
        /\ mode' = "reset" => sEpoch = epoch + 1
    <2>1. ASSUME TakeKept, mode' = "reset" PROVE sEpoch = epoch + 1
      <3>1. /\ pendingSoftReset # None
            /\ KeyID(pendingSoftReset) = NextKeyID(KeyID(epoch))
        BY <2>1 DEF TakeKept
      <3>2. pendingSoftReset \in Epochs /\ pendingSoftReset <= sEpoch
            /\ epoch \in Epochs /\ sEpoch \in {epoch, epoch + 1}
        BY <3>1 DEF ControlProofInv, EpochOK, ModeOK
      <3>3. pendingSoftReset = epoch + 1
        BY <3>1, <3>2, KeyIDsName
      <3> QED
        BY <3>2, <3>3, Sizes
    <2> QED
      BY <2>1 DEF Established, TakeKept, ProbeEnds
  <1>3. ModeOK'
    BY <1>1, Sizes DEF ControlProofInv, ModeOK, WindowOK, Modes
  <1>4. EpochOK'
    BY <1>1, <1>2 DEF ControlProofInv, EpochOK
  <1>5. SentOK' /\ StreamOK' /\ AcksOK' /\ WindowOK'
    BY <1>1 DEF ControlProofInv, SentOK, StreamOK, AcksOK, WindowOK, Received
  <1>6. ServerOK' /\ OutOK' /\ InOK' /\ faults' \in 0 .. MaxFaults
    BY <1>1 DEF ControlProofInv, ServerOK, OutOK, InOK, Received
  <1> QED
    BY <1>3, <1>4, <1>5, <1>6 DEF ControlProofInv

LEMMA AdoptKeeps ==
  ASSUME ControlProofInv, Adopt
  PROVE  ControlProofInv'
  <1>1. /\ mode = "resetProbe" /\ mode' = "adopted" /\ epoch' = epoch + 1
        /\ sendMessage' = 0 /\ recvMessage' = 1 /\ ackPending' = <<0>> /\ lruAcks' = <<>>
        /\ pending' = {} /\ recvPending' = {} /\ parkedTLS' = <<>> /\ stream' = <<>>
        /\ UNCHANGED <<remote, pendingSoftReset, sEpoch, sSent, sPending, sGot,
                       toServer, toClient, faults>>
    BY DEF Adopt, serverSide, net
  <1>2. /\ sEpoch = epoch + 1 /\ sEpoch \in Epochs /\ epoch \in Epochs
        /\ sSent = 1 /\ sPending = {0} /\ sGot = {}
        /\ remote \in BOOLEAN /\ epoch' # epoch' + 1
    BY <1>1, Sizes DEF ControlProofInv, EpochOK, ModeOK
  <1>3. Received' = {0}
    BY <1>1 DEF Received
  <1>4. ModeOK' /\ SentOK' /\ WindowOK'
    BY <1>1, <1>2, Sizes DEF ModeOK, SentOK, WindowOK, Modes
  <1>5. AcksOK'
    <2>1. /\ <<0>> \in Seq(ServerIDs) /\ <<>> \in Seq(ServerIDs) /\ Len(<<>>) <= AckSize
          /\ Ids(<<0>>) \subseteq {0} /\ Ids(<<>>) \subseteq {0}
      BY Sizes DEF Ids
    <2> QED
      BY <2>1, <1>1, <1>3 DEF AcksOK
  <1>6. StreamOK'
    <2>1. <<>> \in Seq(Message) /\ <<>> \o <<>> = <<>> /\ <<>> = Stretch(epoch', 0)
      BY DEF Stretch
    <2> QED
      BY <2>1, <1>1 DEF StreamOK
  <1>7. EpochOK'
    BY <1>1, <1>2 DEF ControlProofInv, EpochOK
  <1>8. ServerOK'
    BY <1>1, <1>2, Sizes DEF ControlProofInv, ServerOK
  <1>9. OutOK'
    <2>1. BoxOK(toServer, ClientIDs, ServerIDs, epoch + 1, {})
      BY <1>2, BoxNext DEF ControlProofInv, OutOK
    <2>2. BoxOK(toServer, ClientIDs, ServerIDs, epoch + 1, Received')
      BY <2>1, BoxGrows
    <2> QED
      BY <2>2, <1>1 DEF OutOK
  <1>10. InOK' /\ faults' \in 0 .. MaxFaults
    BY <1>1 DEF ControlProofInv, InOK
  <1> QED
    BY <1>4, <1>5, <1>6, <1>7, <1>8, <1>9, <1>10 DEF ControlProofInv

-----------------------------------------------------------------------------
(* The server *)

(* What a step of the server leaves alone.                                   *)
LEMMA ClientRests ==
  ASSUME ControlProofInv, UNCHANGED clientSide
  PROVE  /\ ModeOK' /\ SentOK' /\ AcksOK' /\ WindowOK' /\ StreamOK'
         /\ Received' = Received /\ epoch' = epoch
         /\ (toServer' = toServer => OutOK')
         /\ (sEpoch' = sEpoch /\ sSent' = sSent /\ sPending' = sPending
                /\ sGot' = sGot => EpochOK' /\ ServerOK')
  <1>1. UNCHANGED <<epoch, mode, remote, sendMessage, recvMessage, ackPending,
             lruAcks, pending, recvPending, parkedTLS, pendingSoftReset, stream>>
    BY DEF clientSide, reliable
  <1>2. Received' = Received
    BY <1>1 DEF Received
  <1>3. ModeOK' /\ SentOK' /\ AcksOK' /\ WindowOK' /\ StreamOK'
    BY <1>1, <1>2 DEF ControlProofInv, ModeOK, SentOK, AcksOK, WindowOK, StreamOK
  <1>4. toServer' = toServer => OutOK'
    BY <1>1, <1>2 DEF ControlProofInv, OutOK
  <1>5. sEpoch' = sEpoch /\ sSent' = sSent /\ sPending' = sPending
           /\ sGot' = sGot => EpochOK' /\ ServerOK'
    BY <1>1, <1>2 DEF ControlProofInv, EpochOK, ServerOK
  <1> QED
    BY <1>1, <1>2, <1>3, <1>4, <1>5

(* A server that has begun an epoch alone has none of the client's messages. *)
LEMMA HasNone ==
  ASSUME ControlProofInv, NEW n \in Nat, Has(n)
  PROVE  sEpoch = epoch
  BY DEF ControlProofInv, EpochOK, Has

LEMMA ServerSendKeeps ==
  ASSUME ControlProofInv, ServerSend
  PROVE  ControlProofInv'
  <1>1. /\ sSent \in ServerIDs /\ sSent' = sSent + 1 /\ sPending' = sPending \cup {sSent}
        /\ toClient' = [toClient EXCEPT ![sSent] = [epoch |-> sEpoch, acks |-> sGot]]
        /\ UNCHANGED <<sEpoch, sGot, clientSide, toServer, faults>>
    BY DEF ServerSend, ServerWrite
  <1>2. sEpoch = epoch
    <2>1. sSent \in 1 .. LastServer => ServerNeeds[sSent] \in Nat
      BY ControlAssumption DEF LastServer
    <2> QED
      BY <2>1, Sizes, HasNone DEF ServerSend
  <1>3. /\ ModeOK' /\ SentOK' /\ AcksOK' /\ WindowOK' /\ StreamOK' /\ OutOK'
        /\ Received' = Received /\ epoch' = epoch
    BY <1>1, ClientRests
  <1>4. EpochOK'
    BY <1>1, <1>2, Sizes DEF ControlProofInv, EpochOK, ModeOK, clientSide
  <1>5. ServerOK'
    <2>1. (0 .. sSent' - 1) \ sPending' \subseteq (0 .. sSent - 1) \ sPending
      BY <1>1, Sizes
    <2>2. sSent' \in Nat /\ sPending' \subseteq ServerIDs /\ sGot' \subseteq ClientIDs
      BY <1>1, Sizes DEF ControlProofInv, ServerOK
    <2>3. sendMessage' = sendMessage /\ pending' = pending
      BY <1>1 DEF clientSide, reliable
    <2> QED
      BY <2>1, <2>2, <2>3, <1>1, <1>2, <1>3 DEF ControlProofInv, ServerOK
  <1>6. InOK'
    <2>1. InOK /\ sGot \in SUBSET ClientIDs /\ sEpoch \in Epochs /\ sEpoch <= sEpoch
      BY Sizes DEF ControlProofInv, ServerOK, EpochOK
    <2>2. BoxOK([toClient EXCEPT ![sSent] = [epoch |-> sEpoch, acks |-> sGot]],
                ServerIDs, ClientIDs, sEpoch, sGot)
      BY <2>1, <1>1, BoxPut DEF InOK
    <2> QED
      BY <2>2, <1>1 DEF InOK
  <1> QED
    BY <1>1, <1>3, <1>4, <1>5, <1>6 DEF ControlProofInv

LEMMA ServerRepeats ==
  ASSUME ControlProofInv, ServerRetransmits
  PROVE  ControlProofInv'
  <1>1. /\ toClient' = Again(toClient, sPending, [epoch |-> sEpoch, acks |-> sGot])
        /\ UNCHANGED <<sEpoch, sSent, sPending, sGot, clientSide, toServer, faults>>
    BY DEF ServerRetransmits, serverSide
  <1>2. InOK'
    <2>1. InOK /\ sGot \in SUBSET ClientIDs /\ sEpoch \in Epochs /\ sEpoch <= sEpoch
      BY Sizes DEF ControlProofInv, ServerOK, EpochOK
    <2>2. BoxOK(Again(toClient, sPending, [epoch |-> sEpoch, acks |-> sGot]),
                ServerIDs, ClientIDs, sEpoch, sGot)
      BY <2>1, BoxAgain DEF InOK
    <2> QED
      BY <2>2, <1>1 DEF InOK
  <1>3. /\ ModeOK' /\ SentOK' /\ AcksOK' /\ WindowOK' /\ StreamOK' /\ OutOK'
        /\ EpochOK' /\ ServerOK'
    BY <1>1, ClientRests
  <1> QED
    BY <1>1, <1>2, <1>3 DEF ControlProofInv

LEMMA SoftResetKeeps ==
  ASSUME ControlProofInv, ServerSoftReset
  PROVE  ControlProofInv'
  <1>1. /\ sEpoch < LastEpoch /\ sEpoch' = sEpoch + 1 /\ Has(LastClient)
        /\ sSent' = 1 /\ sPending' = {0} /\ sGot' = {}
        /\ toClient' = [toClient EXCEPT ![0] = [epoch |-> sEpoch + 1, acks |-> {}]]
        /\ UNCHANGED <<clientSide, toServer, faults>>
    BY DEF ServerSoftReset, ServerWrite
  <1>2. sEpoch = epoch
    BY <1>1, Sizes, HasNone
  <1>3. sEpoch \in Epochs /\ sEpoch + 1 \in Epochs /\ epoch # epoch + 1
        /\ sEpoch + 1 <= sEpoch + 1
    BY <1>1, Sizes DEF ControlProofInv, EpochOK, Epochs
  <1>4. /\ ModeOK' /\ SentOK' /\ AcksOK' /\ WindowOK' /\ StreamOK' /\ OutOK'
        /\ Received' = Received /\ epoch' = epoch
    BY <1>1, ClientRests
  <1>5. EpochOK'
    <2>1. UNCHANGED <<epoch, mode, pendingSoftReset>>
      BY <1>1 DEF clientSide
    <2>2. pendingSoftReset # None => pendingSoftReset <= sEpoch + 1
      BY <1>3, Sizes DEF ControlProofInv, EpochOK
    <2> QED
      BY <2>1, <2>2, <1>1, <1>2, <1>3 DEF ControlProofInv, EpochOK
  <1>6. ServerOK'
    BY <1>1, <1>2, <1>3, <1>4, Sizes DEF ServerOK
  <1>7. InOK'
    <2>1. BoxOK(toClient, ServerIDs, ClientIDs, sEpoch + 1, {})
      BY <1>3, BoxNext DEF ControlProofInv, InOK
    <2>2. BoxOK([toClient EXCEPT ![0] = [epoch |-> sEpoch + 1, acks |-> {}]],
                ServerIDs, ClientIDs, sEpoch + 1, {})
      BY <2>1, <1>3, BoxPut, Sizes
    <2> QED
      BY <2>2, <1>1 DEF InOK
  <1> QED
    BY <1>1, <1>4, <1>5, <1>6, <1>7 DEF ControlProofInv
LEMMA ServerReadKeeps ==
  ASSUME ControlProofInv, NEW i \in ClientIDs \cup {None}, ServerRead(i)
  PROVE  ControlProofInv'
  <1> DEFINE d == toServer[i]
  <1>1. /\ d # None /\ Arrive(toServer, i) /\ UNCHANGED <<sEpoch, sSent, clientSide>>
        /\ \/ sGot' = sGot
           \/ d.epoch = sEpoch /\ i # None /\ sGot' = sGot \cup {i}
        /\ sPending' = IF d.epoch = sEpoch THEN sPending \ d.acks ELSE sPending
        /\ \/ toClient' = toClient
           \/ toClient' = [toClient EXCEPT ![None] = [epoch |-> sEpoch, acks |-> sGot']]
    BY DEF ServerRead
  <1>2. /\ d \in Datagrams(ServerIDs) /\ d.epoch <= epoch
        /\ d.epoch = epoch => d.acks \subseteq Received
    BY <1>1 DEF ControlProofInv, OutOK, BoxOK
  <1>3. /\ epoch \in Epochs /\ sEpoch \in Epochs /\ sEpoch \in {epoch, epoch + 1}
        /\ sEpoch = epoch + 1 => sSent = 1 /\ sPending = {0} /\ sGot = {}
        /\ d.epoch \in Epochs /\ sEpoch <= sEpoch
    BY <1>2, Sizes DEF ControlProofInv, EpochOK, ModeOK, Datagrams
  <1> HIDE DEF d
  <1>4. d.epoch = sEpoch => sEpoch = epoch
    BY <1>2, <1>3, Sizes
  <1>5. sGot \subseteq sGot' /\ sGot' \in SUBSET ClientIDs
    BY <1>1 DEF ControlProofInv, ServerOK
  <1>6. /\ ModeOK' /\ SentOK' /\ AcksOK' /\ WindowOK' /\ StreamOK'
        /\ Received' = Received /\ epoch' = epoch
    BY <1>1, ClientRests
  <1>7. UNCHANGED <<mode, pendingSoftReset, sendMessage, pending>>
    BY <1>1 DEF clientSide, reliable
  <1>8. EpochOK'
    <2>1. sEpoch = epoch + 1 => sPending' = sPending /\ sGot' = sGot
      BY <1>1, <1>3, <1>4, Sizes
    <2> QED
      BY <2>1, <1>1, <1>3, <1>6, <1>7 DEF ControlProofInv, EpochOK
  <1>9. ServerOK'
    <2>1. sEpoch = epoch =>
            /\ (0 .. sSent - 1) \ sPending' \subseteq Received
            /\ (0 .. sendMessage - 1) \ pending \subseteq sGot'
      BY <1>1, <1>2, <1>5 DEF ControlProofInv, ServerOK
    <2>2. sSent \in Nat /\ sPending' \subseteq ServerIDs
      BY <1>1 DEF ControlProofInv, ServerOK
    <2> QED
      BY <2>1, <2>2, <1>1, <1>5, <1>6, <1>7 DEF ServerOK
  <1>10. InOK'
    <2>1. BoxOK(toClient, ServerIDs, ClientIDs, sEpoch, sGot')
      BY <1>5, BoxGrows DEF ControlProofInv, InOK
    <2>2. BoxOK([toClient EXCEPT ![None] = [epoch |-> sEpoch, acks |-> sGot']],
                ServerIDs, ClientIDs, sEpoch, sGot')
      BY <2>1, <1>3, <1>5, BoxPut
    <2> QED
      BY <2>1, <2>2, <1>1 DEF InOK
  <1>11. OutOK' /\ faults' \in 0 .. MaxFaults
    <2>1. OutOK /\ faults \in 0 .. MaxFaults
      BY DEF ControlProofInv
    <2>2. BoxOK([toServer EXCEPT ![i] = None], ClientIDs, ServerIDs, epoch, Received)
      BY <2>1, BoxTake DEF OutOK
    <2>3. faults' \in 0 .. MaxFaults
      BY <1>1, <2>1, Sizes DEF Arrive
    <2> QED
      BY <1>1, <1>6, <2>1, <2>2, <2>3 DEF Arrive, OutOK
  <1> QED
    BY <1>6, <1>8, <1>9, <1>10, <1>11 DEF ControlProofInv

LEMMA LoseKeeps ==
  ASSUME ControlProofInv, Lose
  PROVE  ControlProofInv'
  <1>1. /\ faults' \in 0 .. MaxFaults
        /\ UNCHANGED <<clientSide, sEpoch, sSent, sPending, sGot>>
    BY Sizes DEF Lose, serverSide, ControlProofInv
  <1>2. /\ ModeOK' /\ SentOK' /\ AcksOK' /\ WindowOK' /\ StreamOK'
        /\ Received' = Received /\ epoch' = epoch /\ EpochOK' /\ ServerOK'
    BY <1>1, ClientRests
  <1>3. OutOK /\ InOK /\ DOMAIN toServer = ClientIDs \cup {None}
        /\ DOMAIN toClient = ServerIDs \cup {None}
    BY DEF ControlProofInv, OutOK, InOK, BoxOK
  <1>4. OutOK'
    <2>1. \/ toServer' = toServer
          \/ \E i \in ClientIDs \cup {None} : toServer' = [toServer EXCEPT ![i] = None]
      BY <1>3 DEF Lose
    <2>2. BoxOK(toServer', ClientIDs, ServerIDs, epoch, Received)
      BY <2>1, <1>3, BoxTake DEF OutOK
    <2> QED
      BY <2>2, <1>2 DEF OutOK
  <1>5. InOK'
    <2>1. \/ toClient' = toClient
          \/ \E i \in ServerIDs \cup {None} : toClient' = [toClient EXCEPT ![i] = None]
      BY <1>3 DEF Lose
    <2>2. BoxOK(toClient', ServerIDs, ClientIDs, sEpoch, sGot)
      BY <2>1, <1>3, BoxTake DEF InOK
    <2> QED
      BY <2>2, <1>1 DEF InOK
  <1> QED
    BY <1>1, <1>2, <1>4, <1>5 DEF ControlProofInv
-----------------------------------------------------------------------------
(* The end of an epoch *)

LEMMA LeastIs ==
  ASSUME NEW T, T \subseteq Nat, T # {}
  PROVE  \E g \in T : \A n \in T : g <= n
  <1> DEFINE R == OpToRel(<, Nat)
  <1>1. IsWellFoundedOn(R, Nat)
    BY NatLessThanWellFounded
  <1>2. \A x, y \in Nat : x < y => <<x, y>> \in R
    BY DEF OpToRel
  <1> HIDE DEF R
  <1>3. PICK g \in T : \A y \in T : ~ (<<y, g>> \in R)
    BY <1>1, WFMin
  <1>4. ASSUME NEW n \in T PROVE g <= n
    <2>1. n \in Nat /\ g \in Nat /\ ~ (<<n, g>> \in R)
      BY <1>3
    <2>2. ~ (n < g)
      BY <2>1, <1>2
    <2> QED
      BY <2>1, <2>2
  <1> QED
    BY <1>4

(* What is in turn ends at the first message that is missing, g.             *)
InTurnUpTo(g) ==
    /\ recvMessage <= g
    /\ InTurn(recvPending) = {[epoch |-> epoch, id |-> k] : k \in recvMessage .. g - 1}
    /\ Cardinality(InTurn(recvPending)) = g - recvMessage
    /\ \A m \in recvPending \ InTurn(recvPending) : m.id > g

LEMMA InTurnIs ==
  ASSUME WindowOK
  PROVE  \E g \in Nat : InTurnUpTo(g)
  <1> DEFINE T == {i \in Nat : i >= recvMessage /\ \A m \in recvPending : m.id # i}
             now == InTurn(recvPending)
             Is(k) == [epoch |-> epoch, id |-> k]
  <1>1. /\ recvMessage \in Nat
        /\ \A m \in recvPending :
              m = Is(m.id) /\ m.id \in Nat /\ m.id >= recvMessage
              /\ m.id < recvMessage + Capacity
    BY Sizes DEF WindowOK, Message
  <1>2. recvMessage + Capacity \in T
    BY <1>1, Sizes
  <1>3. PICK g \in T : \A n \in T : g <= n
    <2> HIDE DEF T
    <2>1. T # {}
      BY <1>2
    <2>2. T \subseteq Nat
      BY DEF T
    <2> QED BY <2>1, <2>2, LeastIs
  <1>4. g \in Nat /\ recvMessage <= g /\ \A m \in recvPending : m.id # g
    BY <1>1
  <1>5. \A i \in recvMessage .. g - 1 : \E m \in recvPending : m.id = i
    BY <1>1, <1>3, <1>4
  <1>6. \A m \in recvPending : m \in now <=> m.id < g
    <2> SUFFICES ASSUME NEW m \in recvPending PROVE m \in now <=> m.id < g
      OBVIOUS
    <2>1. CASE m.id < g
      BY <2>1, <1>1, <1>4, <1>5 DEF InTurn
    <2>2. CASE ~ (m.id < g)
      <3>1. g \in recvMessage .. m.id
        BY <2>2, <1>1, <1>4
      <3> QED
        BY <3>1, <2>2, <1>4 DEF InTurn
    <2> QED
      BY <2>1, <2>2
  <1>7. now = {Is(k) : k \in recvMessage .. g - 1}
    <2>1. now \subseteq recvPending
      BY DEF InTurn
    <2>2. ASSUME NEW m \in now PROVE m \in {Is(k) : k \in recvMessage .. g - 1}
      <3>1. m \in recvPending /\ m.id \in recvMessage .. g - 1 /\ m = Is(m.id)
        BY <2>1, <2>2, <1>1, <1>4, <1>6
      <3> HIDE DEF now, Is
      <3> QED BY <3>1
    <2>3. ASSUME NEW k \in recvMessage .. g - 1 PROVE Is(k) \in now
      <3>1. PICK m \in recvPending : m.id = k
        BY <2>3, <1>5
      <3>2. m = Is(k) /\ m.id < g
        BY <3>1, <1>1, <1>4
      <3> QED
        BY <3>2, <1>6
    <2> QED
      BY <2>2, <2>3
  <1>8. Cardinality(now) = g - recvMessage
    <2> DEFINE I == recvMessage .. g - 1
               f == [k \in I |-> Is(k)]
    <2>1. IsFiniteSet(I) /\ Cardinality(I) = g - recvMessage
      <3>1. recvMessage \in Int /\ g - 1 \in Int /\ g \in Int
        BY <1>1, <1>4
      <3>2. /\ IsFiniteSet(I)
            /\ Cardinality(I) = IF recvMessage > g - 1 THEN 0 ELSE g - 1 - recvMessage + 1
        BY <3>1, FS_Interval
      <3> HIDE DEF I, T, now
      <3> QED
        BY <3>1, <3>2, <1>4
    <2>2. f \in [I -> now] /\ (\A t \in now : \E k \in I : f[k] = t)
      BY <1>7
    <2>3. \A a, b \in I : f[a] = f[b] => a = b
      OBVIOUS
    <2> HIDE DEF I, f, now
    <2>4. f \in Bijection(I, now)
      BY <2>2, <2>3, Fun_IsBij
    <2>5. ExistsBijection(I, now)
      BY <2>4 DEF ExistsBijection
    <2> QED
      BY <2>1, <2>5, FS_Bijection
  <1>9. \A m \in recvPending \ now : m.id > g
    BY <1>1, <1>4, <1>6
  <1>10. InTurnUpTo(g)
    BY <1>4, <1>7, <1>8, <1>9 DEF InTurnUpTo
  <1> QED
    BY <1>4, <1>10

LEMMA StretchJoins ==
  ASSUME NEW e \in Epochs, NEW n \in Nat, NEW c \in Nat
  PROVE  Stretch(e, n) \o [k \in 1 .. c |-> [epoch |-> e, id |-> n + k]]
            = Stretch(e, n + c)
  <1> DEFINE M == [epoch : Epochs, id : Nat]
             s == Stretch(e, n)
             t == [k \in 1 .. c |-> [epoch |-> e, id |-> n + k]]
             u == Stretch(e, n + c)
             v == s \o t
  <1>1. s \in Seq(M) /\ Len(s) = n /\ \A k \in 1 .. n : s[k] = [epoch |-> e, id |-> k]
    BY DEF Stretch
  <1>2. t \in Seq(M) /\ Len(t) = c
        /\ \A k \in 1 .. c : t[k] = [epoch |-> e, id |-> n + k]
    OBVIOUS
  <1>3. u \in Seq(M) /\ Len(u) = n + c
        /\ \A k \in 1 .. n + c : u[k] = [epoch |-> e, id |-> k]
    BY DEF Stretch
  <1> HIDE DEF s, t, u, M
  <1>4. v \in Seq(M) /\ Len(v) = n + c
        /\ (\A k \in 1 .. n : v[k] = s[k]) /\ \A k \in n + 1 .. n + c : v[k] = t[k - n]
    <2>1. s \in Seq(M) /\ t \in Seq(M) /\ Len(s) = n /\ Len(t) = c
      BY <1>1, <1>2
    <2>2. /\ v \in Seq(M) /\ Len(v) = Len(s) + Len(t)
          /\ \A i \in 1 .. Len(s) + Len(t) :
                v[i] = IF i <= Len(s) THEN s[i] ELSE t[i - Len(s)]
      BY <2>1, ConcatProperties
    <2> HIDE DEF v
    <2>3. \A i \in 1 .. n + c : v[i] = IF i <= n THEN s[i] ELSE t[i - n]
      BY <2>1, <2>2
    <2>4. \A k \in 1 .. n : v[k] = s[k]
      BY <2>3
    <2>5. \A k \in n + 1 .. n + c : v[k] = t[k - n]
      <3> SUFFICES ASSUME NEW k \in n + 1 .. n + c PROVE v[k] = t[k - n]
        OBVIOUS
      <3>1. k \in 1 .. n + c /\ ~ (k <= n)
        OBVIOUS
      <3> QED
        BY <3>1, <2>3
    <2> QED
      BY <2>1, <2>2, <2>4, <2>5
  <1> HIDE DEF v
  <1>5. \A k \in 1 .. n + c : v[k] = u[k]
    <2> SUFFICES ASSUME NEW k \in 1 .. n + c PROVE v[k] = [epoch |-> e, id |-> k]
      BY <1>3
    <2>1. CASE k <= n
      <3>1. k \in 1 .. n
        BY <2>1
      <3> QED
        BY <3>1, <1>1, <1>4
    <2>2. CASE ~ (k <= n)
      <3>1. k \in n + 1 .. n + c /\ k - n \in 1 .. c /\ n + (k - n) = k
        BY <2>2
      <3>2. t[k - n] = [epoch |-> e, id |-> n + (k - n)]
        BY <3>1, <1>2
      <3> QED
        BY <3>1, <3>2, <1>4
    <2> QED
      BY <2>1, <2>2
  <1>6. v = u
    BY <1>3, <1>4, <1>5
  <1> QED
    BY <1>6 DEF v, s, t, u
(* TLS has been given what was put aside and what is in turn, no more.       *)
LEMMA ConsumeGives ==
  ASSUME ControlProofInv, ConsumeQueued, NEW g \in Nat, InTurnUpTo(g)
  PROVE  /\ g > 0 /\ recvMessage' = g /\ recvPending' = recvPending \ InTurn(recvPending)
         /\ stream' \in Seq(Message) /\ stream' = Stretch(epoch, g - 1)
  <1> DEFINE now == InTurn(recvPending)
             c == g - recvMessage
             last == [k \in 1 .. c |->
                        CHOOSE m \in now : m.id = recvMessage + k - 1]
             next == [k \in 1 .. c |-> [epoch |-> epoch, id |-> recvMessage - 1 + k]]
  <1>1. /\ recvMessage \in Nat /\ recvMessage > 0 /\ epoch \in Epochs
        /\ recvPending \subseteq Message
        /\ stream \in Seq(Message) /\ parkedTLS \in Seq(Message)
        /\ stream \o parkedTLS = Stretch(epoch, recvMessage - 1)
    BY DEF ConsumeQueued, ControlProofInv, ModeOK, WindowOK, StreamOK
  <1>2. /\ c \in Nat /\ g > 0
        /\ now = {[epoch |-> epoch, id |-> k] : k \in recvMessage .. g - 1}
        /\ Cardinality(now) = c /\ now \subseteq Message
    <2>1. recvMessage <= g
      BY DEF InTurnUpTo
    <2>2. now \subseteq Message
      BY <1>1 DEF InTurn
    <2> QED
      BY <2>1, <2>2, <1>1 DEF InTurnUpTo
  <1>3. /\ recvMessage' = g /\ recvPending' = recvPending \ now
        /\ stream' = stream \o parkedTLS \o last
    <2>1. /\ recvMessage' = recvMessage + Cardinality(now)
          /\ recvPending' = recvPending \ now
          /\ stream' = stream \o parkedTLS \o
               [k \in 1 .. Cardinality(now) |->
                  CHOOSE m \in now : m.id = recvMessage + k - 1]
      BY DEF ConsumeQueued
    <2>2. recvMessage + c = g /\ Cardinality(now) = c
      BY <1>1, <1>2
    <2>3. stream' = stream \o parkedTLS \o last
      BY <2>1, <2>2, Zenon
    <2> HIDE DEF now, c, last
    <2> QED
      BY <2>1, <2>2, <2>3
  <1>4. ASSUME NEW k \in 1 .. c
        PROVE  /\ last[k] = [epoch |-> epoch, id |-> recvMessage - 1 + k]
               /\ last[k] \in now
    <2> DEFINE x == [epoch |-> epoch, id |-> recvMessage - 1 + k]
    <2>1. x \in now /\ x.id = recvMessage + k - 1
      BY <1>1, <1>2
    <2>2. \A m \in now : m.id = recvMessage + k - 1 => m = x
      BY <1>1, <1>2
    <2> HIDE DEF now, x
    <2>3. last[k] = CHOOSE m \in now : m.id = recvMessage + k - 1
      OBVIOUS
    <2>4. last[k] = x
      BY <2>1, <2>2, <2>3
    <2> QED
      BY <2>1, <2>4 DEF x
  <1>5. last = next
    BY <1>4
  <1>6. last \in Seq(Message)
    <2> HIDE DEF now, last
    <2>1. last \in [1 .. c -> Message]
      BY <1>2, <1>4 DEF last
    <2> QED
      BY <2>1, <1>2
  <1>7. stream \o parkedTLS \o last \in Seq(Message)
    <2> HIDE DEF last
    <2>1. stream \o parkedTLS \in Seq(Message)
      BY <1>1, ConcatProperties
    <2> QED
      BY <2>1, <1>6, ConcatProperties
  <1>8. Stretch(epoch, recvMessage - 1) \o next = Stretch(epoch, g - 1)
    <2>1. recvMessage - 1 \in Nat /\ (recvMessage - 1) + c = g - 1
      BY <1>1, <1>2
    <2> QED
      BY <2>1, <1>1, <1>2, StretchJoins
  <1> HIDE DEF last, next, now
  <1> QED
    BY <1>1, <1>2, <1>3, <1>5, <1>7, <1>8 DEF now

LEMMA ConsumeKeeps ==
  ASSUME ControlProofInv, ConsumeQueued
  PROVE  ControlProofInv' /\ InTurn(recvPending) \subseteq Ids(stream')
  <1>1. PICK g \in Nat : InTurnUpTo(g)
    BY InTurnIs DEF ControlProofInv
  <1>2. /\ g > 0 /\ recvMessage' = g /\ recvPending' = recvPending \ InTurn(recvPending)
        /\ stream' \in Seq(Message) /\ stream' = Stretch(epoch, g - 1)
    BY <1>1, ConsumeGives
  <1>3. /\ \/ mode = "parked" /\ mode' = "probe"
           \/ mode = "reset" /\ mode' = "resetProbe"
        /\ parkedTLS' = <<>>
        /\ UNCHANGED <<epoch, remote, sendMessage, ackPending, lruAcks, pending,
              pendingSoftReset, sEpoch, sSent, sPending, sGot, toServer, toClient,
              faults>>
    BY DEF ConsumeQueued, serverSide, net
  <1>4. /\ recvMessage \in Nat /\ recvMessage <= g
        /\ InTurn(recvPending) = {[epoch |-> epoch, id |-> k] : k \in recvMessage .. g - 1}
        /\ \A m \in recvPending \ InTurn(recvPending) : m.id > g
    BY <1>1 DEF InTurnUpTo, ControlProofInv, WindowOK
  <1>5. ModeOK' /\ EpochOK' /\ SentOK'
    BY <1>2, <1>3 DEF ControlProofInv, ModeOK, EpochOK, SentOK, Modes
  <1>6. WindowOK'
    <2> SUFFICES ASSUME NEW m \in recvPending'
                 PROVE  m \in Message /\ m.epoch = epoch /\ m.id \in g .. g + Capacity - 1
      BY <1>2, <1>3 DEF WindowOK, ControlProofInv
    <2>1. /\ m \in Message /\ m.epoch = epoch
          /\ m.id \in recvMessage .. recvMessage + Capacity - 1 /\ m.id > g
      BY <1>2, <1>4 DEF WindowOK, ControlProofInv
    <2> QED
      BY <2>1, <1>4, Sizes
  <1>7. Received \subseteq Received'
    <2> SUFFICES ASSUME NEW i \in Received PROVE i \in Received'
      OBVIOUS
    <2>1. CASE i < g
      BY <2>1, <1>2 DEF Received
    <2>2. CASE ~ (i < g)
      <3>1. i \in Nat /\ ~ (i < recvMessage)
        BY <2>2, <1>4 DEF Received
      <3>2. PICK m \in recvPending : m.id = i
        BY <3>1 DEF Received
      <3>3. m \notin InTurn(recvPending)
        BY <3>1, <3>2, <2>2, <1>4
      <3> QED
        BY <3>1, <3>2, <3>3, <1>2 DEF Received
    <2> QED
      BY <2>1, <2>2
  <1>8. AcksOK' /\ ServerOK' /\ InOK' /\ faults' \in 0 .. MaxFaults
    BY <1>3, <1>7 DEF ControlProofInv, AcksOK, ServerOK, InOK
  <1>9. OutOK'
    BY <1>3, <1>7, BoxGrows DEF ControlProofInv, OutOK
  <1>10. StreamOK'
    <2>1. <<>> \in Seq(Message) /\ stream' \o <<>> = stream'
      BY <1>2, AppendLater
    <2> QED
      BY <2>1, <1>2, <1>3 DEF StreamOK
  <1>11. InTurn(recvPending) \subseteq Ids(stream')
    <2> SUFFICES ASSUME NEW k \in recvMessage .. g - 1
                 PROVE  [epoch |-> epoch, id |-> k] \in Ids(stream')
      BY <1>4
    <2>1. recvMessage > 0
      BY <1>3 DEF ControlProofInv, ModeOK
    <2>2. k \in 1 .. g - 1
      BY <2>1, <1>4
    <2>3. k \in DOMAIN stream' /\ stream'[k] = [epoch |-> epoch, id |-> k]
      BY <2>2, <1>2 DEF Stretch
    <2> QED
      BY <2>3 DEF Ids
  <1> QED
    BY <1>5, <1>6, <1>8, <1>9, <1>10, <1>11 DEF ControlProofInv

-----------------------------------------------------------------------------
(* The theorems *)

LEMMA ControlInitially ==
  ASSUME ControlInit
  PROVE  ControlProofInv
  <1> USE DEF ControlInit
  <1>1. ModeOK /\ SentOK /\ WindowOK /\ EpochOK
    BY Sizes DEF ModeOK, SentOK, WindowOK, EpochOK, Modes, Epochs
  <1>2. AcksOK
    <2>1. <<>> \in Seq(ServerIDs) /\ Len(<<>>) <= AckSize /\ Ids(<<>>) = {}
      BY Sizes DEF Ids
    <2> QED
      BY <2>1 DEF AcksOK
  <1>3. StreamOK
    <2>1. <<>> \in Seq(Message) /\ <<>> \o <<>> = <<>> /\ <<>> = Stretch(epoch, 0)
      BY DEF Stretch
    <2> QED
      BY <2>1 DEF StreamOK
  <1>4. ServerOK
    BY DEF ServerOK
  <1>5. OutOK /\ InOK /\ faults \in 0 .. MaxFaults
    BY Sizes DEF OutOK, InOK, BoxOK
  <1> QED
    BY <1>1, <1>2, <1>3, <1>4, <1>5 DEF ControlProofInv

LEMMA ControlStep ==
  ASSUME ControlProofInv, [ControlNext]_controlVars
  PROVE  ControlProofInv'
  <1>1. DOMAIN toServer = ClientIDs \cup {None} /\ DOMAIN toClient = ServerIDs \cup {None}
    BY DEF ControlProofInv, OutOK, InOK, BoxOK
  <1>2. CASE SendReset \/ SendNext \/ SendSoftReset
    BY <1>2, SendsKeep
  <1>3. CASE SendAck \/ RetransmitPending
    BY <1>3, RepeatKeeps
  <1>4. CASE ReadQueued
    BY <1>4, ReadQueuedKeeps
  <1>5. CASE Established \/ TakeKept \/ ProbeEnds
    BY <1>5, WatchKeeps
  <1>6. CASE ConsumeQueued
    BY <1>6, ConsumeKeeps
  <1>7. CASE Adopt
    BY <1>7, AdoptKeeps
  <1>8. CASE \E i \in DOMAIN toClient : Read(i)
    BY <1>1, <1>8, ReadIsKept
  <1>9. CASE ServerSend
    BY <1>9, ServerSendKeeps
  <1>10. CASE ServerRetransmits
    BY <1>10, ServerRepeats
  <1>11. CASE ServerSoftReset
    BY <1>11, SoftResetKeeps
  <1>12. CASE Lose
    BY <1>12, LoseKeeps
  <1>13. CASE \E i \in DOMAIN toServer : ServerRead(i)
    BY <1>1, <1>13, ServerReadKeeps
  <1>14. CASE UNCHANGED controlVars
    <2>1. UNCHANGED clientSide /\ UNCHANGED <<sEpoch, sSent, sPending, sGot>>
          /\ UNCHANGED <<toServer, toClient, faults>>
      BY <1>14 DEF controlVars, serverSide, net
    <2>2. /\ ModeOK' /\ SentOK' /\ AcksOK' /\ WindowOK' /\ StreamOK' /\ OutOK'
          /\ EpochOK' /\ ServerOK'
      BY <2>1, ClientRests
    <2>3. InOK' /\ faults' \in 0 .. MaxFaults
      BY <2>1 DEF ControlProofInv, InOK
    <2> QED
      BY <2>2, <2>3 DEF ControlProofInv
  <1> QED
    BY <1>2, <1>3, <1>4, <1>5, <1>6, <1>7, <1>8, <1>9, <1>10, <1>11, <1>12, <1>13,
       <1>14 DEF ControlNext, Step

LEMMA ControlImplies ==
  ASSUME ControlProofInv
  PROVE  ControlInv
  <1>1. ControlTypeOK
    <2>1. /\ epoch \in Epochs /\ remote \in BOOLEAN /\ mode \in Modes
          /\ sendMessage \in Nat /\ recvMessage \in Nat
          /\ pending \subseteq ClientIDs /\ recvPending \subseteq Message
          /\ \A m \in recvPending : m.id \in recvMessage .. recvMessage + Capacity - 1
      BY DEF ControlProofInv, ModeOK, SentOK, WindowOK
    <2>2. /\ ackPending \in Seq(ServerIDs) /\ lruAcks \in Seq(ServerIDs)
          /\ Len(lruAcks) <= AckSize
          /\ parkedTLS \in Seq(Message) /\ stream \in Seq(Message)
      BY DEF ControlProofInv, AcksOK, StreamOK
    <2>3. /\ pendingSoftReset \in Epochs \cup {None} /\ sEpoch \in Epochs
          /\ sSent \in Nat /\ sPending \subseteq ServerIDs /\ sGot \subseteq ClientIDs
          /\ toServer \in [ClientIDs \cup {None} -> Datagrams(ServerIDs) \cup {None}]
          /\ toClient \in [ServerIDs \cup {None} -> Datagrams(ClientIDs) \cup {None}]
          /\ faults \in 0 .. MaxFaults
      BY DEF ControlProofInv, EpochOK, ServerOK, OutOK, InOK, BoxOK
    <2> QED
      BY <2>1, <2>2, <2>3 DEF ControlTypeOK, Modes
  <1>2. StreamInOrder
    <2> DEFINE s == stream \o parkedTLS
               n == IF recvMessage = 0 THEN 0 ELSE recvMessage - 1
    <2>1. s = Stretch(epoch, n) /\ n \in Nat
      BY DEF ControlProofInv, StreamOK, WindowOK
    <2>2. Len(s) = n
      <3> HIDE DEF s
      <3> QED BY <2>1 DEF Stretch
    <2>3. s = [k \in 1 .. Len(s) |-> [epoch |-> epoch, id |-> k]]
      <3> HIDE DEF s
      <3> QED BY <2>1, <2>2 DEF Stretch
    <2> HIDE DEF s
    <2> QED
      BY <2>2, <2>3 DEF StreamInOrder, s
  <1>3. AckedIsKept
    BY DEF ControlProofInv, EpochOK, ServerOK, Received, AckedIsKept
  <1> QED
    BY <1>1, <1>2, <1>3 DEF ControlInv

(* Whatever is lost, repeated or late: TLS is given the messages of its own  *)
(* epoch in their order, and neither side strikes a message from its list    *)
(* before the other has it.                                                  *)
THEOREM ControlInvHolds == ControlSpec => []ControlInv
  <1>1. ControlInit => ControlProofInv
    BY ControlInitially
  <1>2. ControlProofInv /\ [ControlNext]_controlVars => ControlProofInv'
    BY ControlStep
  <1>3. ControlProofInv => ControlInv
    BY ControlImplies
  <1> QED
    BY <1>1, <1>2, <1>3, PTL DEF ControlSpec

(* A soft reset does not end an epoch before TLS has what was acknowledged.  *)
THEOREM QueueIsConsumedHolds == ControlSpec => QueueIsConsumed
  <1>1. ControlInit => ControlProofInv
    BY ControlInitially
  <1>2. ControlProofInv /\ [ControlNext]_controlVars => ControlProofInv'
    BY ControlStep
  <1>3. ASSUME ControlProofInv, [ControlNext]_controlVars
        PROVE  [mode = "reset" /\ mode' # "reset" =>
                  Ids(parkedTLS) \cup InTurn(recvPending) \subseteq Ids(stream')]_controlVars
    <2> SUFFICES ASSUME ControlNext, mode = "reset", mode' # "reset"
                 PROVE  Ids(parkedTLS) \cup InTurn(recvPending) \subseteq Ids(stream')
      BY <1>3
    <2>1. ConsumeQueued
      BY DEF ControlNext, Step, SendReset, SendNext, SendSoftReset, SendAck,
             RetransmitPending, ReadQueued, Reading, Established, TakeKept, ProbeEnds,
             Adopt, Read, ServerSend, ServerRetransmits, ServerSoftReset, Lose,
             ServerRead, clientSide, serverSide
    <2>2. InTurn(recvPending) \subseteq Ids(stream')
      BY <2>1, <1>3, ConsumeKeeps
    <2>3. parkedTLS = <<>>
      BY <1>3 DEF ControlProofInv, StreamOK
    <2>4. Ids(parkedTLS) = {}
      BY <2>3 DEF Ids
    <2> QED
      BY <2>2, <2>4
  <1> QED
    BY <1>1, <1>2, <1>3, PTL DEF ControlSpec, QueueIsConsumed
=============================================================================
