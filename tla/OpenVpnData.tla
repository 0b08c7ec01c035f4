----------------------------- MODULE OpenVpnData -----------------------------
(* The keys of the OpenVPN client's data channel                             *)
(* (Clash.Meta/transport/openvpn/client.go).  The goroutine that watches the *)
(* control channel installs a new key for every epoch; the old one stays     *)
(* usable for a transition window that runs from the soft reset, and goes on *)
(* encrypting until the peer has been seen to use the new one or a selection *)
(* window has passed.  Packets are written and read meanwhile.               *)
(*                                                                           *)
(* Of a deadline the model keeps whether it lies ahead or has passed.  The   *)
(* key of an epoch is the epoch; the control epoch is that of OpenVpnControl,*)
(* the write of a packet that of OpenVpnWrite.                               *)
EXTENDS Naturals, FiniteSets

CONSTANTS DataSenders, LastKey, NoKey

ASSUME DataAssumption == LastKey \in Nat /\ NoKey \notin Nat

Keys == 0 .. LastKey
Clock == {"unset", "runs", "passed"}

VARIABLES
    (* the watching goroutine *)
    watcher, keyID, runs,        \* runs: runCtx is not cancelled
    (* under dataLock *)
    data, retiring, outboundKey,
    selection,                   \* the selection window, from outboundStart
    retiringExpiry, pendingRetiringExpiry, pendingSelection,
    dataChanged,                 \* counts its rotations
    recvEvidence,                \* keys that MarkPeerActive has marked
    (* the peer, whose newest key is the one it sends with *)
    peerKey,
    (* writeDataPacket *)
    writeSem, at, outbound, changed,
    lastSent,                    \* the key of the last packet encrypted
    (* decryptDataPacket: the key to be marked *)
    marking

control == <<watcher, keyID, runs>>
windows == <<selection, retiringExpiry, pendingRetiringExpiry, pendingSelection>>
keys == <<data, retiring, outboundKey>>
sender == <<writeSem, at, outbound, changed, lastSent>>
peer == <<recvEvidence, peerKey, marking>>
dataVars == <<control, windows, keys, dataChanged, sender, peer>>

MaybeKey == Keys \cup {NoKey}

DataTypeOK ==
    /\ watcher \in {"closed", "waits", "reset", "adopted", "exchanged"}
    /\ keyID \in Keys /\ runs \in BOOLEAN
    /\ {data, retiring, outboundKey, lastSent, marking}
          \subseteq MaybeKey
    /\ {selection, retiringExpiry, pendingRetiringExpiry, pendingSelection} \subseteq Clock
    /\ dataChanged \in 0 .. LastKey + 1
    /\ recvEvidence \subseteq Keys /\ peerKey \in MaybeKey
    /\ writeSem \in BOOLEAN
    /\ at \in [DataSenders -> {"idle", "select", "encrypt", "paused", "write"}]
    /\ outbound \in [DataSenders -> MaybeKey]
    /\ changed \in [DataSenders -> 0 .. LastKey + 1]
    /\ (retiring # NoKey => retiring < data)

DataInit ==
    /\ watcher = "closed" /\ keyID = 0 /\ runs = TRUE
    /\ data = NoKey /\ retiring = NoKey /\ outboundKey = NoKey
    /\ selection = "unset" /\ retiringExpiry = "unset"
    /\ pendingRetiringExpiry = "unset" /\ pendingSelection = "unset"
    /\ dataChanged = 0 /\ recvEvidence = {} /\ peerKey = NoKey
    /\ writeSem = FALSE /\ lastSent = NoKey /\ marking = NoKey
    /\ at = [s \in DataSenders |-> "idle"]
    /\ outbound = [s \in DataSenders |-> NoKey]
    /\ changed = [s \in DataSenders |-> 0]

-----------------------------------------------------------------------------
(* The watching goroutine *)

(* The key method exchange of the first handshake has derived key 0. *)
Handshake ==
    /\ watcher = "closed" /\ runs /\ watcher' = "exchanged"
    /\ UNCHANGED <<keyID, runs, windows, keys, dataChanged, sender, peer>>

(* A soft reset is accepted: the windows of the old key run from here. *)
stageRetiringWindow ==
    /\ watcher = "waits" /\ runs /\ keyID < LastKey /\ watcher' = "reset"
    /\ pendingRetiringExpiry' = "runs" /\ pendingSelection' = "runs"
    /\ UNCHANGED <<keyID, runs, selection, retiringExpiry, keys, dataChanged,
                   sender, peer>>

AdoptKey ==
    /\ watcher = "reset" /\ watcher' = "adopted" /\ keyID' = keyID + 1
    /\ UNCHANGED <<runs, windows, keys, dataChanged, sender, peer>>

(* TLS and the key method exchange of the next epoch. *)
Exchange ==
    /\ watcher = "adopted" /\ runs /\ watcher' = "exchanged"
    /\ UNCHANGED <<keyID, runs, windows, keys, dataChanged, sender, peer>>

Installs(new) ==
    /\ watcher = "exchanged" /\ watcher' = "waits"
    /\ retiring' = data /\ data' = new
    /\ outboundKey' = IF data # NoKey THEN data ELSE new
    /\ selection' = IF data # NoKey /\ pendingSelection # "unset" THEN pendingSelection
                    ELSE "runs"
    /\ retiringExpiry' = IF data = NoKey THEN "unset"
                         ELSE IF pendingRetiringExpiry # "unset" THEN pendingRetiringExpiry
                         ELSE "runs"
    /\ pendingRetiringExpiry' = "unset" /\ pendingSelection' = "unset"
    /\ UNCHANGED <<keyID, runs, sender, peer>>

(* Mutant: nobody is told. *)
installUnsignalled == Installs(keyID) /\ UNCHANGED dataChanged

installDataChannel == Installs(keyID) /\ dataChanged' = dataChanged + 1

(* A probe, a handshake or the transport fails, in time: each has a deadline.*)
failControl ==
    /\ watcher # "closed" /\ runs /\ runs' = FALSE
    /\ UNCHANGED <<watcher, keyID, windows, keys, dataChanged, sender, peer>>

Passes(clock) == IF clock = "runs" THEN "passed" ELSE clock

(* Time passes for one of the windows. *)
WindowPasses ==
    /\ \/ selection = "runs" /\ selection' = "passed"
          /\ UNCHANGED <<retiringExpiry, pendingRetiringExpiry, pendingSelection>>
       \/ retiringExpiry = "runs" /\ retiringExpiry' = "passed"
          /\ UNCHANGED <<selection, pendingRetiringExpiry, pendingSelection>>
       \/ pendingRetiringExpiry = "runs" /\ pendingRetiringExpiry' = "passed"
          /\ retiringExpiry' = Passes(retiringExpiry)
          /\ UNCHANGED <<selection, pendingSelection>>
       \/ pendingSelection = "runs" /\ pendingSelection' = "passed"
          /\ UNCHANGED <<selection, retiringExpiry, pendingRetiringExpiry>>
    /\ UNCHANGED <<control, keys, dataChanged, sender, peer>>

-----------------------------------------------------------------------------
(* writeDataPacket *)

GoTo(s, to) == at' = [at EXCEPT ![s] = to]
Unlock == UNCHANGED <<control, windows, keys, dataChanged, peer>>

selectionExpired == selection = "passed"
retiringExpired == retiring # NoKey /\ outboundKey = retiring /\ retiringExpiry = "passed"
promotionIsDue == data \in recvEvidence \/ selectionExpired \/ retiringExpired

(* There is a client to write with once its first key is installed; a writer *)
(* that waits for the semaphore has not begun.                               *)
Acquire(s) ==
    /\ at[s] = "idle" /\ data # NoKey
    /\ ~writeSem /\ writeSem' = TRUE /\ GoTo(s, "select")
    /\ Unlock /\ UNCHANGED <<outbound, changed, lastSent>>

(* No packet leaves after the old key's deadline while the new one is on its *)
(* way.                                                                      *)
Pause(s) ==
    /\ at[s] \in {"select", "encrypt"} /\ pendingRetiringExpiry = "passed"
    /\ changed' = [changed EXCEPT ![s] = dataChanged] /\ GoTo(s, "paused")
    /\ outbound' = [outbound EXCEPT ![s] = NoKey]
    /\ Unlock /\ UNCHANGED <<writeSem, lastSent>>

Select(s) ==
    /\ at[s] = "select" /\ pendingRetiringExpiry # "passed"
    /\ outboundKey = data \/ ~promotionIsDue
    /\ outbound' = [outbound EXCEPT ![s] = outboundKey] /\ GoTo(s, "encrypt")
    /\ Unlock /\ UNCHANGED <<writeSem, changed, lastSent>>

(* Under the write lock the condition is looked at again. *)
Promote(s) ==
    /\ at[s] = "select" /\ pendingRetiringExpiry # "passed"
    /\ outboundKey # data /\ promotionIsDue
    /\ outboundKey' = data /\ selection' = "runs"
    /\ UNCHANGED <<control, retiringExpiry, pendingRetiringExpiry, pendingSelection, data,
                   retiring, dataChanged, peer, sender>>

(* Mutant: what was selected is encrypted with. *)
EncryptUnchecked(s) ==
    /\ at[s] = "encrypt" /\ lastSent' = outbound[s] /\ GoTo(s, "write")
    /\ outbound' = [outbound EXCEPT ![s] = NoKey]
    /\ Unlock /\ UNCHANGED <<writeSem, changed>>

Encrypt(s) ==
    /\ at[s] = "encrypt" /\ pendingRetiringExpiry # "passed"
    /\ outbound[s] \in {data, retiring} /\ (outbound[s] = data \/ ~promotionIsDue)
    /\ lastSent' = outbound[s] /\ GoTo(s, "write")
    /\ outbound' = [outbound EXCEPT ![s] = NoKey]
    /\ Unlock /\ UNCHANGED <<writeSem, changed>>

(* Another key was installed, or became due, since the selection. *)
SelectAgain(s) ==
    /\ at[s] = "encrypt" /\ pendingRetiringExpiry # "passed"
    /\ outbound[s] \notin {data, retiring} \/ (outbound[s] # data /\ promotionIsDue)
    /\ GoTo(s, "select") /\ outbound' = [outbound EXCEPT ![s] = NoKey]
    /\ Unlock /\ UNCHANGED <<writeSem, changed, lastSent>>

Resume(s) ==
    /\ at[s] = "paused" /\ changed[s] # dataChanged
    /\ changed' = [changed EXCEPT ![s] = 0] /\ GoTo(s, "select")
    /\ Unlock /\ UNCHANGED <<writeSem, outbound, lastSent>>

Leaves(s) ==
    /\ writeSem' = FALSE /\ GoTo(s, "idle") /\ changed' = [changed EXCEPT ![s] = 0]
    /\ Unlock /\ UNCHANGED <<outbound, lastSent>>

(* The packet has been written or dropped, or runCtx is done. *)
Return(s) == (at[s] = "write" \/ (at[s] = "paused" /\ ~runs)) /\ Leaves(s)

(* The context of the write is done. *)
GiveUp(s) == at[s] = "paused" /\ Leaves(s)

-----------------------------------------------------------------------------
(* The peer and decryptDataPacket *)

(* Once the keys have been exchanged the peer may send with the new one. *)
PeerSwitches ==
    /\ watcher \in {"exchanged", "waits"} /\ peerKey # keyID /\ peerKey' = keyID
    /\ UNCHANGED <<control, windows, keys, dataChanged, sender,
                   recvEvidence, marking>>

(* A packet, perhaps a late one, is decrypted under the lock. *)
Decrypt(k) ==
    /\ marking = NoKey /\ runs /\ peerKey # NoKey /\ k <= peerKey
    /\ pendingRetiringExpiry # "passed"
    /\ k = data \/ (k = retiring /\ retiringExpiry # "passed")
    /\ marking' = IF k = data THEN k ELSE NoKey
    /\ UNCHANGED <<control, windows, keys, dataChanged, sender,
                   recvEvidence, peerKey>>

(* Mutant: the key that is current now is marked. *)
MarkCurrent ==
    /\ marking # NoKey /\ marking' = NoKey
    /\ recvEvidence' = recvEvidence \cup {data}
    /\ UNCHANGED <<control, windows, keys, dataChanged, sender, peerKey>>

MarkPeerActive ==
    /\ marking # NoKey /\ marking' = NoKey
    /\ recvEvidence' = recvEvidence \cup {marking}
    /\ UNCHANGED <<control, windows, keys, dataChanged, sender, peerKey>>

-----------------------------------------------------------------------------
Watch == AdoptKey \/ Exchange \/ installDataChannel

SendPacket(s) ==
    \/ Pause(s) \/ Select(s) \/ Promote(s) \/ Encrypt(s)
    \/ SelectAgain(s) \/ Resume(s) \/ Return(s)

DataNext ==
    \/ Handshake \/ stageRetiringWindow \/ Watch
    \/ failControl \/ WindowPasses
    \/ \E s \in DataSenders : Acquire(s) \/ SendPacket(s) \/ GiveUp(s)
    \/ PeerSwitches \/ MarkPeerActive \/ \E k \in Keys : Decrypt(k)

DataSpec == DataInit /\ [][DataNext]_dataVars

(* A renegotiation comes to an end, or to its deadline; goroutines go on.    *)
DataFairness ==
    /\ WF_dataVars(Watch)
    /\ \A s \in DataSenders : WF_dataVars(SendPacket(s))

-----------------------------------------------------------------------------
(* Properties *)

(* Packets leave under keys that never go back, and none under a key that    *)
(* was dropped or whose transition window is over, however many epochs pass  *)
(* between the selection of a key and its use.                               *)
KeysGoForward ==
    [][\A s \in DataSenders :
          at[s] = "encrypt" /\ at'[s] = "write"
          => /\ lastSent # NoKey => lastSent <= lastSent'
             /\ lastSent' = data
                \/ (lastSent' = retiring /\ "passed" \notin {retiringExpiry, pendingRetiringExpiry})
      ]_dataVars

(* A key counts as used by the peer only if the peer has used it: a packet   *)
(* that is read while a renegotiation ends says nothing of the next key.     *)
EvidenceIsItsOwn ==
    /\ \A k \in recvEvidence : peerKey # NoKey /\ k <= peerKey

(* A writer that is paused goes on with the next key, or is told that there  *)
(* will be none.                                                             *)
PausedGoOn == \A s \in DataSenders : at[s] = "paused" ~> at[s] # "paused"

(* The keys with their windows, and what is known of the peer. *)
DataInv == DataTypeOK /\ EvidenceIsItsOwn
=============================================================================
