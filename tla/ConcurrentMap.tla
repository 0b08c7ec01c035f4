--------------------------- MODULE ConcurrentMap ---------------------------
(* The hash map of the proxy core (Clash.Meta/common/xsync/map.go), which    *)
(* keeps its connections, NAT entries and loopback sockets.  Loads take no   *)
(* lock; a write locks the chain of its bucket; a table that grows, shrinks  *)
(* or is cleared is replaced by another, into which the writers that meet    *)
(* the resize help to copy.                                                  *)
(*                                                                           *)
(* A step is an atomic access of another's state: the loads of a reader, the *)
(* two stores of an insertion or a deletion, and the steps of a resize.      *)
(* Under a lock what only the holder can change is read in one step with     *)
(* the store that follows.  The words that hold a bucket's tags are sets of  *)
(* tags, and a table's striped counters are one.                             *)
EXTENDS Integers, Sequences, FiniteSets, FiniteSetsExt, SequencesExt

CONSTANTS
    Threads, Keys, Nil,
    Hashes,           \* the hashes of the keys: [Keys -> [h1 : Nat, h2 : Nat]]
    Prefill,          \* what a map may hold: records [len, keys]
    BucketSize,       \* entriesPerMapBucket
    MinLen,           \* minTableLen, a power of two
    ShrinkFraction,   \* mapShrinkFraction
    Stride,           \* buckets claimed at once in a transfer
    MaxHelpers,       \* maxResizeHelpers
    MaxCalls

ASSUME MapAssumption ==
    /\ \A hash \in Hashes : hash \in [Keys -> [h1 : Nat, h2 : Nat \ {0}]]
    /\ \A p \in Prefill :
          p.len \in Nat \ {0} /\ p.keys \in Seq(Keys) /\ IsInjective(p.keys)
    /\ {BucketSize, MinLen, ShrinkFraction, Stride, MaxHelpers} \subseteq Nat \ {0}
    /\ IsFiniteSet(Threads) /\ MaxCalls \in Nat
    /\ Nil \notin Nat \cup Keys \cup Threads \cup {"grow", "shrink", "clear"}
    /\ Nil \notin [key : Keys, value : Nat]

VARIABLES
    hash,
    tables,          \* every table there has been
    table,           \* the number of the present one
    nextTable,       \* the one being filled, or Nil
    resizeSeq, resizeHelpers,  \* resizeCtl
    resizeIdx,
    local,           \* the variables of each call
    calls,
    (* history: no step reads these *)
    seen,            \* the values that a call's key has had since it began
    untrue,          \* answers of a value that the key has not had meanwhile
    wiped            \* tables that Clear has replaced

resizing == <<nextTable, resizeSeq, resizeHelpers, resizeIdx>>
fixed == <<hash, calls, wiped>>
mapVars == <<fixed, tables, table, resizing, local, seen, untrue>>

Ops == {"load", "store", "loadOrStore", "delete", "clear"}
Places == {"idle", "attempt", "scan", "entries", "lock", "locked", "apply",
           "tagged", "untagged", "count", "resize", "cas", "prepare", "claim",
           "copy", "publish", "finish", "help", "register", "leave", "wait"}

Empty == [tag |-> 0, entry |-> Nil]
NewBucket == [i \in 1 .. BucketSize |-> Empty]
NewTable(len) == [len |-> len, size |-> 0,
                  chain |-> [b \in 0 .. len - 1 |-> NewBucket],
                  lock |-> [b \in 0 .. len - 1 |-> Nil]]

(* The slots of bucket j of a chain, and the bucket of slot i. *)
Bucket(j) == (j - 1) * BucketSize + 1 .. j * BucketSize
BucketOf(i) == 1 + (i - 1) \div BucketSize

Home(n, k) == hash[k].h1 % tables[n].len
Chain(n, k) == tables[n].chain[Home(n, k)]
Occupied(chain) == {i \in DOMAIN chain : chain[i].entry # Nil}

(* The slots of k: k's tag, and an entry with the key. *)
Slots(n, k) ==
    LET chain == Chain(n, k) IN
    {i \in Occupied(chain) : chain[i].tag = hash[k].h2 /\ chain[i].entry.key = k}
Value(n, k) == IF Slots(n, k) = {} THEN Nil
               ELSE Chain(n, k)[Min(Slots(n, k))].entry.value

(* appendToBucket: into the first free slot, or into one more bucket. *)
appendToBucket(chain, tag, e) ==
    LET free == DOMAIN chain \ Occupied(chain)
        slot == [tag |-> tag, entry |-> e]
    IN IF free # {} THEN [chain EXCEPT ![Min(free)] = slot]
       ELSE chain \o [NewBucket EXCEPT ![1] = slot]

(* A slot, and the entries of a chain, copied to where they belong in        *)
(* another table.                                                            *)
CopySlot(slot, new) ==
    IF slot.entry = Nil THEN new
    ELSE LET h == hash[slot.entry.key] IN
         [new EXCEPT !.chain[h.h1 % new.len] = appendToBucket(@, h.h2, slot.entry)]

Copied(chain, new) ==
    LET copy[i \in 0 .. Len(chain)] ==
            IF i = 0 THEN new ELSE CopySlot(chain[i], copy[i - 1])
    IN copy[Len(chain)]

Idle == [at |-> "idle", op |-> Nil, key |-> Nil, value |-> Nil, tab |-> 0,
         pos |-> 0, marks |-> {}, slot |-> 0, delta |-> 0, hint |-> Nil,
         seq |-> 0, new |-> 0, range |-> {}, copied |-> 0]

At(t, place) == local[t].at = place

MapTypeOK ==
    /\ table \in DOMAIN tables /\ nextTable \in DOMAIN tables \cup {Nil}
    /\ \A n \in DOMAIN tables : tables[n].size \in Int
    /\ resizeSeq \in Nat /\ resizeHelpers \in 0 .. MaxHelpers
    /\ (resizeSeq % 2 = 0 => resizeHelpers = 0 /\ nextTable = Nil)
    /\ resizeIdx \in Nat /\ calls \in 0 .. MaxCalls
    /\ \A t \in Threads :
          local[t].at \in Places /\ local[t].tab \in DOMAIN tables \cup {0}

Filled(p) ==
    [Copied([i \in DOMAIN p.keys |->
                [tag |-> 1, entry |-> [key |-> p.keys[i], value |-> 0]]],
            NewTable(p.len)) EXCEPT !.size = Len(p.keys)]

MapInit ==
    /\ hash \in Hashes
    /\ \E p \in Prefill : tables = <<Filled(p)>>
    /\ table = 1 /\ nextTable = Nil
    /\ resizeSeq = 0 /\ resizeHelpers = 0 /\ resizeIdx = 0
    /\ local = [t \in Threads |-> Idle] /\ calls = 0
    /\ seen = [t \in Threads |-> {}] /\ untrue = {} /\ wiped = {}

-----------------------------------------------------------------------------
(* How a step leaves its call *)

Becomes(t, l) ==
    local' = [local EXCEPT ![t] = l] /\ UNCHANGED <<seen, untrue>>

Goes(t, place) == Becomes(t, [local[t] EXCEPT !.at = place])

Answer(t, v) == untrue' = untrue \cup ({<<t, v>>} \ ({t} \X seen[t]))

(* Back to the caller with a value that was read, or with none. *)
Returns(t, v) ==
    /\ Answer(t, v)
    /\ local' = [local EXCEPT ![t] = Idle] /\ seen' = [seen EXCEPT ![t] = {}]

Ends(t) ==
    /\ local' = [local EXCEPT ![t] = Idle] /\ seen' = [seen EXCEPT ![t] = {}]
    /\ UNCHANGED untrue

(* t makes v the value of its key: those who have the table may see it. *)
Shows(t, v) ==
    LET n == local[t].tab
        k == local[t].key
        sees(u) == local[u].key = k
                   /\ (n = table \/ (n \in wiped /\ local[u].tab = n))
    IN seen' = [u \in Threads |-> IF u = t /\ local'[t] = Idle THEN {}
                                  ELSE IF sees(u) THEN seen[u] \cup {v} ELSE seen[u]]

-----------------------------------------------------------------------------
FirstStep(op) == IF op = "store" THEN "lock" ELSE "scan"

(* A call and each attempt begin with the load of the table. *)
Call(t, op, k) ==
    /\ At(t, "idle") /\ calls < MaxCalls
    /\ calls' = calls + 1
    /\ local' = [local EXCEPT ![t] =
           [Idle EXCEPT !.at = FirstStep(op), !.op = op, !.key = k,
                        !.value = calls', !.tab = table, !.pos = 1]]
    /\ seen' = [seen EXCEPT ![t] = {Value(table, k)}]
    /\ UNCHANGED <<hash, tables, table, resizing, untrue, wiped>>

Clear(t) ==
    /\ At(t, "idle") /\ calls < MaxCalls
    /\ calls' = calls + 1
    /\ Becomes(t, [Idle EXCEPT !.at = "resize", !.op = "clear", !.hint = "clear",
                               !.tab = table])
    /\ UNCHANGED <<hash, tables, table, resizing, wiped>>

Attempt(t) ==
    /\ At(t, "attempt")
    /\ Becomes(t, [Idle EXCEPT !.at = FirstStep(local[t].op), !.op = local[t].op,
                       !.key = local[t].key, !.value = local[t].value,
                       !.tab = table, !.pos = 1])
    /\ UNCHANGED <<fixed, tables, table, resizing>>

-----------------------------------------------------------------------------
(* Reading without a lock: the tags of a bucket, an entry at a time, and the *)
(* next bucket of the chain.                                                 *)
ReadMeta(t) ==
    LET chain == Chain(local[t].tab, local[t].key) IN
    /\ At(t, "scan")
    /\ Becomes(t, [local[t] EXCEPT !.at = "entries",
           !.marks = {i \in Bucket(local[t].pos) :
                         chain[i].tag = hash[local[t].key].h2}])
    /\ UNCHANGED <<fixed, tables, table, resizing>>

Found(t, v) ==
    IF local[t].op = "delete" THEN Goes(t, "lock") ELSE Returns(t, v)

Missed(t) ==
    IF local[t].op = "loadOrStore" THEN Goes(t, "lock") ELSE Returns(t, Nil)

ReadEntry(t) ==
    /\ At(t, "entries") /\ local[t].marks # {}
    /\ LET i == Min(local[t].marks)
           e == Chain(local[t].tab, local[t].key)[i].entry
       IN IF e # Nil /\ e.key = local[t].key THEN Found(t, e.value)
          ELSE Becomes(t, [local[t] EXCEPT !.marks = @ \ {i}])
    /\ UNCHANGED <<fixed, tables, table, resizing>>

ReadNext(t) ==
    /\ At(t, "entries") /\ local[t].marks = {}
    /\ IF local[t].pos * BucketSize < Len(Chain(local[t].tab, local[t].key))
       THEN Becomes(t, [local[t] EXCEPT !.at = "scan", !.pos = @ + 1])
       ELSE Missed(t)
    /\ UNCHANGED <<fixed, tables, table, resizing>>

-----------------------------------------------------------------------------
(* Writing under the lock of the root bucket.  The look at resizeCtl comes   *)
(* before the look at the table: the resize changes them in this order.      *)
Root(t) == Home(local[t].tab, local[t].key)
LockIs(t, owner) == [tables EXCEPT ![local[t].tab].lock[Root(t)] = owner]

(* Mutant: a writer does not look whether the table is being resized. *)
LockUnseen(t) ==
    /\ At(t, "lock") /\ tables[local[t].tab].lock[Root(t)] = Nil
    /\ tables' = LockIs(t, t) /\ Goes(t, "locked")
    /\ UNCHANGED <<fixed, table, resizing>>

Lock(t) ==
    /\ At(t, "lock") /\ tables[local[t].tab].lock[Root(t)] = Nil
    /\ IF resizeSeq % 2 = 1
       THEN /\ Becomes(t, [local[t] EXCEPT !.at = "help", !.seq = resizeSeq])
            /\ UNCHANGED tables
       ELSE tables' = LockIs(t, t) /\ Goes(t, "locked")
    /\ UNCHANGED <<fixed, table, resizing>>

(* Mutant: nor whether another has replaced it. *)
CheckNot(t) ==
    /\ At(t, "locked") /\ Goes(t, "apply")
    /\ UNCHANGED <<fixed, tables, table, resizing>>

(* newerTableExists *)
Check(t) ==
    /\ At(t, "locked")
    /\ IF local[t].tab # table THEN tables' = LockIs(t, Nil) /\ Goes(t, "attempt")
       ELSE Goes(t, "apply") /\ UNCHANGED tables
    /\ UNCHANGED <<fixed, table, resizing>>

(* One slot of the chain changes, and the lock is kept or released. *)
Put(t, i, slot, owner) ==
    [tables EXCEPT ![local[t].tab].chain[Root(t)][i] = slot,
                   ![local[t].tab].lock[Root(t)] = owner]

(* The key is in slot i: a store replaces the entry, a deletion takes the   *)
(* tag first, the others answer with the value.                             *)
Replace(t, i, slot) ==
    /\ local[t].op = "store"
    /\ tables' = Put(t, i, [slot EXCEPT !.entry.value = local[t].value], Nil)
    /\ local' = [local EXCEPT ![t] = Idle] /\ Shows(t, local[t].value)
    /\ UNCHANGED untrue

Untag(t, i, slot) ==
    /\ local[t].op = "delete"
    /\ tables' = Put(t, i, [slot EXCEPT !.tag = 0], t)
    /\ local' = [local EXCEPT ![t].at = "untagged", ![t].slot = i, ![t].delta = -1,
           ![t].hint = IF \A j \in Bucket(BucketOf(i)) \ {i} :
                              Chain(local[t].tab, local[t].key)[j].tag = 0
                       THEN "shrink" ELSE Nil]
    /\ Shows(t, Nil) /\ Answer(t, slot.entry.value)

Keep(t, slot) ==
    /\ local[t].op = "loadOrStore"
    /\ tables' = LockIs(t, Nil) /\ Returns(t, slot.entry.value)

(* The key is missing: a full table grows, and else a value goes into the   *)
(* first free slot, tag first, or into a new bucket.                        *)
Threshold(n) == (3 * tables[n].len * BucketSize) \div 4

Grow(t) ==
    /\ tables' = LockIs(t, Nil)
    /\ Becomes(t, [local[t] EXCEPT !.at = "resize", !.hint = "grow"])

Tag(t, i) ==
    /\ tables' = Put(t, i, [tag |-> hash[local[t].key].h2, entry |-> Nil], t)
    /\ Becomes(t, [local[t] EXCEPT !.at = "tagged", !.slot = i])

Extend(t) ==
    /\ tables' = [LockIs(t, Nil) EXCEPT ![local[t].tab].chain[Root(t)] =
                     appendToBucket(@, hash[local[t].key].h2,
                         [key |-> local[t].key, value |-> local[t].value])]
    /\ local' = [local EXCEPT ![t].at = "count", ![t].delta = 1]
    /\ Shows(t, local[t].value) /\ UNCHANGED untrue

Insert(t) ==
    LET n == local[t].tab
        chain == Chain(n, local[t].key)
        free == {i \in DOMAIN chain : chain[i].tag = 0}
    IN IF free = {} /\ tables[n].size > Threshold(n) THEN Grow(t)
       ELSE IF local[t].op = "delete" THEN tables' = LockIs(t, Nil) /\ Returns(t, Nil)
       ELSE IF free # {} THEN Tag(t, Min(free)) ELSE Extend(t)

Apply(t) ==
    LET slots == Slots(local[t].tab, local[t].key) IN
    /\ At(t, "apply")
    /\ \/ slots = {} /\ Insert(t)
       \/ /\ slots # {}
          /\ LET i == Min(slots)
                 slot == Chain(local[t].tab, local[t].key)[i]
             IN Replace(t, i, slot) \/ Untag(t, i, slot) \/ Keep(t, slot)
    /\ UNCHANGED <<fixed, table, resizing>>

StoreEntry(t) ==
    LET e == [key |-> local[t].key, value |-> local[t].value] IN
    /\ At(t, "tagged")
    /\ tables' = Put(t, local[t].slot, [tag |-> hash[e.key].h2, entry |-> e], Nil)
    /\ local' = [local EXCEPT ![t].at = "count", ![t].delta = 1]
    /\ Shows(t, e.value)
    /\ UNCHANGED <<fixed, table, resizing, untrue>>

ClearEntry(t) ==
    /\ At(t, "untagged")
    /\ tables' = Put(t, local[t].slot, Empty, Nil)
    /\ Goes(t, "count")
    /\ UNCHANGED <<fixed, table, resizing>>

(* addSize, after the lock is released *)
CountIn(t, n) ==
    /\ At(t, "count")
    /\ tables' = [tables EXCEPT ![n].size = @ + local[t].delta]
    /\ IF local[t].hint = "shrink"
       THEN Becomes(t, [local[t] EXCEPT !.at = "resize", !.delta = 0])
       ELSE Ends(t)
    /\ UNCHANGED <<fixed, table, resizing>>

Count(t) == CountIn(t, local[t].tab)

-----------------------------------------------------------------------------
(* Resizing *)

(* What follows a resize, done or met: a shrink or a clear is not repeated. *)
AfterResize(t) ==
    IF local[t].hint \in {"shrink", "clear"} THEN Ends(t) ELSE Goes(t, "attempt")

MayShrink(n) ==
    /\ tables[n].len > MinLen
    /\ tables[n].size <= (tables[n].len * BucketSize) \div ShrinkFraction

Resize(t) ==
    /\ At(t, "resize")
    /\ IF local[t].hint = "shrink" /\ ~MayShrink(local[t].tab) THEN Ends(t)
       ELSE Becomes(t, [local[t] EXCEPT !.seq = resizeSeq,
                            !.at = IF resizeSeq % 2 = 1 THEN "help" ELSE "cas"])
    /\ UNCHANGED <<fixed, tables, table, resizing>>

Cas(t) ==
    /\ At(t, "cas")
    /\ IF resizeSeq = local[t].seq
       THEN resizeSeq' = resizeSeq + 1 /\ Goes(t, "prepare")
       ELSE UNCHANGED resizeSeq /\ Goes(t, "help")
    /\ UNCHANGED <<fixed, tables, table, nextTable, resizeHelpers, resizeIdx>>

(* The table is loaded again: it may be another than the one that was full. *)
NewLen(hint) ==
    CASE hint = "grow" -> 2 * tables[table].len
      [] hint = "shrink" -> tables[table].len \div 2
      [] hint = "clear" -> MinLen

Prepare(t) ==
    LET fill == local[t].hint # "clear"
        new == Len(tables) + 1
    IN
    /\ At(t, "prepare")
    /\ IF local[t].hint = "shrink" /\ ~MayShrink(table)
       THEN /\ resizeSeq' = resizeSeq + 1 /\ AfterResize(t)
            /\ UNCHANGED <<tables, nextTable, resizeIdx>>
       ELSE /\ tables' = Append(tables, NewTable(NewLen(local[t].hint)))
            /\ Becomes(t, [local[t] EXCEPT !.at = IF fill THEN "claim" ELSE "publish",
                                           !.tab = table, !.new = new])
            /\ nextTable' = IF fill THEN new ELSE nextTable
            /\ resizeIdx' = IF fill THEN 0 ELSE resizeIdx
            /\ UNCHANGED resizeSeq
    /\ UNCHANGED <<fixed, table, resizeHelpers>>

(* The owner of a resize found resizeCtl even, a helper found it odd. *)
Owner(t) == local[t].seq % 2 = 0
Resizing == {"prepare", "claim", "copy", "publish", "finish"}

Claim(t) ==
    LET src == tables[local[t].tab]
        base == Min({src.len, tables[local[t].new].len})
    IN
    /\ At(t, "claim")
    /\ resizeIdx' = resizeIdx + Stride
    /\ IF resizeIdx >= base THEN Goes(t, IF Owner(t) THEN "publish" ELSE "leave")
       ELSE Becomes(t, [local[t] EXCEPT !.at = "copy", !.copied = 0,
                !.range = {b \in DOMAIN src.chain :
                              b % base \in resizeIdx .. resizeIdx' - 1}])
    /\ UNCHANGED <<fixed, tables, table, nextTable, resizeSeq, resizeHelpers>>

(* A bucket is copied under its lock. *)
Copy(t) ==
    LET b == Min(local[t].range)
        src == tables[local[t].tab]
    IN
    /\ At(t, "copy") /\ local[t].range # {} /\ src.lock[b] = Nil
    /\ tables' = [tables EXCEPT ![local[t].new] = Copied(src.chain[b], @)]
    /\ Becomes(t, [local[t] EXCEPT !.range = @ \ {b},
                       !.copied = @ + Cardinality(Occupied(src.chain[b]))])
    /\ UNCHANGED <<fixed, table, resizing>>

CountCopied(t) ==
    /\ At(t, "copy") /\ local[t].range = {}
    /\ tables' = [tables EXCEPT ![local[t].new].size = @ + local[t].copied]
    /\ Becomes(t, [local[t] EXCEPT !.at = "claim", !.copied = 0])
    /\ UNCHANGED <<fixed, table, resizing>>

(* A cleared map has no value for any key that a call is about. *)
Publish(t) ==
    /\ At(t, "publish") /\ resizeHelpers = 0
    /\ table' = local[t].new /\ nextTable' = Nil
    /\ local' = [local EXCEPT ![t].at = "finish"]
    /\ IF local[t].hint = "clear"
       THEN /\ wiped' = wiped \cup {table}
            /\ seen' = [u \in Threads |->
                  IF local[u].key = Nil THEN {} ELSE seen[u] \cup {Nil}]
       ELSE UNCHANGED <<wiped, seen>>
    /\ UNCHANGED <<hash, calls, tables, resizeSeq, resizeHelpers, resizeIdx, untrue>>

Finish(t) ==
    /\ At(t, "finish") /\ resizeHelpers = 0
    /\ resizeSeq' = resizeSeq + 1 /\ AfterResize(t)
    /\ UNCHANGED <<fixed, tables, table, nextTable, resizeHelpers, resizeIdx>>

(* helpResize: wait for the next table, register, copy, leave, and wait for *)
(* the end.                                                                 *)
Help(t) ==
    /\ At(t, "help")
    /\ IF resizeSeq # local[t].seq THEN AfterResize(t)
       ELSE /\ nextTable # Nil /\ nextTable # table
            /\ Becomes(t, [local[t] EXCEPT !.at = "register", !.tab = table,
                                           !.new = nextTable])
    /\ UNCHANGED <<fixed, tables, table, resizing>>

Register(t) ==
    /\ At(t, "register")
    /\ IF resizeSeq # local[t].seq \/ resizeHelpers >= MaxHelpers
       THEN UNCHANGED resizeHelpers /\ Goes(t, "wait")
       ELSE resizeHelpers' = resizeHelpers + 1 /\ Goes(t, "claim")
    /\ UNCHANGED <<fixed, tables, table, nextTable, resizeSeq, resizeIdx>>

Leave(t) ==
    /\ At(t, "leave")
    /\ resizeHelpers' = resizeHelpers - 1 /\ Goes(t, "wait")
    /\ UNCHANGED <<fixed, tables, table, nextTable, resizeSeq, resizeIdx>>

Wait(t) ==
    /\ At(t, "wait") /\ resizeSeq % 2 = 0
    /\ AfterResize(t)
    /\ UNCHANGED <<fixed, tables, table, resizing>>

-----------------------------------------------------------------------------
MapStep(t) ==
    \/ Attempt(t) \/ ReadMeta(t) \/ ReadEntry(t) \/ ReadNext(t)
    \/ Lock(t) \/ Check(t) \/ Apply(t) \/ StoreEntry(t) \/ ClearEntry(t) \/ Count(t)
    \/ Resize(t) \/ Cas(t) \/ Prepare(t) \/ Claim(t) \/ Copy(t) \/ CountCopied(t)
    \/ Publish(t) \/ Finish(t)
    \/ Help(t) \/ Register(t) \/ Leave(t) \/ Wait(t)

MapNext ==
    \E t \in Threads :
        MapStep(t) \/ Clear(t) \/ \E op \in Ops \ {"clear"}, k \in Keys : Call(t, op, k)

MapSpec == MapInit /\ [][MapNext]_mapVars

-----------------------------------------------------------------------------
(* Nothing is answered that was not the value of the key at some moment of   *)
(* the call, whatever replaced the table or the slot under it.               *)
AnswersAreTrue == untrue = {}

(* A writer past its checks has the present table, or one that Clear has     *)
(* replaced meanwhile, as if it had written before: no write is lost in a    *)
(* table that was copied.                                                    *)
WritesLand ==
    \A t \in Threads : local[t].at \in {"apply", "tagged", "untagged"}
        => local[t].tab = table \/ local[t].tab \in wiped

(* The counter of the present table, with what calls are about to add, is    *)
(* the number of its keys, each in one slot: a copy is not counted twice,    *)
(* nor a change in another table's counter.                                  *)
CounterIsRight ==
    LET adding(d) == {t \in Threads : local[t].tab = table /\ local[t].delta = d}
        held == {k \in Keys : Slots(table, k) # {}}
    IN /\ \A k \in Keys : Cardinality(Slots(table, k)) <= 1
       /\ Cardinality(held) + Cardinality(adding(-1))
             = tables[table].size + Cardinality(adding(1))

(* A table is replaced by one with the same value for every key, each in one *)
(* slot, unless Clear replaces it.                                           *)
ContentIsKept ==
    [][table' # table =>
          \/ wiped' # wiped
          \/ \A k \in Keys : /\ Value(table, k)' = Value(table, k)
                             /\ Cardinality(Slots(table, k)') <= 1]_mapVars

(* A resize has one owner from the odd resizeCtl to the even one, and counts *)
(* as helpers just those who copy: the owner waits for nobody who has left,  *)
(* and forgets nobody who may still copy into a table it has given up.       *)
ResizeIsOwned ==
    LET owners == {t \in Threads : local[t].at \in Resizing /\ Owner(t)}
        helpers == {t \in Threads : local[t].at \in {"claim", "copy", "leave"} /\ ~Owner(t)}
    IN /\ Cardinality(owners) = resizeSeq % 2
       /\ Cardinality(helpers) = resizeHelpers

(* What holds of the map between any two steps of its threads: no write is   *)
(* lost, none counted twice, nothing false is answered, and a resize has one *)
(* owner who knows its helpers.                                              *)
MapInv ==
    /\ MapTypeOK
    /\ AnswersAreTrue /\ WritesLand /\ CounterIsRight /\ ResizeIsOwned
=============================================================================
