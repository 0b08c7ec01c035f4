----------------------------- MODULE MapContent -----------------------------
(* Proofs about what the tables of ConcurrentMap hold, for any threads, keys,*)
(* hashes, sizes and prefilled tables: MapInv and ContentIsKept.             *)
(*                                                                           *)
(* The invariant says of every chain that it has each key once and at home,  *)
(* but for the slot between the two stores of its writer (ChainsOK), of a    *)
(* table being filled that it has just the keys whose buckets are copied     *)
(* (CopyOK), of the counter what has not been added to it yet (CountOK), and *)
(* of a reader that it will still meet its key unless that has been absent   *)
(* since the call began (ReaderOK).  The recursion that copies a chain is    *)
(* taken apart by the least step at which a claim would fail.                *)
EXTENDS MapProofs

-----------------------------------------------------------------------------
(* The invariant of the contents *)

(* A slot is empty, or has its tag and its entry. *)
Whole(s) == s.entry = Nil <=> s.tag = 0

(* Slot i of chain b of table n is between the two stores of a writer. *)
Mid(n, b, i) ==
    LET u == tables[n].lock[b] IN
    /\ u \in Threads /\ local[u].at \in {"tagged", "untagged"}
    /\ local[u].tab = n /\ Root(u) = b /\ local[u].slot = i

(* A chain of whole buckets, where each key has one entry, and is at home.   *)
Placed(c, b, m) ==
    /\ \E j \in Nat : j > 0 /\ Len(c) = j * BucketSize
    /\ \A i \in 1 .. Len(c) : c[i].entry # Nil =>
          /\ hash[c[i].entry.key].h1 % m = b
          /\ c[i].tag # 0 => c[i].tag = hash[c[i].entry.key].h2
    /\ \A i, j \in 1 .. Len(c) :
          c[i].entry # Nil /\ c[j].entry # Nil /\ c[i].entry.key = c[j].entry.key => i = j

(* Chain b of table n: a slot that is not whole is being written. *)
ChainOK(n, b) ==
    LET c == tables[n].chain[b] IN
    Placed(c, b, tables[n].len) /\ \A i \in 1 .. Len(c) : Whole(c[i]) \/ Mid(n, b, i)

ChainsOK == \A n \in 1 .. Len(tables) : \A b \in 0 .. tables[n].len - 1 : ChainOK(n, b)

(* The slot that a writer is between two stores of. *)
SlotOK(t) ==
    LET l == local[t]
        c == Chain(l.tab, l.key) IN
    /\ l.at \in {"tagged", "untagged"} => l.slot \in 1 .. Len(c)
    /\ l.at = "tagged" =>
          /\ c[l.slot].entry = Nil
          /\ \A i \in 1 .. Len(c) : c[i].entry # Nil => c[i].entry.key # l.key
    /\ l.at = "untagged" => c[l.slot].tag = 0

(* What a reader may still meet, at l with the values of S seen. *)
ReaderOf(l, S) ==
    LET c == Chain(l.tab, l.key) IN
    /\ l.at \in {"scan", "entries"} => l.pos > 0 /\ l.pos * BucketSize <= Len(c)
    /\ l.at = "scan" =>
          Nil \in S \/ \E i \in Slots(l.tab, l.key) : i > (l.pos - 1) * BucketSize
    /\ l.at = "entries" =>
          /\ l.marks \subseteq Bucket(l.pos)
          /\ Nil \in S \/ \E i \in Slots(l.tab, l.key) :
                               i \in l.marks \/ i > l.pos * BucketSize
          /\ \A i \in l.marks : c[i].entry # Nil /\ c[i].entry.key = l.key
                                   => c[i].entry.value \in S

ReaderOK(t) == ReaderOf(local[t], seen[t])

(* The present value of a key that is asked for counts as seen. *)
SeenOK(t) ==
    LET l == local[t] IN
    l.key # Nil => Value(table, l.key) \in seen[t] /\ Value(l.tab, l.key) \in seen[t]

(* The keys of a table. *)
Held(n) == {k \in Keys : Slots(n, k) # {}}

(* What those who copy have not counted yet. *)
Tokens == {p \in Threads \X Nat : p[2] \in 1 .. local[p[1]].copied}

(* A table being filled has the keys of the copied buckets, and is counted.  *)
CopyOK ==
    /\ IsFiniteSet(Tokens)
    /\ Len(tables) # table =>
          /\ IF nextTable = Nil THEN Held(table + 1) = {}
             ELSE Held(table + 1) = {k \in Held(table) : Done(Home(table, k))}
          /\ \A k \in Held(table + 1) : Value(table + 1, k) = Value(table, k)
          /\ IsFiniteSet(Held(table + 1))
          /\ Cardinality(Held(table + 1)) = tables[table + 1].size + Cardinality(Tokens)

(* Who has changed the table by d and not counted it yet. *)
Adding(d) == {t \in Threads : local[t].tab = table /\ local[t].delta = d}

(* The counter lags the keys by what is not counted yet. *)
CountOK ==
    /\ IsFiniteSet(Held(table))
    /\ Cardinality(Held(table)) + Cardinality(Adding(-1))
          = tables[table].size + Cardinality(Adding(1))

Content ==
    /\ ChainsOK /\ CopyOK /\ CountOK /\ untrue = {}
    /\ \A t \in Threads : SlotOK(t) /\ ReaderOK(t) /\ SeenOK(t)

MapProofInv == ControlLand /\ Content

(* The slots of k in a chain. *)
SlotsOf(c, k) ==
    {i \in 1 .. Len(c) : c[i].entry # Nil /\ c[i].tag = hash[k].h2 /\ c[i].entry.key = k}

LEMMA SlotsOfIs ==
  ASSUME Typed, NEW n \in 1 .. Len(tables), NEW k \in Keys
  PROVE  Slots(n, k) = SlotsOf(Chain(n, k), k)
  <1>1. Chain(n, k) \in Seq(SlotSet)
    BY HomeIs
  <1>2. DOMAIN Chain(n, k) = 1 .. Len(Chain(n, k))
    BY <1>1
  <1> QED
    BY <1>2 DEF Slots, SlotsOf, Occupied

LEMMA ChainIs ==
  ASSUME Typed, ChainsOK, NEW n \in 1 .. Len(tables), NEW k \in Keys
  PROVE  /\ Chain(n, k) \in Seq(SlotSet) /\ Placed(Chain(n, k), Home(n, k), tables[n].len)
         /\ \A i \in 1 .. Len(Chain(n, k)) : Chain(n, k)[i] \in SlotSet
         /\ ChainOK(n, Home(n, k)) /\ Home(n, k) \in 0 .. tables[n].len - 1
  <1>1. Chain(n, k) \in Seq(SlotSet) /\ Home(n, k) \in 0 .. tables[n].len - 1
    BY HomeIs
  <1>2. ChainOK(n, Home(n, k))
    BY <1>1 DEF ChainsOK
  <1> QED
    BY <1>1, <1>2 DEF ChainOK, Chain

(* A key has one slot at most, and the value that is there. *)
LEMMA ValueIs ==
  ASSUME Typed, ChainsOK, NEW n \in 1 .. Len(tables), NEW k \in Keys
  PROVE  /\ Slots(n, k) = {} => Value(n, k) = Nil
         /\ \A i \in Slots(n, k) :
               /\ i \in 1 .. Len(Chain(n, k)) /\ Chain(n, k)[i] \in SlotSet
               /\ Value(n, k) = Chain(n, k)[i].entry.value /\ Value(n, k) \in Nat
               /\ Value(n, k) # Nil /\ Slots(n, k) = {i} /\ Min(Slots(n, k)) = i
               /\ Chain(n, k)[i].tag = hash[k].h2 /\ Chain(n, k)[i].entry.key = k
               /\ Chain(n, k)[i].entry \in Entries
         /\ IsFiniteSet(Slots(n, k)) /\ Cardinality(Slots(n, k)) <= 1
         /\ Value(n, k) \in Values
  <1> DEFINE c == Chain(n, k)
             S == Slots(n, k)
  <1>1. Placed(c, Home(n, k), tables[n].len) /\ S = SlotsOf(c, k)
    BY ChainIs, SlotsOfIs
  <1>2. ASSUME NEW i \in S, NEW j \in S PROVE i = j
    BY <1>1, <1>2 DEF SlotsOf, Placed
  <1>3. \A i \in S : /\ i \in 1 .. Len(c) /\ c[i] \in SlotSet /\ c[i].entry \in Entries
                     /\ c[i].entry.key = k /\ c[i].entry.value \in Nat /\ c[i].tag = hash[k].h2
    BY <1>1, SlotsAre, ChainIs DEF SlotsOf
  <1>4. S # {} => Min(S) \in S
    BY SlotsAre
  <1>5. Value(n, k) = IF S = {} THEN Nil ELSE c[Min(S)].entry.value
    BY DEF Value
  <1>6. Value(n, k) \in Values
    BY SlotsAre
  <1>7. IsFiniteSet(S) /\ Cardinality(S) <= 1
    <2>1. CASE S = {}
      BY <2>1, FS_EmptySet
    <2>2. CASE S # {}
      <3>1. PICK i : S = {i}
        BY <1>2, <2>2, Zenon
      <3> HIDE DEF S
      <3>2. IsFiniteSet(S) /\ Cardinality(S) = 1
        BY <3>1, FS_Singleton, Zenon
      <3> QED
        BY <3>2
    <2> QED
      BY <2>1, <2>2
  <1> HIDE DEF c, S
  <1>8. ASSUME NEW i \in S
        PROVE  S = {i} /\ Min(S) = i /\ Value(n, k) = c[i].entry.value /\ Value(n, k) # Nil
               /\ Value(n, k) \in Nat
    <2>1. S = {i} /\ Min(S) = i
      BY <1>2, <1>4
    <2>2. Value(n, k) = c[i].entry.value /\ c[i].entry.value \in Nat
      BY <1>3, <1>5, <2>1
    <2> QED
      BY <2>1, <2>2, MapSizes
  <1> QED
    BY <1>3, <1>5, <1>6, <1>7, <1>8 DEF c, S

-----------------------------------------------------------------------------
(* The steps that leave the chains alone *)

SameChains ==
    /\ Shaped /\ hash' = hash
    /\ \A n \in 1 .. Len(tables) : \A b \in 0 .. tables[n].len - 1 :
          tables'[n].chain[b] = tables[n].chain[b]

SameSizes == \A n \in 1 .. Len(tables) : tables'[n].size = tables[n].size

LEMMA SameSlots ==
  ASSUME Typed, Typed', SameChains, NEW n \in 1 .. Len(tables), NEW k \in Keys
  PROVE  /\ Home(n, k)' = Home(n, k) /\ Chain(n, k)' = Chain(n, k) /\ Slots(n, k)' = Slots(n, k)
         /\ Value(n, k)' = Value(n, k)
  <1>1. tables'[n].len = tables[n].len /\ hash' = hash
    BY DEF SameChains, Shaped
  <1>2. Home(n, k)' = Home(n, k) /\ Home(n, k) \in 0 .. tables[n].len - 1
    BY <1>1, HomeIs DEF Home
  <1>3. tables'[n].chain[Home(n, k)] = tables[n].chain[Home(n, k)]
    BY <1>2 DEF SameChains
  <1>4. Chain(n, k)' = Chain(n, k)
    BY <1>2, <1>3 DEF Chain
  <1>5. Slots(n, k)' = Slots(n, k)
    BY <1>1, <1>4 DEF Slots
  <1>6. Value(n, k)' = Value(n, k)
    BY <1>4, <1>5 DEF Value
  <1> QED
    BY <1>2, <1>4, <1>5, <1>6

LEMMA SameHeld ==
  ASSUME Typed, Typed', SameChains, NEW n \in 1 .. Len(tables)
  PROVE  Held(n)' = Held(n)
  BY SameSlots DEF Held

LEMMA SameMid ==
  ASSUME ControlLand, NEW t \in Threads, Shaped, hash' = hash, LocksKept(t),
         local[t].at \notin {"tagged", "untagged"},
         \A u \in Threads : u # t => local'[u] = local[u],
         NEW n \in 1 .. Len(tables), NEW b \in 0 .. tables[n].len - 1, NEW i, Mid(n, b, i)
  PROVE  Mid(n, b, i)'
  <1>0. PICK u \in Threads : u = tables[n].lock[b]
    BY DEF Mid
  <1>1. u \in Threads /\ u # t /\ local[u].at \in {"tagged", "untagged"} /\ local[u].tab = n
        /\ Root(u) = b /\ local[u].slot = i
    BY <1>0 DEF Mid
  <1>2. tables'[n].lock[b] = u
    BY <1>0, <1>1 DEF LocksKept
  <1>3. local[u].at \in OnKey /\ local'[u] = local[u]
    BY <1>1 DEF OnKey, Writing
  <1>4. Root(u)' = Root(u)
    BY <1>1, <1>3, Now, RootKept
  <1> QED
    BY <1>1, <1>2, <1>3, <1>4 DEF Mid

LEMMA SameChainsOK ==
  ASSUME ControlLand, ChainsOK, NEW t \in Threads, SameChains, LocksKept(t),
         local[t].at \notin {"tagged", "untagged"},
         \A u \in Threads : u # t => local'[u] = local[u]
  PROVE  ChainsOK'
  <1>1. Shaped /\ hash' = hash /\ Typed
    BY Now DEF SameChains
  <1>2. Len(tables') = Len(tables) /\ \A n \in 1 .. Len(tables) : tables'[n].len = tables[n].len
    BY <1>1 DEF Shaped
  <1>3. ASSUME NEW n \in 1 .. Len(tables), NEW b \in 0 .. tables[n].len - 1
        PROVE  ChainOK(n, b)'
    <2>1. tables'[n].chain[b] = tables[n].chain[b] /\ ChainOK(n, b)
      BY DEF SameChains, ChainsOK
    <2>2. \A i : Mid(n, b, i) => Mid(n, b, i)'
      BY <1>1, SameMid
    <2>3. PICK c, m : c = tables[n].chain[b] /\ m = tables[n].len
      OBVIOUS
    <2>4. tables'[n].chain[b] = c /\ tables'[n].len = m
      BY <1>2, <2>1, <2>3
    <2>5. Placed(c, b, m) /\ \A i \in 1 .. Len(c) : Whole(c[i]) \/ Mid(n, b, i)
      BY <2>1, <2>3 DEF ChainOK
    <2>6. Placed(c, b, m)'
      BY <1>1, <2>5 DEF Placed
    <2>7. \A i \in 1 .. Len(c) : Whole(c[i]) \/ Mid(n, b, i)'
      BY <2>2, <2>5
    <2> QED
      BY <2>4, <2>6, <2>7 DEF ChainOK
  <1> QED
    BY <1>2, <1>3 DEF ChainsOK

(* The table of a thread that is about its key. *)
LEMMA TabIs ==
  ASSUME ControlLand, NEW t \in Threads, local[t].key # Nil
  PROVE  local[t].tab \in 1 .. Len(tables) /\ local[t].key \in Keys /\ local[t].at # "idle"
         /\ local[t].tab \in 1 .. table /\ local[t].hint # "clear"
  <1>1. LocalOK(t) /\ table \in Nat /\ table <= Len(tables) /\ Len(tables) \in Nat /\ table > 0
    BY Now
  <1>2. local[t].at # "idle"
    BY <1>1 DEF LocalOK, Idle
  <1> QED
    BY <1>1, <1>2 DEF LocalOK

LEMMA KeyIs ==
  ASSUME ControlLand, NEW t \in Threads, local[t].at \in OnKey
  PROVE  local[t].key # Nil /\ local[t].hint # "clear"
  BY Now, OnTableIs, MapSizes DEF OnTable, LocalOK

(* What holds of a thread that does nothing. *)
LEMMA OtherContent ==
  ASSUME ControlLand, Typed', SameChains, NEW u \in Threads, local'[u] = local[u],
         seen[u] \subseteq seen'[u], table' = table, SlotOK(u), ReaderOK(u), SeenOK(u)
  PROVE  SlotOK(u)' /\ ReaderOK(u)' /\ SeenOK(u)'
  <1>1. CASE local[u].key = Nil
    <2>1. local[u].at \notin OnKey
      BY <1>1, KeyIs
    <2> QED
      BY <1>1, <2>1 DEF SlotOK, ReaderOK, ReaderOf, SeenOK, OnKey, Writing
  <1>2. CASE local[u].key # Nil
    <2>0. PICK n \in 1 .. Len(tables), k \in Keys : n = local[u].tab /\ k = local[u].key
      BY <1>2, TabIs
    <2>1. table \in 1 .. Len(tables) /\ Typed
      BY Now DEF Typed
    <2>2. /\ Chain(n, k)' = Chain(n, k) /\ Slots(n, k)' = Slots(n, k)
          /\ Value(n, k)' = Value(n, k) /\ Value(table, k)' = Value(table, k)
      BY <2>1, SameSlots
    <2>3. SlotOK(u)'
      BY <2>0, <2>2 DEF SlotOK
    <2>4. ReaderOK(u)'
      BY <2>0, <2>2 DEF ReaderOK, ReaderOf
    <2>5. SeenOK(u)'
      BY <2>0, <2>2 DEF SeenOK
    <2> QED
      BY <2>3, <2>4, <2>5
  <1> QED
    BY <1>1, <1>2

SameDones ==
    nextTable # Nil => \A b \in 0 .. tables[table].len - 1 : Done(b)' <=> Done(b)

LEMMA CopiesKept ==
  ASSUME ControlLand, Typed', CopyOK, SameChains, SameDones,
         table' = table, nextTable' = nextTable, IsFiniteSet(Tokens)',
         Len(tables) # table => tables'[table + 1].size + Cardinality(Tokens')
                                   = tables[table + 1].size + Cardinality(Tokens)
  PROVE  CopyOK'
  <1>2. Typed /\ table \in 1 .. Len(tables) /\ Len(tables) \in Nat /\ ResizeOK
    BY DEF ControlLand, Control, Typed
  <1>3. Len(tables') = Len(tables)
    BY DEF SameChains, Shaped
  <1>4. CASE Len(tables) = table
    BY <1>3, <1>4 DEF CopyOK
  <1>5. CASE Len(tables) # table
    <2>1. table + 1 \in 1 .. Len(tables)
      BY <1>2, <1>5
    <2>2. /\ Held(table)' = Held(table) /\ Held(table + 1)' = Held(table + 1)
          /\ \A k \in Keys : /\ Value(table, k)' = Value(table, k) /\ Home(table, k)' = Home(table, k)
                             /\ Value(table + 1, k)' = Value(table + 1, k)
                             /\ Home(table, k) \in 0 .. tables[table].len - 1
      BY <1>2, <2>1, SameSlots, SameHeld, HomeIs
    <2>3. Held(table) \subseteq Keys /\ Held(table + 1) \subseteq Keys
      BY DEF Held
    <2>4. nextTable # Nil => {k \in Held(table) : Done(Home(table, k))}'
                             = {k \in Held(table) : Done(Home(table, k))}
      <3>1. ASSUME nextTable # Nil, NEW k \in Held(table)
            PROVE  Done(Home(table, k))' <=> Done(Home(table, k))
        <4>1. Home(table, k)' = Home(table, k) /\ Home(table, k) \in 0 .. tables[table].len - 1
          BY <2>2, <2>3
        <4>2. PICK b \in 0 .. tables[table].len - 1 : b = Home(table, k)
          BY <4>1
        <4>3. Done(b)' <=> Done(b)
          BY <3>1 DEF SameDones
        <4>4. Done(Home(table, k))' <=> Done(b)'
          BY <4>1, <4>2 DEF Done
        <4> QED
          BY <4>2, <4>3, <4>4
      <3> QED
        BY <2>2, <3>1
    <2> QED
      BY <1>3, <1>5, <2>2, <2>3, <2>4 DEF CopyOK
  <1> QED
    BY <1>4, <1>5

LEMMA SameCopies ==
  ASSUME ControlLand, Typed', CopyOK, SameChains, SameSizes, SameDones,
         table' = table, nextTable' = nextTable,
         \A u \in Threads : local'[u].copied = local[u].copied
  PROVE  CopyOK'
  <1>1. Tokens' = Tokens /\ IsFiniteSet(Tokens)
    BY DEF Tokens, CopyOK
  <1>2. Len(tables) # table => table + 1 \in 1 .. Len(tables)
    <2>1. table \in 1 .. Len(tables) /\ Len(tables) \in Nat
      BY DEF ControlLand, Control, Typed
    <2> QED
      BY <2>1
  <1> QED
    BY <1>1, <1>2, CopiesKept DEF SameSizes

LEMMA SameCount ==
  ASSUME ControlLand, Typed', CountOK, SameChains, table' = table,
         tables'[table].size = tables[table].size,
         \A u \in Threads : /\ local'[u].delta = local[u].delta
                            /\ local[u].delta # 0 => local'[u].tab = local[u].tab
  PROVE  CountOK'
  <1>1. Typed /\ table \in 1 .. Len(tables)
    BY DEF ControlLand, Control, Typed
  <1>2. Held(table)' = Held(table) /\ tables'[table].size = tables[table].size
    BY <1>1, SameHeld
  <1>3. Adding(1)' = Adding(1) /\ Adding(-1)' = Adding(-1)
    BY DEF Adding
  <1> QED
    BY <1>2, <1>3 DEF CountOK

(* t moves to l, and no entry, counter or table changes. *)
Quiet(t, l) ==
    /\ local' = [local EXCEPT ![t] = l] /\ untrue' = {}
    /\ SameChains /\ SameSizes /\ LocksKept(t) /\ table' = table /\ nextTable' = nextTable
    /\ local[t].at \notin {"tagged", "untagged"} /\ l.at \notin {"tagged", "untagged"}
    /\ l.copied = local[t].copied /\ l.delta = local[t].delta
    /\ l.delta # 0 => l.tab = local[t].tab
    /\ \A u \in Threads : u # t => seen'[u] = seen[u]

LEMMA QuietStep ==
  ASSUME ControlLand, Content, ControlLand', NEW t \in Threads, NEW l, Quiet(t, l), SameDones,
         ReaderOK(t)', SeenOK(t)'
  PROVE  Content'
  <1>1. Typed /\ Typed' /\ local'[t] = l /\ \A u \in Threads : u # t => local'[u] = local[u]
    BY DEF ControlLand, Control, Typed, Quiet
  <1>2. \A u \in Threads : u # t => SlotOK(u)' /\ ReaderOK(u)' /\ SeenOK(u)'
    BY <1>1, OtherContent DEF Content, Quiet
  <1>3. SlotOK(t)'
    BY <1>1 DEF SlotOK, Quiet
  <1>4. ChainsOK'
    BY <1>1, SameChainsOK DEF Content, Quiet
  <1>5. CopyOK'
    <2>1. \A u \in Threads : local'[u].copied = local[u].copied
      BY <1>1 DEF Quiet
    <2> QED
      BY <1>1, <2>1, SameCopies DEF Content, Quiet
  <1>6. CountOK'
    <2>1. \A u \in Threads : /\ local'[u].delta = local[u].delta
                             /\ local[u].delta # 0 => local'[u].tab = local[u].tab
      BY <1>1 DEF Quiet
    <2>2. tables'[table].size = tables[table].size
      BY <1>1 DEF Quiet, SameSizes, Typed
    <2> QED
      BY <1>1, <2>1, <2>2, SameCount DEF Content, Quiet
  <1> QED
    BY <1>2, <1>3, <1>4, <1>5, <1>6 DEF Content, Quiet

LEMMA RangesKeepDones ==
  ASSUME ControlLand, Shaped, table' = table, resizeIdx' = resizeIdx,
         \A u \in Threads : local'[u].range = local[u].range
  PROVE  SameDones
  <1>1. ASSUME nextTable # Nil PROVE Base(table)' = Base(table)
    <2>1. Typed /\ Len(tables) = table + 1
      BY <1>1 DEF ControlLand, Control, ResizeOK
    <2> QED
      BY <2>1, BaseStays
  <1> QED
    BY <1>1 DEF SameDones, Done

(* Where a call stands that copies nothing and counts nothing. *)
LEMMA PlainLocal ==
  ASSUME ControlLand, NEW t \in Threads
  PROVE  /\ local[t].at # "copy" => local[t].range = {} /\ local[t].copied = 0
         /\ local[t].at \notin {"untagged", "count"} => local[t].delta = 0
  BY Now DEF LocalOK

(* A call about the same key in the same table or the present one, or none. *)
Stays(t, l) ==
    l.key = Nil \/ (/\ l.key = local[t].key /\ l.tab \in {local[t].tab, table}
                    /\ seen'[t] = seen[t])

LEMMA SeenCall ==
  ASSUME ControlLand, Typed', SameChains, table' = table, NEW t \in Threads, SeenOK(t),
         NEW l, local'[t] = l, Stays(t, l)
  PROVE  SeenOK(t)'
  <1>1. CASE l.key = Nil
    BY <1>1 DEF SeenOK
  <1>2. CASE l.key # Nil
    <2>1. l.key = local[t].key /\ l.tab \in {local[t].tab, table} /\ seen'[t] = seen[t]
      BY <1>2 DEF Stays
    <2>2. PICK n \in 1 .. Len(tables), k \in Keys : n = local[t].tab /\ k = local[t].key
      BY <1>2, <2>1, TabIs
    <2>3. table \in 1 .. Len(tables) /\ Typed
      BY Now DEF Typed
    <2>4. Value(n, k)' = Value(n, k) /\ Value(table, k)' = Value(table, k)
      BY <2>3, SameSlots
    <2>5. Value(n, k) \in seen[t] /\ Value(table, k) \in seen[t]
      BY <1>2, <2>1, <2>2 DEF SeenOK
    <2> QED
      BY <2>1, <2>2, <2>4, <2>5 DEF SeenOK
  <1> QED
    BY <1>1, <1>2

(* A step of a call about the same key, or its end. *)
LEMMA QuietCall ==
  ASSUME ControlLand, Content, ControlLand', NEW t \in Threads, NEW l, Quiet(t, l),
         resizeIdx' = resizeIdx, l.range = local[t].range,
         l.at \notin {"scan", "entries"},
         l.key = Nil \/ (/\ l.key = local[t].key /\ l.tab \in {local[t].tab, table}
                         /\ seen'[t] = seen[t])
  PROVE  Content'
  <1>1. Typed' /\ local'[t] = l /\ \A u \in Threads : u # t => local'[u] = local[u]
    BY DEF ControlLand, Control, Typed, Quiet
  <1>2. SameDones
    <2>1. \A u \in Threads : local'[u].range = local[u].range
      BY <1>1
    <2> QED
      BY <2>1, RangesKeepDones DEF Quiet, SameChains
  <1>3. ReaderOK(t)'
    BY <1>1 DEF ReaderOK, ReaderOf
  <1>4. SeenOK(t)'
    BY <1>1, SeenCall DEF Stays, Content, Quiet
  <1> QED
    BY <1>2, <1>3, <1>4, QuietStep

LEMMA SameTables ==
  ASSUME ControlLand, tables' = tables, hash' = hash, NEW t \in Threads
  PROVE  SameChains /\ SameSizes /\ LocksKept(t)
  BY Now, SameShapes, SameKeepsLocks DEF SameChains, SameSizes

(* A lock is taken or released. *)
LEMMA LockSame ==
  ASSUME ControlLand, hash' = hash, NEW t \in Threads, OnTable(t), NEW owner \in {Nil, t},
         tables[local[t].tab].lock[Root(t)] \in {Nil, t}, tables' = LockIs(t, owner)
  PROVE  SameChains /\ SameSizes /\ LocksKept(t)
  <1> DEFINE n == local[t].tab
             b == Root(t)
             c == Chain(local[t].tab, local[t].key)
  <1>1. Typed /\ owner \in Owners
    BY Now DEF Owners
  <1>2. Edited(n, b, c, owner) /\ c = tables[n].chain[b]
    BY <1>1, LockEdits, RootIs
  <1>3. tables[n].lock[b] \in {Nil, t}
    OBVIOUS
  <1> HIDE DEF n, b, c
  <1>4. LocksKept(t) /\ Shaped
    BY <1>2, <1>3, EditKeepsLocks, EditShapes
  <1> QED
    BY <1>2, <1>4 DEF Edited, SameChains, SameSizes

-----------------------------------------------------------------------------
(* The content in the steps of a call that only reads *)

LEMMA Monotone ==
  ASSUME NEW x \in Nat, NEW y \in Nat, NEW z \in Nat, x <= y
  PROVE  x * z \in Nat /\ y * z \in Nat /\ x * z <= y * z
  <1>1. PICK d \in Nat : y = x + d
    <2>1. y - x \in Nat /\ y = x + (y - x)
      OBVIOUS
    <2> QED
      BY <2>1
  <1>2. y * z = x * z + d * z /\ d * z \in Nat /\ x * z \in Nat
    BY <1>1
  <1> QED
    BY <1>2

(* The bucket after one that is not the last of a chain. *)
LEMMA NextBucket ==
  ASSUME NEW p \in Nat, NEW j \in Nat, NEW z \in Nat, p * z < j * z
  PROVE  (p + 1) * z <= j * z
  <1>1. ~ (j <= p)
    <2>1. ASSUME j <= p PROVE FALSE
      <3>1. j * z <= p * z /\ j * z \in Nat /\ p * z \in Nat
        BY <2>1, Monotone
      <3> QED
        BY <3>1
    <2> QED
      BY <2>1
  <1>2. p + 1 \in Nat /\ p + 1 <= j
    BY <1>1
  <1> QED
    BY <1>2, Monotone

(* The chain of a key has a bucket, where the search for it begins. *)
LEMMA BeginReader ==
  ASSUME Typed, ChainsOK, NEW n \in 1 .. Len(tables), NEW k \in Keys, NEW S, Value(n, k) \in S
  PROVE  /\ 1 * BucketSize <= Len(Chain(n, k))
         /\ Nil \in S \/ \E i \in Slots(n, k) : i > (1 - 1) * BucketSize
  <1>1. PICK j \in Nat : j > 0 /\ Len(Chain(n, k)) = j * BucketSize
    BY ChainIs DEF Placed
  <1>2. BucketSize \in Nat
    BY MapSizes
  <1>3. 1 * BucketSize <= j * BucketSize
    BY <1>1, <1>2, Monotone
  <1>4. CASE Slots(n, k) = {}
    BY <1>1, <1>3, <1>4, ValueIs
  <1>5. CASE Slots(n, k) # {}
    <2>1. PICK i \in Slots(n, k) : i \in 1 .. Len(Chain(n, k))
      BY <1>5, ValueIs
    <2>2. i > (1 - 1) * BucketSize
      BY <1>2, <2>1
    <2> QED
      BY <1>1, <1>3, <2>1, <2>2
  <1> QED
    BY <1>4, <1>5

(* A call or an attempt begins. *)
LEMMA BeginContent ==
  ASSUME ControlLand, Content, ControlLand', NEW t \in Threads, NEW l, Quiet(t, l),
         resizeIdx' = resizeIdx, l.range = local[t].range, l.at \in {"scan", "lock"},
         l.tab = table, l.key \in Keys, l.pos = 1, Value(table, l.key) \in seen'[t]
  PROVE  Content'
  <1>1. Typed /\ Typed' /\ local'[t] = l /\ \A u \in Threads : u # t => local'[u] = local[u]
    BY DEF ControlLand, Control, Typed, Quiet
  <1>2. SameDones
    <2>1. \A u \in Threads : local'[u].range = local[u].range
      BY <1>1
    <2> QED
      BY <2>1, RangesKeepDones DEF Quiet, SameChains
  <1>3. PICK n \in 1 .. Len(tables), k \in Keys : n = table /\ k = l.key
    BY <1>1 DEF Typed
  <1>4. Value(n, k)' = Value(n, k) /\ Chain(n, k)' = Chain(n, k) /\ Slots(n, k)' = Slots(n, k)
    BY <1>1, SameSlots DEF Quiet
  <1>5. table' = n
    BY <1>3 DEF Quiet
  <1>6. SeenOK(t)'
    BY <1>1, <1>3, <1>4, <1>5 DEF SeenOK
  <1>7. /\ 1 * BucketSize <= Len(Chain(n, k))
        /\ Nil \in seen'[t] \/ \E i \in Slots(n, k) : i > (1 - 1) * BucketSize
    BY <1>1, <1>3, BeginReader DEF Content
  <1>8. ReaderOK(t)'
    BY <1>1, <1>3, <1>4, <1>7 DEF ReaderOK, ReaderOf
  <1> QED
    BY <1>2, <1>6, <1>8, QuietStep

LEMMA CallContent ==
  ASSUME ControlLand, Content, ControlLand', NEW t \in Threads, NEW op \in Ops \ {"clear"},
         NEW k \in Keys, Call(t, op, k)
  PROVE  Content'
  <1> DEFINE l == [Idle EXCEPT !.at = FirstStep(op), !.op = op, !.key = k,
                               !.value = calls', !.tab = table, !.pos = 1]
  <1>1. /\ local' = [local EXCEPT ![t] = l] /\ tables' = tables /\ hash' = hash
        /\ table' = table /\ nextTable' = nextTable /\ resizeIdx' = resizeIdx /\ untrue' = {}
        /\ seen' = [seen EXCEPT ![t] = {Value(table, k)}] /\ local[t].at = "idle"
    BY DEF Call, resizing, At, Content
  <1>2. /\ l.at \in {"scan", "lock"} /\ l.tab = table /\ l.key = k /\ l.pos = 1
        /\ l.range = {} /\ l.copied = 0 /\ l.delta = 0
    BY DEF Idle, FirstStep
  <1>3. local[t].range = {} /\ local[t].copied = 0 /\ local[t].delta = 0
    BY <1>1, PlainLocal
  <1> HIDE DEF l
  <1>4. /\ seen'[t] = {Value(table, k)} /\ \A u \in Threads : u # t => seen'[u] = seen[u]
    BY <1>1, Now
  <1>5. Quiet(t, l)
    BY <1>1, <1>2, <1>3, <1>4, SameTables DEF Quiet
  <1> QED
    BY <1>1, <1>2, <1>3, <1>4, <1>5, BeginContent, Zenon

LEMMA AttemptContent ==
  ASSUME ControlLand, Content, ControlLand', NEW t \in Threads, Attempt(t)
  PROVE  Content'
  <1> DEFINE m == local[t]
             l == [Idle EXCEPT !.at = FirstStep(m.op), !.op = m.op, !.key = m.key,
                               !.value = m.value, !.tab = table, !.pos = 1]
  <1>1. /\ local' = [local EXCEPT ![t] = l] /\ tables' = tables /\ hash' = hash
        /\ table' = table /\ nextTable' = nextTable /\ resizeIdx' = resizeIdx /\ untrue' = {}
        /\ seen' = seen /\ local[t].at = "attempt"
    BY DEF Attempt, Becomes, resizing, At, Content, fixed
  <1>2. /\ l.at \in {"scan", "lock"} /\ l.tab = table /\ l.key = local[t].key /\ l.pos = 1
        /\ l.range = {} /\ l.copied = 0 /\ l.delta = 0
    BY DEF Idle, FirstStep
  <1>3. local[t].range = {} /\ local[t].copied = 0 /\ local[t].delta = 0
    BY <1>1, PlainLocal
  <1> HIDE DEF l
  <1>4. local[t].key \in Keys /\ local[t].key # Nil
    BY <1>1, KeyIs, TabIs DEF OnKey
  <1>5. Quiet(t, l)
    BY <1>1, <1>2, <1>3, SameTables DEF Quiet
  <1>6. Value(table, l.key) \in seen'[t]
    BY <1>1, <1>2, <1>4 DEF Content, SeenOK
  <1> QED
    BY <1>1, <1>2, <1>3, <1>4, <1>5, <1>6, BeginContent

(* A reader goes on. *)
LEMMA ReaderStep ==
  ASSUME ControlLand, Content, ControlLand', NEW t \in Threads, NEW l, Quiet(t, l),
         resizeIdx' = resizeIdx, l.range = local[t].range, local[t].at \in OnKey,
         l.key = local[t].key, l.tab = local[t].tab, seen' = seen, ReaderOf(l, seen[t])
  PROVE  Content'
  <1>1. Typed /\ Typed' /\ local'[t] = l /\ \A u \in Threads : u # t => local'[u] = local[u]
    BY DEF ControlLand, Control, Typed, Quiet
  <1>2. SameDones
    <2>1. \A u \in Threads : local'[u].range = local[u].range
      BY <1>1
    <2> QED
      BY <2>1, RangesKeepDones DEF Quiet, SameChains
  <1>3. local[t].key # Nil
    BY KeyIs
  <1>4. PICK n \in 1 .. Len(tables), k \in Keys : n = local[t].tab /\ k = local[t].key
    BY <1>3, TabIs
  <1>5. Value(n, k)' = Value(n, k) /\ Chain(n, k)' = Chain(n, k) /\ Slots(n, k)' = Slots(n, k)
    BY <1>1, SameSlots DEF Quiet
  <1>6. Value(table, k)' = Value(table, k)
    BY <1>1, SameSlots DEF Quiet, Typed
  <1>7. SeenOK(t)'
    BY <1>1, <1>3, <1>4, <1>5, <1>6 DEF SeenOK, Content, Quiet
  <1>8. ReaderOK(t)'
    BY <1>1, <1>4, <1>5 DEF ReaderOK, ReaderOf
  <1> QED
    BY <1>2, <1>7, <1>8, QuietStep

(* What a reader has before it. *)
LEMMA ReaderNow ==
  ASSUME ControlLand, Content, NEW t \in Threads, local[t].at \in {"scan", "entries"}
  PROVE  /\ local[t].at \in OnKey /\ local[t].tab \in 1 .. Len(tables) /\ local[t].key \in Keys
         /\ ReaderOf(local[t], seen[t]) /\ Value(local[t].tab, local[t].key) \in seen[t]
         /\ local[t].pos \in Nat /\ local[t] \in Locals /\ Typed /\ ChainsOK
         /\ local[t].range = {} /\ local[t].copied = 0 /\ local[t].delta = 0
         /\ BucketSize \in Nat /\ BucketSize > 0
  <1>1. local[t].at \in OnKey
    BY DEF OnKey
  <1>2. local[t].key # Nil /\ local[t] \in Locals
    BY <1>1, KeyIs, Now
  <1>3. local[t].pos \in Nat
    BY <1>2 DEF Locals
  <1> QED
    BY <1>1, <1>2, <1>3, TabIs, PlainLocal, Now, MapSizes DEF Content, ReaderOK, SeenOK

LEMMA ReadMetaContent ==
  ASSUME ControlLand, Content, ControlLand', NEW t \in Threads, ReadMeta(t)
  PROVE  Content'
  <1> DEFINE n == local[t].tab
             k == local[t].key
             c == Chain(n, k)
             p == local[t].pos
             marks == {i \in Bucket(p) : c[i].tag = hash[k].h2}
             l == [local[t] EXCEPT !.at = "entries", !.marks = marks]
  <1>1. /\ local' = [local EXCEPT ![t] = l] /\ tables' = tables /\ hash' = hash
        /\ table' = table /\ nextTable' = nextTable /\ resizeIdx' = resizeIdx /\ untrue' = {}
        /\ seen' = seen /\ local[t].at = "scan"
    BY DEF ReadMeta, Becomes, resizing, At, Content, fixed
  <1>2. /\ local[t].at \in OnKey /\ n \in 1 .. Len(tables) /\ k \in Keys
        /\ ReaderOf(local[t], seen[t]) /\ Value(n, k) \in seen[t] /\ p \in Nat
        /\ local[t] \in Locals /\ Typed /\ ChainsOK /\ BucketSize \in Nat
    BY <1>1, ReaderNow
  <1>3. /\ l.at = "entries" /\ l.marks = marks /\ l.pos = p /\ l.tab = n /\ l.key = k
        /\ l.range = local[t].range /\ l.copied = local[t].copied /\ l.delta = local[t].delta
    BY <1>2 DEF Locals
  <1> HIDE DEF l, marks
  <1>4. Quiet(t, l)
    BY <1>1, <1>3, SameTables DEF Quiet
  <1>5. /\ p > 0 /\ p * BucketSize <= Len(c)
        /\ Nil \in seen[t] \/ \E i \in Slots(n, k) : i > (p - 1) * BucketSize
    BY <1>1, <1>2 DEF ReaderOf
  <1>6. ASSUME NEW i \in Slots(n, k), i > (p - 1) * BucketSize
        PROVE  i \in marks \/ i > p * BucketSize
    <2>1. i \in 1 .. Len(c) /\ c[i].tag = hash[k].h2
      BY <1>2, ValueIs
    <2>2. (p - 1) * BucketSize \in Int /\ p * BucketSize \in Int
      BY <1>2
    <2>3. i <= p * BucketSize => i \in Bucket(p)
      BY <1>6, <2>1, <2>2 DEF Bucket
    <2> QED
      BY <2>1, <2>2, <2>3 DEF marks
  <1>7. ASSUME NEW i \in marks, c[i].entry # Nil, c[i].entry.key = k
        PROVE  c[i].entry.value \in seen[t]
    <2>1. i \in Bucket(p) /\ c[i].tag = hash[k].h2
      BY DEF marks
    <2>2. c \in Seq(SlotSet) /\ Len(c) \in Nat
      BY <1>2, ChainIs
    <2>3. i \in 1 .. Len(c)
      <3>1. p - 1 \in Nat /\ (p - 1) * BucketSize \in Nat /\ p * BucketSize \in Nat
        BY <1>2, <1>5
      <3> HIDE DEF c, p
      <3> QED
        BY <1>5, <2>1, <2>2, <3>1 DEF Bucket
    <2>4. i \in Slots(n, k)
      BY <1>2, <1>7, <2>1, <2>3, SlotsOfIs DEF SlotsOf
    <2>5. Value(n, k) = c[i].entry.value
      BY <1>2, <2>4, ValueIs
    <2> QED
      BY <1>2, <2>5
  <1>8. marks \subseteq Bucket(p)
    BY DEF marks
  <1>9. ReaderOf(l, seen[t])
    BY <1>3, <1>5, <1>6, <1>7, <1>8 DEF ReaderOf
  <1> QED
    BY <1>1, <1>2, <1>3, <1>4, <1>9, ReaderStep

(* A call answers what its key was. *)
LEMMA ReturnContent ==
  ASSUME ControlLand, Content, ControlLand', NEW t \in Threads, NEW v \in seen[t], Returns(t, v),
         SameChains, SameSizes, LocksKept(t), table' = table, nextTable' = nextTable,
         resizeIdx' = resizeIdx, local[t].at \notin {"tagged", "untagged", "count", "copy"}
  PROVE  Content'
  <1>1. /\ local' = [local EXCEPT ![t] = Idle] /\ seen' = [seen EXCEPT ![t] = {}]
        /\ Answer(t, v) /\ untrue = {}
    BY DEF Returns, Content
  <1>2. untrue' = {}
    BY <1>1 DEF Answer
  <1>3. \A u \in Threads : u # t => seen'[u] = seen[u]
    BY <1>1, Now
  <1>4. Quiet(t, Idle)
    BY <1>1, <1>2, <1>3, PlainLocal DEF Quiet, Idle
  <1> QED
    BY <1>4, PlainLocal, QuietCall, Zenon DEF Idle

(* A call goes on at another place. *)
LEMMA GoContent ==
  ASSUME ControlLand, Content, ControlLand', NEW t \in Threads, NEW place, Goes(t, place),
         SameChains, SameSizes, LocksKept(t), table' = table, nextTable' = nextTable,
         resizeIdx' = resizeIdx, local[t].at \notin {"tagged", "untagged"},
         place \notin {"tagged", "untagged", "scan", "entries"}
  PROVE  Content'
  <1> DEFINE l == [local[t] EXCEPT !.at = place]
  <1>1. local' = [local EXCEPT ![t] = l] /\ seen' = seen /\ untrue' = {}
    BY DEF Goes, Becomes, Content
  <1>2. /\ l.at = place /\ l.tab = local[t].tab /\ l.key = local[t].key
        /\ l.range = local[t].range /\ l.copied = local[t].copied /\ l.delta = local[t].delta
    BY Now DEF Locals
  <1> HIDE DEF l
  <1>3. Quiet(t, l)
    BY <1>1, <1>2 DEF Quiet
  <1> QED
    BY <1>1, <1>2, <1>3, QuietCall

LEMMA ReadEntryContent ==
  ASSUME ControlLand, Content, ControlLand', NEW t \in Threads, ReadEntry(t)
  PROVE  Content'
  <1> DEFINE n == local[t].tab
             k == local[t].key
             c == Chain(n, k)
             i == Min(local[t].marks)
             l == [local[t] EXCEPT !.marks = @ \ {i}]
  <1>1. /\ tables' = tables /\ hash' = hash /\ table' = table /\ nextTable' = nextTable
        /\ resizeIdx' = resizeIdx /\ untrue = {} /\ local[t].at = "entries"
        /\ local[t].marks # {} /\ SameChains /\ SameSizes /\ LocksKept(t)
    BY SameTables DEF ReadEntry, resizing, At, Content, fixed
  <1>2. /\ local[t].at \in OnKey /\ n \in 1 .. Len(tables) /\ k \in Keys
        /\ ReaderOf(local[t], seen[t]) /\ local[t].pos \in Nat
        /\ local[t] \in Locals /\ Typed /\ ChainsOK /\ BucketSize \in Nat
    BY <1>1, ReaderNow
  <1>3. i \in local[t].marks
    <2>1. local[t].marks \subseteq Bucket(local[t].pos) /\ local[t].pos > 0
      BY <1>1, <1>2 DEF ReaderOf
    <2>2. local[t].pos - 1 \in Nat /\ (local[t].pos - 1) * BucketSize \in Nat
      BY <1>2, <2>1
    <2>3. Bucket(local[t].pos) \subseteq Nat
      BY <1>2, <2>2 DEF Bucket
    <2> QED
      BY <1>1, <2>1, <2>3, MinIs
  <1>4. CASE c[i].entry # Nil /\ c[i].entry.key = k
    <2>1. c[i].entry.value \in seen[t]
      BY <1>1, <1>2, <1>3, <1>4 DEF ReaderOf
    <2>2. Found(t, c[i].entry.value)
      BY <1>4 DEF ReadEntry
    <2>3. CASE local[t].op = "delete"
      BY <1>1, <2>2, <2>3, GoContent DEF Found
    <2>4. CASE local[t].op # "delete"
      BY <1>1, <2>1, <2>2, <2>4, ReturnContent DEF Found
    <2> QED
      BY <2>3, <2>4
  <1>5. CASE ~ (c[i].entry # Nil /\ c[i].entry.key = k)
    <2>1. Becomes(t, l)
      BY <1>5 DEF ReadEntry
    <2>2. local' = [local EXCEPT ![t] = l] /\ seen' = seen /\ untrue' = {}
      BY <1>1, <2>1 DEF Becomes
    <2> HIDE DEF i
    <2>3. /\ l.at = "entries" /\ l.marks = local[t].marks \ {i} /\ l.pos = local[t].pos
          /\ l.tab = n /\ l.key = k
          /\ l.range = local[t].range /\ l.copied = local[t].copied /\ l.delta = local[t].delta
      BY <1>1, <1>2 DEF Locals
    <2> HIDE DEF l
    <2>4. Quiet(t, l)
      BY <1>1, <2>2, <2>3 DEF Quiet
    <2>5. \A j \in Slots(n, k) : j # i
      BY <1>2, <1>5, ValueIs, MapSizes DEF Entries
    <2>6. ReaderOf(l, seen[t])
      BY <1>1, <1>2, <2>3, <2>5 DEF ReaderOf
    <2> QED
      BY <1>1, <1>2, <2>2, <2>3, <2>4, <2>6, ReaderStep
  <1> QED
    BY <1>4, <1>5

LEMMA ReadNextContent ==
  ASSUME ControlLand, Content, ControlLand', NEW t \in Threads, ReadNext(t)
  PROVE  Content'
  <1> DEFINE n == local[t].tab
             k == local[t].key
             p == local[t].pos
             l == [local[t] EXCEPT !.at = "scan", !.pos = @ + 1]
  <1>1. /\ tables' = tables /\ hash' = hash /\ table' = table /\ nextTable' = nextTable
        /\ resizeIdx' = resizeIdx /\ untrue = {} /\ local[t].at = "entries"
        /\ local[t].marks = {} /\ SameChains /\ SameSizes /\ LocksKept(t)
    BY SameTables DEF ReadNext, resizing, At, Content, fixed
  <1>2. /\ local[t].at \in OnKey /\ n \in 1 .. Len(tables) /\ k \in Keys
        /\ ReaderOf(local[t], seen[t]) /\ p \in Nat
        /\ local[t] \in Locals /\ Typed /\ ChainsOK /\ BucketSize \in Nat
    BY <1>1, ReaderNow
  <1>3. Nil \in seen[t] \/ \E i \in Slots(n, k) : i > p * BucketSize
    BY <1>1, <1>2 DEF ReaderOf
  <1>4. PICK j \in Nat : j > 0 /\ Len(Chain(n, k)) = j * BucketSize
    BY <1>2, ChainIs, Zenon DEF Placed
  <1>5. CASE p * BucketSize < Len(Chain(n, k))
    <2>1. local' = [local EXCEPT ![t] = l] /\ seen' = seen /\ untrue' = {}
      BY <1>1, <1>5 DEF ReadNext, Becomes
    <2>2. /\ l.at = "scan" /\ l.pos = p + 1 /\ l.tab = n /\ l.key = k
          /\ l.range = local[t].range /\ l.copied = local[t].copied /\ l.delta = local[t].delta
      BY <1>2 DEF Locals
    <2> HIDE DEF l, p
    <2>3. Quiet(t, l)
      BY <1>1, <2>1, <2>2 DEF Quiet
    <2>4. (p + 1) * BucketSize <= Len(Chain(n, k))
      BY <1>2, <1>4, <1>5, NextBucket
    <2>5. (p + 1) - 1 = p /\ p + 1 > 0
      BY <1>2
    <2>6. ReaderOf(l, seen[t])
      BY <1>3, <2>2, <2>4, <2>5 DEF ReaderOf
    <2> QED
      BY <1>1, <1>2, <2>1, <2>2, <2>3, <2>6, ReaderStep
  <1>6. CASE ~ (p * BucketSize < Len(Chain(n, k)))
    <2>1. Missed(t)
      BY <1>6 DEF ReadNext
    <2>2. Nil \in seen[t]
      <3>1. \A i \in Slots(n, k) : i \in Nat /\ i <= Len(Chain(n, k))
        BY <1>2, ValueIs
      <3>2. p * BucketSize \in Nat /\ Len(Chain(n, k)) \in Nat
        BY <1>2, <1>4
      <3> QED
        BY <1>3, <1>6, <3>1, <3>2
    <2>3. CASE local[t].op = "loadOrStore"
      BY <1>1, <2>1, <2>3, GoContent DEF Missed
    <2>4. CASE local[t].op # "loadOrStore"
      BY <1>1, <2>1, <2>2, <2>4, ReturnContent DEF Missed
    <2> QED
      BY <2>3, <2>4
  <1> QED
    BY <1>5, <1>6

LEMMA ClearContent ==
  ASSUME ControlLand, Content, ControlLand', NEW t \in Threads, Clear(t)
  PROVE  Content'
  <1> DEFINE l == [Idle EXCEPT !.at = "resize", !.op = "clear", !.hint = "clear", !.tab = table]
  <1>1. /\ local' = [local EXCEPT ![t] = l] /\ tables' = tables /\ hash' = hash
        /\ table' = table /\ nextTable' = nextTable /\ resizeIdx' = resizeIdx /\ untrue' = {}
        /\ seen' = seen /\ local[t].at = "idle"
    BY DEF Clear, Becomes, resizing, At, Content
  <1>2. /\ l.at = "resize" /\ l.key = Nil /\ l.range = {} /\ l.copied = 0 /\ l.delta = 0
    BY DEF Idle
  <1>3. local[t].range = {} /\ local[t].copied = 0 /\ local[t].delta = 0
    BY <1>1, PlainLocal
  <1> HIDE DEF l
  <1>4. Quiet(t, l)
    BY <1>1, <1>2, <1>3, SameTables DEF Quiet
  <1> QED
    BY <1>1, <1>2, <1>3, <1>4, QuietCall

-----------------------------------------------------------------------------
(* The content in the steps under a lock that write nothing, and at the gate *)
(* of a resize                                                               *)

(* A call ends whose counting is done. *)
LEMMA EndContent ==
  ASSUME ControlLand, Content, ControlLand', NEW t \in Threads, Ends(t),
         SameChains, SameSizes, LocksKept(t), table' = table, nextTable' = nextTable,
         resizeIdx' = resizeIdx, local[t].at \notin {"tagged", "untagged", "count", "copy"}
  PROVE  Content'
  <1>1. /\ local' = [local EXCEPT ![t] = Idle] /\ seen' = [seen EXCEPT ![t] = {}]
        /\ untrue' = {}
    BY DEF Ends, Content
  <1>2. \A u \in Threads : u # t => seen'[u] = seen[u]
    BY <1>1, Now
  <1>3. Quiet(t, Idle)
    BY <1>1, <1>2, PlainLocal DEF Quiet, Idle
  <1> QED
    BY <1>3, PlainLocal, QuietCall, Zenon DEF Idle

LEMMA AfterContent ==
  ASSUME ControlLand, Content, ControlLand', NEW t \in Threads, AfterResize(t),
         SameChains, SameSizes, LocksKept(t), table' = table, nextTable' = nextTable,
         resizeIdx' = resizeIdx, local[t].at \notin {"tagged", "untagged", "count", "copy"}
  PROVE  Content'
  BY EndContent, GoContent DEF AfterResize

(* The lock of a call's chain, taken or released. *)
LEMMA HeldLock ==
  ASSUME ControlLand, hash' = hash, NEW t \in Threads, local[t].at \in {"locked", "apply"},
         tables' = LockIs(t, Nil)
  PROVE  SameChains /\ SameSizes /\ LocksKept(t)
  BY HolderIs, LockSame DEF Writing

LEMMA LockContent ==
  ASSUME ControlLand, Content, ControlLand', NEW t \in Threads, Lock(t)
  PROVE  Content'
  <1>1. /\ hash' = hash /\ table' = table /\ nextTable' = nextTable /\ resizeIdx' = resizeIdx
        /\ local[t].at = "lock"
    BY DEF Lock, resizing, At, fixed
  <1>2. CASE resizeSeq % 2 = 1
    <2> DEFINE l == [local[t] EXCEPT !.at = "help", !.seq = resizeSeq]
    <2>1. /\ local' = [local EXCEPT ![t] = l] /\ seen' = seen /\ untrue' = {} /\ tables' = tables
      BY <1>2 DEF Lock, Becomes, Content
    <2>2. /\ l.at = "help" /\ l.tab = local[t].tab /\ l.key = local[t].key
          /\ l.range = local[t].range /\ l.copied = local[t].copied /\ l.delta = local[t].delta
      BY Now DEF Locals
    <2> HIDE DEF l
    <2>3. Quiet(t, l)
      BY <1>1, <2>1, <2>2, SameTables DEF Quiet
    <2> QED
      BY <1>1, <2>1, <2>2, <2>3, QuietCall
  <1>3. CASE ~ (resizeSeq % 2 = 1)
    <2>1. tables' = LockIs(t, t) /\ Goes(t, "locked") /\ tables[local[t].tab].lock[Root(t)] = Nil
      BY <1>3 DEF Lock
    <2>2. OnTable(t)
      BY <1>1, Now, OnTableIs DEF OnKey
    <2>3. SameChains /\ SameSizes /\ LocksKept(t)
      BY <1>1, <2>1, <2>2, LockSame
    <2> QED
      BY <1>1, <2>1, <2>3, GoContent
  <1> QED
    BY <1>2, <1>3

LEMMA CheckContent ==
  ASSUME ControlLand, Content, ControlLand', NEW t \in Threads, Check(t)
  PROVE  Content'
  <1>1. /\ hash' = hash /\ table' = table /\ nextTable' = nextTable /\ resizeIdx' = resizeIdx
        /\ local[t].at = "locked"
    BY DEF Check, resizing, At, fixed
  <1>2. CASE local[t].tab # table
    <2>1. tables' = LockIs(t, Nil) /\ Goes(t, "attempt")
      BY <1>2 DEF Check
    <2> QED
      BY <1>1, <2>1, HeldLock, GoContent
  <1>3. CASE local[t].tab = table
    <2>1. tables' = tables /\ Goes(t, "apply")
      BY <1>3 DEF Check
    <2> QED
      BY <1>1, <2>1, SameTables, GoContent
  <1> QED
    BY <1>2, <1>3

(* What a call under its lock finds. *)
LEMMA FoundNow ==
  ASSUME ControlLand, Content, NEW t \in Threads, local[t].at = "apply"
  PROVE  /\ Value(local[t].tab, local[t].key) \in seen[t]
         /\ local[t].tab \in 1 .. Len(tables) /\ local[t].key \in Keys /\ Typed /\ ChainsOK
         /\ Slots(local[t].tab, local[t].key) = {} => Nil \in seen[t]
         /\ \A i \in Slots(local[t].tab, local[t].key) :
               /\ Min(Slots(local[t].tab, local[t].key)) = i
               /\ Chain(local[t].tab, local[t].key)[i].entry.value \in seen[t]
  <1>1. local[t].key # Nil
    BY KeyIs DEF OnKey, Writing
  <1>2. /\ Value(local[t].tab, local[t].key) \in seen[t]
        /\ local[t].tab \in 1 .. Len(tables) /\ local[t].key \in Keys /\ Typed /\ ChainsOK
    BY <1>1, TabIs, Now DEF Content, SeenOK
  <1> QED
    BY <1>2, ValueIs

LEMMA KeepContent ==
  ASSUME ControlLand, Content, ControlLand', NEW t \in Threads, local[t].at = "apply", Still,
         NEW v \in seen[t], Returns(t, v), tables' = LockIs(t, Nil)
  PROVE  Content'
  BY HeldLock, ReturnContent DEF Still

LEMMA GrowContent ==
  ASSUME ControlLand, Content, ControlLand', NEW t \in Threads, local[t].at = "apply", Still, Grow(t)
  PROVE  Content'
  <1> DEFINE l == [local[t] EXCEPT !.at = "resize", !.hint = "grow"]
  <1>1. /\ local' = [local EXCEPT ![t] = l] /\ seen' = seen /\ untrue' = {}
        /\ tables' = LockIs(t, Nil)
    BY DEF Grow, Becomes, Content
  <1>2. /\ l.at = "resize" /\ l.tab = local[t].tab /\ l.key = local[t].key
        /\ l.range = local[t].range /\ l.copied = local[t].copied /\ l.delta = local[t].delta
    BY Now DEF Locals
  <1> HIDE DEF l
  <1>3. SameChains /\ SameSizes /\ LocksKept(t)
    BY <1>1, HeldLock DEF Still
  <1>4. Quiet(t, l)
    BY <1>1, <1>2, <1>3 DEF Quiet, Still
  <1> QED
    BY <1>1, <1>2, <1>4, QuietCall DEF Still

LEMMA ResizeContent ==
  ASSUME ControlLand, Content, ControlLand', NEW t \in Threads, Resize(t)
  PROVE  Content'
  <1> DEFINE at == IF resizeSeq % 2 = 1 THEN "help" ELSE "cas"
             l == [local[t] EXCEPT !.seq = resizeSeq, !.at = at]
  <1>1. /\ tables' = tables /\ hash' = hash /\ table' = table /\ nextTable' = nextTable
        /\ resizeIdx' = resizeIdx /\ local[t].at = "resize"
        /\ SameChains /\ SameSizes /\ LocksKept(t)
    BY SameTables DEF Resize, resizing, At, fixed
  <1>2. CASE Ends(t)
    BY <1>1, <1>2, EndContent
  <1>3. CASE Becomes(t, l)
    <2>1. local' = [local EXCEPT ![t] = l] /\ seen' = seen /\ untrue' = {}
      BY <1>3 DEF Becomes, Content
    <2>2. /\ l.at \in {"help", "cas"} /\ l.tab = local[t].tab /\ l.key = local[t].key
          /\ l.range = local[t].range /\ l.copied = local[t].copied /\ l.delta = local[t].delta
      BY Now DEF Locals
    <2> HIDE DEF l
    <2>3. Quiet(t, l)
      BY <1>1, <2>1, <2>2 DEF Quiet
    <2> QED
      BY <1>1, <2>1, <2>2, <2>3, QuietCall
  <1> QED
    BY <1>2, <1>3 DEF Resize

LEMMA CasContent ==
  ASSUME ControlLand, Content, ControlLand', NEW t \in Threads, Cas(t)
  PROVE  Content'
  <1>1. /\ tables' = tables /\ hash' = hash /\ table' = table /\ nextTable' = nextTable
        /\ resizeIdx' = resizeIdx /\ local[t].at = "cas"
        /\ SameChains /\ SameSizes /\ LocksKept(t)
    BY SameTables DEF Cas, At, fixed
  <1>2. Goes(t, "prepare") \/ Goes(t, "help")
    BY DEF Cas
  <1> QED
    BY <1>1, <1>2, GoContent

LEMMA HelpContent ==
  ASSUME ControlLand, Content, ControlLand', NEW t \in Threads, Help(t)
  PROVE  Content'
  <1> DEFINE l == [local[t] EXCEPT !.at = "register", !.tab = table, !.new = nextTable]
  <1>1. /\ tables' = tables /\ hash' = hash /\ table' = table /\ nextTable' = nextTable
        /\ resizeIdx' = resizeIdx /\ local[t].at = "help"
        /\ SameChains /\ SameSizes /\ LocksKept(t)
    BY SameTables DEF Help, resizing, At, fixed
  <1>2. CASE AfterResize(t)
    BY <1>1, <1>2, AfterContent
  <1>3. CASE Becomes(t, l)
    <2>1. local' = [local EXCEPT ![t] = l] /\ seen' = seen /\ untrue' = {}
      BY <1>3 DEF Becomes, Content
    <2>2. /\ l.at = "register" /\ l.tab = table /\ l.key = local[t].key
          /\ l.range = local[t].range /\ l.copied = local[t].copied /\ l.delta = local[t].delta
      BY Now DEF Locals
    <2>3. l.delta = 0
      BY <1>1, <2>2, PlainLocal
    <2> HIDE DEF l
    <2>4. Quiet(t, l)
      BY <1>1, <2>1, <2>2, <2>3 DEF Quiet
    <2> QED
      BY <1>1, <2>1, <2>2, <2>4, QuietCall
  <1> QED
    BY <1>2, <1>3 DEF Help

LEMMA RegisterContent ==
  ASSUME ControlLand, Content, ControlLand', NEW t \in Threads, Register(t)
  PROVE  Content'
  <1>1. /\ tables' = tables /\ hash' = hash /\ table' = table /\ nextTable' = nextTable
        /\ resizeIdx' = resizeIdx /\ local[t].at = "register"
        /\ SameChains /\ SameSizes /\ LocksKept(t)
    BY SameTables DEF Register, At, fixed
  <1>2. Goes(t, "wait") \/ Goes(t, "claim")
    BY DEF Register
  <1> QED
    BY <1>1, <1>2, GoContent

LEMMA LeaveContent ==
  ASSUME ControlLand, Content, ControlLand', NEW t \in Threads, Leave(t)
  PROVE  Content'
  <1>1. /\ tables' = tables /\ hash' = hash /\ table' = table /\ nextTable' = nextTable
        /\ resizeIdx' = resizeIdx /\ local[t].at = "leave" /\ Goes(t, "wait")
        /\ SameChains /\ SameSizes /\ LocksKept(t)
    BY SameTables DEF Leave, At, fixed
  <1> QED
    BY <1>1, GoContent

LEMMA WaitContent ==
  ASSUME ControlLand, Content, ControlLand', NEW t \in Threads, Wait(t)
  PROVE  Content'
  <1>1. /\ tables' = tables /\ hash' = hash /\ table' = table /\ nextTable' = nextTable
        /\ resizeIdx' = resizeIdx /\ local[t].at = "wait" /\ AfterResize(t)
        /\ SameChains /\ SameSizes /\ LocksKept(t)
    BY SameTables DEF Wait, At, fixed, resizing
  <1> QED
    BY <1>1, AfterContent

LEMMA FinishContent ==
  ASSUME ControlLand, Content, ControlLand', NEW t \in Threads, Finish(t)
  PROVE  Content'
  <1>1. /\ tables' = tables /\ hash' = hash /\ table' = table /\ nextTable' = nextTable
        /\ resizeIdx' = resizeIdx /\ local[t].at = "finish" /\ AfterResize(t)
        /\ SameChains /\ SameSizes /\ LocksKept(t)
    BY SameTables DEF Finish, At, fixed
  <1> QED
    BY <1>1, AfterContent

(* The buckets that a claim makes pending are those it takes. *)
LEMMA ClaimContent ==
  ASSUME ControlLand, Content, ControlLand', NEW t \in Threads, Claim(t)
  PROVE  Content'
  <1>1. /\ tables' = tables /\ hash' = hash /\ table' = table /\ nextTable' = nextTable
        /\ resizeIdx' = resizeIdx + Stride /\ local[t].at = "claim"
        /\ SameChains /\ SameSizes /\ LocksKept(t)
    BY SameTables DEF Claim, At, fixed
  <1>2. /\ Typed /\ Typed' /\ local[t].tab \in Nat /\ local[t].tab > 0
        /\ local[t].new = local[t].tab + 1 /\ Len(tables) = local[t].new
        /\ nextTable # Nil => local[t].tab = table
        /\ Base(local[t].tab) \in Nat /\ Base(local[t].tab) > 0
        /\ local[t].range = {} /\ local[t].copied = 0 /\ local[t].delta = 0
    BY <1>1, WorkerIs, PlainLocal, Now DEF ControlLand, Control
  <1> DEFINE base == Base(local[t].tab)
             range == {b \in DOMAIN tables[local[t].tab].chain :
                          b % base \in resizeIdx .. resizeIdx' - 1}
             place == IF Owner(t) THEN "publish" ELSE "leave"
             l == [local[t] EXCEPT !.at = "copy", !.copied = 0, !.range = range]
             m == [local[t] EXCEPT !.at = place]
  <1>3. /\ base = Min({tables[local[t].tab].len, tables[local[t].new].len})
        /\ resizeIdx \in Nat /\ Stride \in Nat
    BY <1>2, MapSizes DEF Base, Typed
  <1>4. resizeIdx >= base => Becomes(t, m)
    BY <1>3 DEF Claim, Goes
  <1>5. ~ (resizeIdx >= base) => Becomes(t, l)
    BY <1>3 DEF Claim
  <1> HIDE DEF range
  <1>6. /\ m.at \in {"publish", "leave"} /\ m.tab = local[t].tab /\ m.key = local[t].key
        /\ m.range = {} /\ m.copied = 0 /\ m.delta = 0
        /\ l.at = "copy" /\ l.tab = local[t].tab /\ l.key = local[t].key
        /\ l.range = range /\ l.copied = 0 /\ l.delta = 0
    BY <1>2, Now DEF Locals
  <1> HIDE DEF l, m
  <1>7. PICK g : g \in {l, m} /\ Becomes(t, g) /\ IF resizeIdx >= base THEN g = m ELSE g = l
    BY <1>4, <1>5
  <1>8. local' = [local EXCEPT ![t] = g] /\ seen' = seen /\ untrue' = {}
    BY <1>7 DEF Becomes, Content
  <1>9. Quiet(t, g)
    BY <1>1, <1>2, <1>6, <1>7, <1>8 DEF Quiet
  <1>10. local'[t] = g /\ \A u \in Threads : u # t => local'[u] = local[u]
    BY <1>2, <1>8 DEF Typed
  <1>11. ASSUME nextTable # Nil, NEW b \in 0 .. tables[table].len - 1
         PROVE  Done(b)' <=> Done(b)
    <2>1. local[t].tab = table /\ Base(table)' = base /\ Base(table) = base
      BY <1>1, <1>2, <1>11, Zenon DEF Base
    <2>2. tables[table] \in TableSet
      BY <1>2 DEF Typed
    <2>3. b \in Nat /\ b \in DOMAIN tables[table].chain
      BY <2>2, TableIs
    <2> HIDE DEF base
    <2>4. b % base \in Nat /\ b % base < base
      BY <1>2, <2>1, <2>3
    <2>5. \A u \in Threads : u # t => (b \in local'[u].range <=> b \in local[u].range)
      BY <1>10
    <2>6. b \notin local[t].range
      BY <1>2
    <2>7. CASE resizeIdx >= base
      <3>1. local'[t].range = {}
        BY <1>6, <1>7, <1>10, <2>7
      <3>2. b % base < resizeIdx /\ b % base < resizeIdx'
        <4>1. base \in Nat
          BY <1>2 DEF base
        <4>2. resizeIdx' = resizeIdx + Stride
          BY <1>1
        <4> QED
          BY <1>3, <2>4, <2>7, <4>1, <4>2
      <3> QED
        BY <2>1, <2>5, <2>6, <3>1, <3>2 DEF Done
    <2>8. CASE ~ (resizeIdx >= base)
      <3>1. local'[t].range = range
        BY <1>6, <1>7, <1>10, <2>8
      <3>2. b \in range <=> b % base \in resizeIdx .. resizeIdx' - 1
        BY <2>1, <2>3 DEF range
      <3>3. b % base < resizeIdx <=> b % base < resizeIdx' /\ b \notin range
        BY <1>1, <1>3, <2>4, <3>2
      <3> QED
        BY <2>1, <2>5, <2>6, <3>1, <3>3 DEF Done
    <2> QED
      BY <2>7, <2>8
  <1>12. SameDones
    BY <1>11 DEF SameDones
  <1>13. ReaderOK(t)'
    BY <1>6, <1>7, <1>10 DEF ReaderOK, ReaderOf
  <1>14. SeenOK(t)'
    <2>1. CASE local[t].key = Nil
      BY <1>6, <1>7, <1>10, <2>1 DEF SeenOK
    <2>2. CASE local[t].key # Nil
      <3>2. PICK n \in 1 .. Len(tables), k \in Keys : n = local[t].tab /\ k = local[t].key
        BY <2>2, TabIs
      <3>3. table \in 1 .. Len(tables)
        BY <1>2 DEF Typed
      <3>4. Value(n, k)' = Value(n, k) /\ Value(table, k)' = Value(table, k)
        BY <1>1, <1>2, <3>3, SameSlots
      <3>5. Value(n, k) \in seen[t] /\ Value(table, k) \in seen[t]
        BY <2>2, <3>2 DEF Content, SeenOK
      <3>6. local'[t].tab = n /\ local'[t].key = k
        BY <1>6, <1>7, <1>10, <3>2
      <3> QED
        BY <1>1, <1>8, <3>4, <3>5, <3>6 DEF SeenOK
    <2> QED
      BY <2>1, <2>2
  <1> QED
    BY <1>9, <1>12, <1>13, <1>14, QuietStep

-----------------------------------------------------------------------------
(* The writes: one slot of the chain that the writer has locked              *)

Tab(t) == local[t].tab
Key(t) == local[t].key
OldChain(t) == Chain(local[t].tab, local[t].key)

(* d has slot i new: with t's key or without an entry.                       *)
Alters(t, d, i) ==
    LET c == OldChain(t)
        k == Key(t) IN
    /\ d \in Seq(SlotSet) /\ i \in 1 .. Len(d) /\ i \in Nat
    /\ Len(d) = Len(c) \/ Len(d) = Len(c) + BucketSize
    /\ \A j \in 1 .. Len(d) : j # i => d[j] = IF j <= Len(c) THEN c[j] ELSE Empty
    /\ i <= Len(c) => c[i].entry = Nil \/ c[i].tag = 0 \/ c[i].entry.key = k
    /\ d[i].entry # Nil =>
          /\ d[i].entry.key = k /\ d[i].tag \in {0, hash[k].h2}
          /\ \A j \in 1 .. Len(c) : j # i /\ c[j].entry # Nil => c[j].entry.key # k

(* What t is between its two stores. *)
Half(t, i) == local'[t].at \in {"tagged", "untagged"} /\ local'[t].slot = i

Writes(t, l, d, i, owner) ==
    /\ Edited(Tab(t), Root(t), d, owner) /\ Alters(t, d, i) /\ owner \in {Nil, t}
    /\ Still /\ local' = [local EXCEPT ![t] = l] /\ untrue' = {}
    /\ local[t].at \in {"apply", "tagged", "untagged"}
    /\ local[t].at # "apply" => local[t].slot = i
    /\ l = Idle \/ (l.tab = Tab(t) /\ l.key = Key(t))
    /\ l.copied = 0 /\ l.range = {} /\ l.at \notin {"scan", "entries"}
    /\ Whole(d[i]) \/ (owner = t /\ Half(t, i))

(* What a writer has before it. *)
LEMMA WriterNow ==
  ASSUME ControlLand, Content, NEW t \in Threads, local[t].at \in {"apply", "tagged", "untagged"}
  PROVE  /\ Tab(t) \in 1 .. Len(tables) /\ Key(t) \in Keys /\ Typed /\ ChainsOK
         /\ Root(t) = Home(Tab(t), Key(t)) /\ Root(t) \in 0 .. tables[Tab(t)].len - 1
         /\ OldChain(t) \in Seq(SlotSet) /\ Len(OldChain(t)) \in Nat
         /\ OldChain(t) = tables[Tab(t)].chain[Root(t)]
         /\ ChainOK(Tab(t), Root(t)) /\ Placed(OldChain(t), Root(t), tables[Tab(t)].len)
         /\ tables[Tab(t)].lock[Root(t)] = t
         /\ Tab(t) = table \/ Tab(t) \in wiped
         /\ Tab(t) = table /\ nextTable # Nil => ~Done(Root(t))
         /\ local[t].range = {} /\ local[t].copied = 0
         /\ Key(t) # Nil /\ Tab(t) \in 1 .. table
         /\ hash[Key(t)].h2 \in Nat /\ hash[Key(t)].h2 # 0
  <1>1. local[t].at \in Writing
    BY DEF Writing
  <1>2. /\ OnTable(t) /\ Root(t) \in 0 .. tables[local[t].tab].len - 1
        /\ tables[local[t].tab].lock[Root(t)] = t /\ LandOK(t) /\ Typed /\ ChainsOK
    BY <1>1, HolderIs, Now DEF Content
  <1>3. Root(t) = Home(Tab(t), Key(t)) /\ OldChain(t) = tables[Tab(t)].chain[Root(t)]
    BY <1>2, RootIs DEF Root, Tab, Key, OldChain
  <1>4. Tab(t) \in 1 .. Len(tables) /\ Key(t) \in Keys
    BY <1>2 DEF OnTable, Tab, Key
  <1>5. /\ OldChain(t) \in Seq(SlotSet) /\ ChainOK(Tab(t), Root(t))
        /\ Placed(OldChain(t), Root(t), tables[Tab(t)].len)
    BY <1>2, <1>3, <1>4, ChainIs DEF OldChain, Tab, Key
  <1>6. Len(OldChain(t)) \in Nat
    BY <1>5
  <1>7. /\ Tab(t) = table \/ Tab(t) \in wiped
        /\ Tab(t) = table /\ nextTable # Nil => ~Done(Root(t))
    BY <1>1, <1>2 DEF LandOK, Tab
  <1>8. local[t].range = {} /\ local[t].copied = 0
    BY PlainLocal
  <1>9. local[t].at \in OnKey
    BY <1>1 DEF OnKey
  <1>10. Key(t) # Nil /\ Tab(t) \in 1 .. table
    BY <1>9, KeyIs, TabIs DEF Key, Tab
  <1>11. hash[Key(t)].h2 \in Nat /\ hash[Key(t)].h2 # 0
    BY <1>2, <1>4, HomeIs
  <1> QED
    BY <1>2, <1>3, <1>4, <1>5, <1>6, <1>7, <1>8, <1>10, <1>11 DEF Tab

(* Only the writer may have a half slot in its chain. *)
LEMMA OthersWhole ==
  ASSUME ControlLand, Content, NEW t \in Threads, local[t].at \in {"apply", "tagged", "untagged"},
         NEW j \in 1 .. Len(OldChain(t)), local[t].at # "apply" => local[t].slot # j
  PROVE  Whole(OldChain(t)[j])
  <1>1. /\ ChainOK(Tab(t), Root(t)) /\ OldChain(t) = tables[Tab(t)].chain[Root(t)]
        /\ tables[Tab(t)].lock[Root(t)] = t
    BY WriterNow
  <1>2. ~Mid(Tab(t), Root(t), j)
    BY <1>1 DEF Mid
  <1> QED
    BY <1>1, <1>2 DEF ChainOK

LEMMA AltersPlaced ==
  ASSUME ControlLand, Content, NEW t \in Threads, local[t].at \in {"apply", "tagged", "untagged"},
         NEW d, NEW i, Alters(t, d, i)
  PROVE  Placed(d, Root(t), tables[Tab(t)].len)
  <1> DEFINE c == OldChain(t)
             k == Key(t)
             b == Root(t)
             m == tables[Tab(t)].len
  <1>1. /\ Placed(c, b, m) /\ b = Home(Tab(t), k) /\ Len(c) \in Nat /\ k \in Keys
    BY WriterNow
  <1>2. hash[k].h1 % m = b
    BY <1>1 DEF Home
  <1>3. \A j \in 1 .. Len(d) : j # i => d[j] = IF j <= Len(c) THEN c[j] ELSE Empty
    BY DEF Alters
  <1>4. d[i].entry # Nil =>
          /\ d[i].entry.key = k /\ d[i].tag \in {0, hash[k].h2}
          /\ \A j \in 1 .. Len(c) : j # i /\ c[j].entry # Nil => c[j].entry.key # k
    BY DEF Alters
  <1>5. \E j \in Nat : j > 0 /\ Len(d) = j * BucketSize
    <2>1. PICK j \in Nat : j > 0 /\ Len(c) = j * BucketSize
      BY <1>1 DEF Placed
    <2>2. BucketSize \in Nat
      BY MapSizes
    <2>3. (j + 1) * BucketSize = j * BucketSize + BucketSize
      BY <2>2
    <2>4. Len(d) = Len(c) \/ Len(d) = Len(c) + BucketSize
      BY DEF Alters
    <2>5. CASE Len(d) = Len(c)
      BY <2>1, <2>5
    <2>6. CASE Len(d) = Len(c) + BucketSize
      <3>1. j + 1 \in Nat /\ j + 1 > 0 /\ Len(d) = (j + 1) * BucketSize
        BY <2>1, <2>3, <2>6
      <3> QED
        BY <3>1
    <2> QED
      BY <2>4, <2>5, <2>6
  <1>6. d \in Seq(SlotSet) /\ Len(d) \in Nat
    BY DEF Alters
  <1> HIDE DEF c, k, b, m
  <1>7. ASSUME NEW j \in 1 .. Len(d), j # i, d[j].entry # Nil
        PROVE  j \in 1 .. Len(c) /\ d[j] = c[j]
    BY <1>1, <1>3, <1>6, <1>7 DEF Empty
  <1>8. ASSUME NEW j \in 1 .. Len(d), d[j].entry # Nil
        PROVE  /\ hash[d[j].entry.key].h1 % m = b
               /\ d[j].tag # 0 => d[j].tag = hash[d[j].entry.key].h2
    <2>1. CASE j = i
      BY <1>2, <1>4, <1>8, <2>1
    <2>2. CASE j # i
      BY <1>1, <1>7, <1>8, <2>2 DEF Placed
    <2> QED
      BY <2>1, <2>2
  <1>9. ASSUME NEW j \in 1 .. Len(d), NEW g \in 1 .. Len(d), d[j].entry # Nil, d[g].entry # Nil,
               d[j].entry.key = d[g].entry.key
        PROVE  j = g
    <2>1. CASE j = i
      BY <1>4, <1>7, <1>9, <2>1
    <2>2. CASE g = i
      BY <1>4, <1>7, <1>9, <2>2
    <2>3. CASE j # i /\ g # i
      BY <1>1, <1>7, <1>9, <2>3 DEF Placed
    <2> QED
      BY <2>1, <2>2, <2>3
  <1>10. Placed(d, b, m)
    BY <1>5, <1>8, <1>9 DEF Placed
  <1> QED
    BY <1>10 DEF b, m

(* What a write leaves in every chain. *)
LEMMA WriteEdits ==
  ASSUME ControlLand, Content, ControlLand', NEW t \in Threads, NEW l, NEW d, NEW i, NEW owner,
         Writes(t, l, d, i, owner)
  PROVE  /\ Shaped /\ LocksKept(t) /\ hash' = hash /\ table' = table /\ Typed /\ Typed'
         /\ Len(tables') = Len(tables) /\ local'[t] = l /\ Tab(t) \in 1 .. Len(tables)
         /\ \A u \in Threads : u # t => local'[u] = local[u]
         /\ \A n \in 1 .. Len(tables) :
               tables'[n].len = tables[n].len /\ tables'[n].size = tables[n].size
         /\ \A n \in 1 .. Len(tables) : \A a \in 0 .. tables[n].len - 1 :
               /\ tables'[n].chain[a] = IF n = Tab(t) /\ a = Root(t) THEN d
                                        ELSE tables[n].chain[a]
               /\ tables'[n].lock[a] = IF n = Tab(t) /\ a = Root(t) THEN owner
                                       ELSE tables[n].lock[a]
  <1>1. Edited(Tab(t), Root(t), d, owner) /\ Still /\ local' = [local EXCEPT ![t] = l]
        /\ owner \in {Nil, t} /\ local[t].at \in {"apply", "tagged", "untagged"}
    BY DEF Writes
  <1>2. Tab(t) \in 1 .. Len(tables) /\ tables[Tab(t)].lock[Root(t)] \in {Nil, t}
    BY <1>1, WriterNow
  <1>3. Shaped /\ LocksKept(t)
    BY <1>1, <1>2, EditShapes, EditKeepsLocks
  <1>4. Typed /\ Typed'
    BY Now DEF ControlLand, Control
  <1> QED
    BY <1>1, <1>2, <1>3, <1>4, Zenon DEF Edited, Still, Typed

LEMMA WriteChains ==
  ASSUME ControlLand, Content, ControlLand', NEW t \in Threads, NEW l, NEW d, NEW i, NEW owner,
         Writes(t, l, d, i, owner)
  PROVE  ChainsOK'
  <1>1. /\ Shaped /\ LocksKept(t) /\ hash' = hash /\ Len(tables') = Len(tables) /\ local'[t] = l
        /\ \A u \in Threads : u # t => local'[u] = local[u]
        /\ \A n \in 1 .. Len(tables) : tables'[n].len = tables[n].len
        /\ \A n \in 1 .. Len(tables) : \A a \in 0 .. tables[n].len - 1 :
              /\ tables'[n].chain[a] = IF n = Tab(t) /\ a = Root(t) THEN d
                                       ELSE tables[n].chain[a]
              /\ tables'[n].lock[a] = IF n = Tab(t) /\ a = Root(t) THEN owner
                                      ELSE tables[n].lock[a]
    BY WriteEdits
  <1>2. /\ local[t].at \in {"apply", "tagged", "untagged"} /\ Alters(t, d, i)
        /\ local[t].at # "apply" => local[t].slot = i
        /\ l = Idle \/ (l.tab = Tab(t) /\ l.key = Key(t))
        /\ Whole(d[i]) \/ (owner = t /\ Half(t, i))
    BY DEF Writes
  <1>3. Placed(d, Root(t), tables[Tab(t)].len)
    BY <1>2, AltersPlaced
  <1>4. ASSUME NEW n \in 1 .. Len(tables), NEW b \in 0 .. tables[n].len - 1,
               ~ (n = Tab(t) /\ b = Root(t))
        PROVE  ChainOK(n, b)'
    <2>1. /\ tables'[n].chain[b] = tables[n].chain[b] /\ tables'[n].lock[b] = tables[n].lock[b]
          /\ tables'[n].len = tables[n].len
      BY <1>1, <1>4
    <2>2. ChainOK(n, b)
      BY DEF Content, ChainsOK
    <2>4. ASSUME NEW j, Mid(n, b, j) PROVE Mid(n, b, j)'
      <3>1. PICK u \in Threads : u = tables[n].lock[b] /\ local[u].at \in {"tagged", "untagged"}
               /\ local[u].tab = n /\ Root(u) = b /\ local[u].slot = j
        BY <2>4 DEF Mid
      <3>2. u # t
        BY <1>4, <3>1 DEF Tab
      <3>3. local'[u] = local[u] /\ local[u].at \in OnKey
        BY <1>1, <3>1, <3>2 DEF OnKey, Writing
      <3>4. Root(u)' = Root(u)
        BY <1>1, <3>3, Now, RootKept
      <3> QED
        BY <2>1, <3>1, <3>3, <3>4 DEF Mid
    <2>3. \A j : Mid(n, b, j) => Mid(n, b, j)'
      BY <2>4
    <2>5. PICK c, m : c = tables[n].chain[b] /\ m = tables[n].len
      OBVIOUS
    <2>6. tables'[n].chain[b] = c /\ tables'[n].len = m /\ hash' = hash
      BY <1>1, <2>1, <2>5
    <2>7. Placed(c, b, m) /\ \A j \in 1 .. Len(c) : Whole(c[j]) \/ Mid(n, b, j)
      BY <2>2, <2>5 DEF ChainOK
    <2>8. Placed(c, b, m)'
      BY <2>6, <2>7 DEF Placed
    <2>9. \A j \in 1 .. Len(c) : Whole(c[j]) \/ Mid(n, b, j)'
      BY <2>3, <2>7
    <2> QED
      BY <2>6, <2>8, <2>9 DEF ChainOK
  <1>5. ASSUME NEW n \in 1 .. Len(tables), NEW b \in 0 .. tables[n].len - 1,
               n = Tab(t) /\ b = Root(t)
        PROVE  ChainOK(n, b)'
    <2>1. tables'[n].chain[b] = d /\ tables'[n].lock[b] = owner /\ tables'[n].len = tables[n].len
      BY <1>1, <1>5
    <2>2. Placed(d, b, tables[n].len)'
      BY <1>1, <1>3, <1>5, <2>1 DEF Placed
    <2>3. ASSUME NEW j \in 1 .. Len(d) PROVE Whole(d[j]) \/ Mid(n, b, j)'
      <3>1. CASE j = i /\ Whole(d[i])
        BY <3>1
      <3>2. CASE j = i /\ ~Whole(d[i])
        <4>1. owner = t /\ local'[t].at \in {"tagged", "untagged"} /\ local'[t].slot = i
          BY <1>2, <3>2 DEF Half
        <4>2. local'[t].tab = Tab(t) /\ local'[t].key = Key(t)
          BY <1>1, <1>2, <4>1 DEF Idle
        <4>3. Root(t)' = Root(t)
          BY <1>1, <1>5, <4>2 DEF Root, Home, Tab, Key
        <4> QED
          BY <1>5, <2>1, <3>2, <4>1, <4>2, <4>3 DEF Mid
      <3>3. CASE j # i
        <4>1. d[j] = IF j <= Len(OldChain(t)) THEN OldChain(t)[j] ELSE Empty
          BY <1>2, <3>3 DEF Alters
        <4>2. Whole(Empty)
          BY DEF Whole, Empty
        <4>3. Len(OldChain(t)) \in Nat /\ Len(d) \in Nat
          BY <1>2, WriterNow DEF Alters
        <4>4. j <= Len(OldChain(t)) => Whole(OldChain(t)[j])
          BY <1>2, <3>3, <4>3, OthersWhole
        <4> QED
          BY <4>1, <4>2, <4>4
      <3> QED
        BY <3>1, <3>2, <3>3
    <2> QED
      BY <2>1, <2>2, <2>3 DEF ChainOK, Whole
  <1> QED
    BY <1>1, <1>4, <1>5 DEF ChainsOK

(* A write moves no key but its own. *)
LEMMA WriteSlots ==
  ASSUME ControlLand, Content, ControlLand', NEW t \in Threads, NEW l, NEW d, NEW i, NEW owner,
         Writes(t, l, d, i, owner), NEW n \in 1 .. Len(tables), NEW q \in Keys
  PROVE  /\ Home(n, q)' = Home(n, q) /\ Home(n, q) \in 0 .. tables[n].len - 1
         /\ Chain(n, q)' = IF n = Tab(t) /\ Home(n, q) = Root(t) THEN d ELSE Chain(n, q)
         /\ n = Tab(t) /\ Home(n, q) = Root(t) => Chain(n, q) = OldChain(t)
         /\ n # Tab(t) \/ q # Key(t) => Slots(n, q)' = Slots(n, q) /\ Value(n, q)' = Value(n, q)
         /\ n = Tab(t) /\ q = Key(t) => Slots(n, q)' = SlotsOf(d, q)
  <1>1. /\ hash' = hash /\ Len(tables') = Len(tables) /\ Typed /\ Typed'
        /\ Tab(t) \in 1 .. Len(tables)
        /\ \A m \in 1 .. Len(tables) : tables'[m].len = tables[m].len
        /\ \A m \in 1 .. Len(tables) : \A a \in 0 .. tables[m].len - 1 :
              tables'[m].chain[a] = IF m = Tab(t) /\ a = Root(t) THEN d ELSE tables[m].chain[a]
    BY WriteEdits
  <1>2. /\ local[t].at \in {"apply", "tagged", "untagged"} /\ Alters(t, d, i)
    BY DEF Writes
  <1>3. /\ Key(t) \in Keys /\ Root(t) = Home(Tab(t), Key(t)) /\ Len(OldChain(t)) \in Nat
        /\ OldChain(t) = tables[Tab(t)].chain[Root(t)] /\ hash[Key(t)].h2 # 0
    BY <1>2, WriterNow
  <1>4. ASSUME NEW m \in 1 .. Len(tables), NEW k \in Keys
        PROVE  /\ Home(m, k)' = Home(m, k) /\ Home(m, k) \in 0 .. tables[m].len - 1
               /\ Chain(m, k)' = IF m = Tab(t) /\ Home(m, k) = Root(t) THEN d ELSE Chain(m, k)
    <2>1. Home(m, k)' = Home(m, k) /\ Home(m, k) \in 0 .. tables[m].len - 1
      BY <1>1, HomeIs DEF Home
    <2>2. tables'[m].chain[Home(m, k)] = IF m = Tab(t) /\ Home(m, k) = Root(t) THEN d
                                         ELSE tables[m].chain[Home(m, k)]
      BY <1>1, <2>1
    <2> QED
      BY <2>1, <2>2 DEF Chain
  <1>5. n = Tab(t) /\ Home(n, q) = Root(t) => Chain(n, q) = OldChain(t)
    BY <1>3 DEF Chain
  <1>6. d \in Seq(SlotSet) /\ Len(d) \in Nat /\ DOMAIN d = 1 .. Len(d)
    BY <1>2 DEF Alters
  <1>7. Chain(n, q)' = d => Slots(n, q)' = SlotsOf(d, q)
    BY <1>1, <1>6 DEF Slots, SlotsOf, Occupied
  <1>8. n = Tab(t) /\ q = Key(t) => Slots(n, q)' = SlotsOf(d, q)
    BY <1>3, <1>4, <1>7
  <1>9. CASE ~ (n = Tab(t) /\ Home(n, q) = Root(t))
    <2>1. Chain(n, q)' = Chain(n, q)
      BY <1>4, <1>9
    <2>2. Slots(n, q)' = Slots(n, q)
      BY <1>1, <2>1 DEF Slots
    <2>3. Value(n, q)' = Value(n, q)
      BY <2>1, <2>2 DEF Value
    <2> QED
      BY <1>4, <1>5, <1>8, <2>2, <2>3
  <1>10. CASE n = Tab(t) /\ Home(n, q) = Root(t)
    <2> DEFINE c == OldChain(t)
    <2>1. Chain(n, q)' = d /\ Chain(n, q) = c
      BY <1>4, <1>5, <1>10
    <2>2. Slots(n, q)' = SlotsOf(d, q) /\ Slots(n, q) = SlotsOf(c, q)
      BY <1>1, <1>7, <1>10, <2>1, SlotsOfIs
    <2>3. ASSUME q # Key(t) PROVE Slots(n, q)' = Slots(n, q) /\ Value(n, q)' = Value(n, q)
      <3>1. /\ i \in 1 .. Len(d)
            /\ Len(d) = Len(c) \/ Len(d) = Len(c) + BucketSize
            /\ \A j \in 1 .. Len(d) : j # i => d[j] = IF j <= Len(c) THEN c[j] ELSE Empty
            /\ i <= Len(c) => c[i].entry = Nil \/ c[i].tag = 0 \/ c[i].entry.key = Key(t)
            /\ d[i].entry # Nil => d[i].entry.key = Key(t)
        BY <1>2 DEF Alters
      <3>2. hash[q].h2 # 0 /\ BucketSize \in Nat
        BY <1>1, <1>10, HomeIs, MapSizes
      <3> HIDE DEF c
      <3>3. ASSUME NEW j \in SlotsOf(d, q) PROVE j \in SlotsOf(c, q) /\ d[j] = c[j]
        <4>1. j \in 1 .. Len(d) /\ d[j].entry # Nil /\ d[j].tag = hash[q].h2 /\ d[j].entry.key = q
          BY DEF SlotsOf
        <4>2. j # i
          BY <2>3, <3>1, <4>1
        <4>3. j <= Len(c) /\ d[j] = c[j]
          BY <3>1, <4>1, <4>2 DEF Empty
        <4>4. j \in 1 .. Len(c)
          BY <1>3, <4>1, <4>3 DEF c
        <4> QED
          BY <4>1, <4>3, <4>4 DEF SlotsOf
      <3>4. ASSUME NEW j \in SlotsOf(c, q) PROVE j \in SlotsOf(d, q) /\ d[j] = c[j]
        <4>1. j \in 1 .. Len(c) /\ c[j].entry # Nil /\ c[j].tag = hash[q].h2 /\ c[j].entry.key = q
          BY DEF SlotsOf
        <4>2. Len(c) \in Nat
          BY <1>3 DEF c
        <4>3. j \in 1 .. Len(d) /\ j <= Len(c)
          <5>1. Len(d) = Len(c) \/ Len(d) = Len(c) + BucketSize
            BY <3>1
          <5>2. PICK x \in Nat, y \in Nat : x = Len(c) /\ y = Len(d)
            BY <1>6, <4>2
          <5>3. x <= y
            BY <3>2, <5>1, <5>2
          <5> QED
            BY <4>1, <5>2, <5>3
        <4>4. j # i
          BY <2>3, <3>1, <3>2, <4>1, <4>3
        <4>5. d[j] = c[j]
          BY <3>1, <4>3, <4>4
        <4> QED
          BY <4>1, <4>3, <4>5 DEF SlotsOf
      <3>5. Slots(n, q)' = Slots(n, q) /\ \A j \in Slots(n, q) : d[j] = c[j]
        <4>1. SlotsOf(d, q) = SlotsOf(c, q)
          BY <3>3, <3>4, Zenon
        <4> QED
          BY <2>2, <3>4, <4>1
      <3>6. Slots(n, q) # {} => Min(Slots(n, q)) \in Slots(n, q)
        BY <1>1, SlotsAre
      <3>7. Value(n, q) = IF Slots(n, q) = {} THEN Nil ELSE c[Min(Slots(n, q))].entry.value
        BY <2>1 DEF Value
      <3>8. Value(n, q)' = IF Slots(n, q)' = {} THEN Nil ELSE d[Min(Slots(n, q)')].entry.value
        BY <2>1 DEF Value
      <3> QED
        BY <3>5, <3>6, <3>7, <3>8
    <2> QED
      BY <1>4, <1>5, <1>8, <1>10, <2>3
  <1> QED
    BY <1>9, <1>10

(* Those who may meet the write have seen v, the value that it leaves.       *)
Shown(t, v) ==
    \A u \in Threads : local'[u].key # Nil =>
        /\ seen[u] \subseteq seen'[u]
        /\ local[u].key = Key(t) /\ (Tab(t) = table \/ local[u].tab = Tab(t)) => v \in seen'[u]

(* A write of slot i makes v the value of its key. *)
Turns(t, d, i, v) ==
    /\ \A n \in 1 .. Len(tables) : \A q \in Keys : n = Tab(t) /\ q = Key(t) =>
          /\ Value(n, q)' = v
          /\ Slots(n, q)' = Slots(n, q) \/ v = Nil \/ Value(n, q) = Nil
    /\ d[i].entry # Nil => d[i].entry.value \in {v, Value(Tab(t), Key(t))}
    /\ Shown(t, v)

LEMMA WriteSeen ==
  ASSUME ControlLand, Content, ControlLand', NEW t \in Threads, NEW l, NEW d, NEW i, NEW owner,
         Writes(t, l, d, i, owner), NEW v, Turns(t, d, i, v), NEW u \in Threads
  PROVE  SeenOK(u)'
  <1>1. /\ \A w \in Threads : w # t => local'[w] = local[w]
        /\ table' = table /\ local'[t] = l /\ table \in 1 .. Len(tables)
    BY WriteEdits DEF Typed
  <1>2. l = Idle \/ (l.tab = Tab(t) /\ l.key = Key(t))
    BY DEF Writes
  <1>3. CASE local'[u].key = Nil
    BY <1>3 DEF SeenOK
  <1>4. CASE local'[u].key # Nil
    <2>1. local'[u].key = local[u].key /\ local'[u].tab = local[u].tab
      BY <1>1, <1>2, <1>4 DEF Idle, Tab, Key
    <2>2. PICK n \in 1 .. Len(tables), q \in Keys : n = local[u].tab /\ q = local[u].key
      BY <1>4, <2>1, TabIs
    <2>3. Value(n, q) \in seen[u] /\ Value(table, q) \in seen[u]
      BY <1>4, <2>1, <2>2 DEF Content, SeenOK
    <2>4. /\ seen[u] \subseteq seen'[u]
          /\ q = Key(t) /\ (Tab(t) = table \/ n = Tab(t)) => v \in seen'[u]
      BY <1>4, <2>2 DEF Turns, Shown
    <2>5. ASSUME NEW m \in {n, table} PROVE Value(m, q)' \in seen'[u]
      <3>1. m \in 1 .. Len(tables)
        BY <1>1
      <3>2. CASE m = Tab(t) /\ q = Key(t)
        <4>1. Value(m, q)' = v
          BY <3>1, <3>2 DEF Turns
        <4> QED
          BY <2>4, <3>2, <4>1
      <3>3. CASE m # Tab(t) \/ q # Key(t)
        <4>1. Value(m, q)' = Value(m, q)
          BY <3>1, <3>3, WriteSlots
        <4> QED
          BY <2>3, <2>4, <4>1
      <3> QED
        BY <3>2, <3>3
    <2>6. Value(n, q)' \in seen'[u] /\ Value(table, q)' \in seen'[u]
      BY <1>1, <2>5
    <2> QED
      BY <1>1, <2>1, <2>2, <2>6 DEF SeenOK
  <1> QED
    BY <1>3, <1>4

LEMMA WriteReaders ==
  ASSUME ControlLand, Content, ControlLand', NEW t \in Threads, NEW l, NEW d, NEW i, NEW owner,
         Writes(t, l, d, i, owner), NEW v, Turns(t, d, i, v), NEW u \in Threads, u # t
  PROVE  ReaderOK(u)'
  <1>1. local'[u] = local[u] /\ local'[t] = l
    BY WriteEdits
  <1>2. Alters(t, d, i)
    BY DEF Writes
  <1>3. CASE local[u].at \notin {"scan", "entries"}
    BY <1>1, <1>3 DEF ReaderOK, ReaderOf
  <1>4. CASE local[u].at \in {"scan", "entries"}
    <2>1. /\ ReaderOf(local[u], seen[u]) /\ Value(local[u].tab, local[u].key) \in seen[u]
          /\ local[u].pos \in Nat /\ local[u].tab \in 1 .. Len(tables) /\ local[u].key \in Keys
          /\ Typed /\ ChainsOK /\ BucketSize \in Nat /\ BucketSize > 0
      BY <1>4, ReaderNow
    <2>2. PICK n \in 1 .. Len(tables), q \in Keys : n = local[u].tab /\ q = local[u].key
      BY <2>1
    <2>3. /\ seen[u] \subseteq seen'[u]
          /\ n = Tab(t) /\ q = Key(t) => v \in seen'[u]
      <3>1. local'[u].key # Nil
        BY <1>1, <2>1, MapSizes
      <3> QED
        BY <2>2, <3>1 DEF Turns, Shown
    <2> DEFINE p == local[u].pos
               c == Chain(n, q)
    <2>4. p > 0 /\ p * BucketSize <= Len(c)
      BY <1>4, <2>1, <2>2 DEF ReaderOf
    <2>5. /\ Chain(n, q)' = IF n = Tab(t) /\ Home(n, q) = Root(t) THEN d ELSE c
          /\ n = Tab(t) /\ Home(n, q) = Root(t) => c = OldChain(t)
          /\ n # Tab(t) \/ q # Key(t) => Slots(n, q)' = Slots(n, q)
      BY WriteSlots
    <2>6. /\ c \in Seq(SlotSet) /\ Len(c) \in Nat /\ d \in Seq(SlotSet) /\ Len(d) \in Nat
          /\ Len(d) = Len(OldChain(t)) \/ Len(d) = Len(OldChain(t)) + BucketSize
      BY <1>2, <2>1, ChainIs DEF Alters
    <2>7. Len(Chain(n, q)') >= Len(c)
      BY <2>1, <2>5, <2>6
    <2>8. p * BucketSize <= Len(Chain(n, q)')
      <3>1. p * BucketSize \in Nat /\ Len(Chain(n, q)') \in Nat
        BY <2>1, <2>5, <2>6
      <3> QED
        BY <2>4, <2>6, <2>7, <3>1
    <2>9. Slots(n, q)' = Slots(n, q) \/ Nil \in seen'[u]
      <3>1. CASE n = Tab(t) /\ q = Key(t)
        <4>1. Slots(n, q)' = Slots(n, q) \/ v = Nil \/ Value(n, q) = Nil
          BY <3>1 DEF Turns
        <4> QED
          BY <2>1, <2>2, <2>3, <3>1, <4>1
      <3>2. CASE n # Tab(t) \/ q # Key(t)
        BY <2>5, <3>2
      <3> QED
        BY <3>1, <3>2
    <2>10. ASSUME local[u].at = "entries", NEW j \in local[u].marks,
                  Chain(n, q)'[j].entry # Nil, Chain(n, q)'[j].entry.key = q
           PROVE  Chain(n, q)'[j].entry.value \in seen'[u]
      <3>1. j \in Bucket(p) /\ (c[j].entry # Nil /\ c[j].entry.key = q
                                   => c[j].entry.value \in seen[u])
        BY <2>1, <2>2, <2>10 DEF ReaderOf
      <3>2. j \in 1 .. Len(c)
        <4>1. PICK x \in Nat, s \in Nat : x = p /\ s = BucketSize
          BY <2>1
        <4>2. x > 0 /\ x - 1 \in Nat /\ x * s <= Len(c)
          BY <2>4, <4>1
        <4>3. (x - 1) * s \in Nat /\ x * s \in Nat
          BY <4>2
        <4>4. j \in (x - 1) * s + 1 .. x * s
          BY <3>1, <4>1 DEF Bucket
        <4> HIDE DEF c, p
        <4> QED
          BY <2>6, <4>2, <4>3, <4>4
      <3>3. CASE Chain(n, q)'[j] = c[j]
        BY <2>3, <2>10, <3>1, <3>3
      <3>4. CASE Chain(n, q)'[j] # c[j]
        <4>1. n = Tab(t) /\ Chain(n, q)' = d /\ c = OldChain(t)
          BY <2>5, <3>4
        <4>2. j \in 1 .. Len(d)
          BY <2>6, <3>2, <4>1, <2>1
        <4>3. j = i
          BY <1>2, <3>2, <3>4, <4>1, <4>2 DEF Alters
        <4>4. q = Key(t) /\ d[i].entry # Nil
          BY <1>2, <2>10, <4>1, <4>3 DEF Alters
        <4>5. d[i].entry.value \in {v, Value(n, q)}
          BY <4>1, <4>4 DEF Turns
        <4> QED
          BY <2>1, <2>2, <2>3, <4>1, <4>3, <4>4, <4>5
      <3> QED
        BY <3>3, <3>4
    <2>11. local'[u].tab = n /\ local'[u].key = q /\ local'[u].pos = p
           /\ local'[u].marks = local[u].marks /\ local'[u].at = local[u].at
      BY <1>1, <2>2
    <2>12. local[u].at = "scan" =>
              Nil \in seen[u] \/ \E j \in Slots(n, q) : j > (p - 1) * BucketSize
      BY <2>1, <2>2 DEF ReaderOf
    <2>13. local[u].at = "entries" =>
              /\ local[u].marks \subseteq Bucket(p)
              /\ Nil \in seen[u] \/ \E j \in Slots(n, q) :
                                       j \in local[u].marks \/ j > p * BucketSize
      BY <2>1, <2>2 DEF ReaderOf
    <2> HIDE DEF p, c
    <2>14. Bucket(p)' = Bucket(local'[u].pos)
      BY <2>11 DEF Bucket, p
    <2> QED
      BY <2>3, <2>4, <2>8, <2>9, <2>10, <2>11, <2>12, <2>13 DEF ReaderOK, ReaderOf
  <1> QED
    BY <1>3, <1>4

LEMMA WriteOthers ==
  ASSUME ControlLand, Content, ControlLand', NEW t \in Threads, NEW l, NEW d, NEW i, NEW owner,
         Writes(t, l, d, i, owner), NEW u \in Threads, u # t
  PROVE  SlotOK(u)'
  <1>1. local'[u] = local[u] /\ local[t].at \in {"apply", "tagged", "untagged"}
    BY WriteEdits DEF Writes
  <1>2. CASE local[u].at \notin {"tagged", "untagged"}
    BY <1>1, <1>2 DEF SlotOK
  <1>3. CASE local[u].at \in {"tagged", "untagged"}
    <2>1. /\ Tab(u) \in 1 .. Len(tables) /\ Key(u) \in Keys /\ Root(u) = Home(Tab(u), Key(u))
          /\ tables[Tab(u)].lock[Root(u)] = u /\ tables[Tab(t)].lock[Root(t)] = t
      BY <1>1, <1>3, WriterNow
    <2>2. PICK n \in 1 .. Len(tables), q \in Keys : n = local[u].tab /\ q = local[u].key
      BY <2>1 DEF Tab, Key
    <2>3. ~ (n = Tab(t) /\ Home(n, q) = Root(t))
      BY <2>1, <2>2 DEF Tab, Key
    <2>4. Chain(n, q)' = Chain(n, q)
      BY <2>3, WriteSlots
    <2>5. SlotOK(u)
      BY DEF Content
    <2> QED
      BY <1>1, <2>2, <2>4, <2>5 DEF SlotOK
  <1> QED
    BY <1>2, <1>3

LEMMA WriteCopies ==
  ASSUME ControlLand, Content, ControlLand', NEW t \in Threads, NEW l, NEW d, NEW i, NEW owner,
         Writes(t, l, d, i, owner)
  PROVE  CopyOK'
  <1>1. /\ \A u \in Threads : u # t => local'[u] = local[u]
        /\ local'[t] = l /\ table' = table /\ Typed /\ Len(tables') = Len(tables) /\ Shaped
        /\ \A n \in 1 .. Len(tables) : tables'[n].size = tables[n].size
    BY WriteEdits
  <1>2. /\ local[t].at \in {"apply", "tagged", "untagged"} /\ l.copied = 0 /\ l.range = {}
        /\ nextTable' = nextTable /\ resizeIdx' = resizeIdx
    BY DEF Writes, Still
  <1>3. /\ Tab(t) \in 1 .. table /\ local[t].range = {} /\ local[t].copied = 0
        /\ Key(t) \in Keys /\ Root(t) = Home(Tab(t), Key(t))
        /\ Tab(t) = table /\ nextTable # Nil => ~Done(Root(t))
    BY <1>2, WriterNow
  <1>4. \A u \in Threads : local'[u].copied = local[u].copied /\ local'[u].range = local[u].range
    BY <1>1, <1>2, <1>3, Zenon
  <1>5. Tokens' = Tokens
    BY <1>4 DEF Tokens
  <1>6. table \in 1 .. Len(tables) /\ Len(tables) \in Nat /\ ResizeOK /\ CopyOK
    BY <1>1, Now DEF Typed, Content
  <1>7. SameDones
    BY <1>1, <1>2, <1>4, RangesKeepDones
  <1>8. CASE Len(tables) = table
    BY <1>1, <1>5, <1>6, <1>8 DEF CopyOK
  <1>9. CASE Len(tables) # table
    <2>1. table + 1 \in 1 .. Len(tables) /\ Tab(t) # table + 1
      BY <1>3, <1>6, <1>9
    <2>2. PICK g \in 1 .. Len(tables) : g = table
      BY <1>6
    <2>3. PICK h \in 1 .. Len(tables) : h = table + 1
      BY <2>1
    <2>4. \A q \in Keys : /\ Slots(h, q)' = Slots(h, q) /\ Value(h, q)' = Value(h, q)
                          /\ Home(g, q)' = Home(g, q) /\ Home(g, q) \in 0 .. tables[g].len - 1
                          /\ g # Tab(t) \/ q # Key(t) =>
                                Slots(g, q)' = Slots(g, q) /\ Value(g, q)' = Value(g, q)
      BY <2>1, <2>3, WriteSlots
    <2>5. Held(h)' = Held(h) /\ Held(h) \subseteq Keys /\ Held(g) \subseteq Keys
      BY <2>4 DEF Held
    <2>6. ASSUME nextTable # Nil, NEW q \in Keys
          PROVE  Done(Home(g, q))' <=> Done(Home(g, q))
      <3>1. Home(g, q)' = Home(g, q) /\ Home(g, q) \in 0 .. tables[table].len - 1
        BY <2>2, <2>4
      <3>2. PICK b \in 0 .. tables[table].len - 1 : b = Home(g, q)
        BY <3>1
      <3>3. Done(b)' <=> Done(b)
        BY <2>6, <1>7 DEF SameDones
      <3>4. Done(Home(g, q))' <=> Done(b)'
        BY <3>1, <3>2 DEF Done
      <3> QED
        BY <3>2, <3>3, <3>4
    <2>7. ASSUME nextTable # Nil, g = Tab(t), NEW q \in Keys, q = Key(t)
          PROVE  ~Done(Home(g, q))
      BY <1>3, <2>2, <2>7
    <2>8. ASSUME nextTable # Nil
          PROVE  {q \in Held(g) : Done(Home(g, q))}' = {q \in Held(g) : Done(Home(g, q))}
      <3>1. ASSUME NEW q \in Keys
            PROVE  (q \in Held(g) /\ Done(Home(g, q)))' <=> (q \in Held(g) /\ Done(Home(g, q)))
        <4>1. CASE g = Tab(t) /\ q = Key(t)
          BY <2>6, <2>7, <2>8, <4>1
        <4>2. CASE g # Tab(t) \/ q # Key(t)
          <5>1. (q \in Held(g))' <=> q \in Held(g)
            BY <2>4, <4>2 DEF Held
          <5> QED
            BY <2>6, <2>8, <5>1
        <4> QED
          BY <4>1, <4>2
      <3>2. Held(g)' \subseteq Keys
        BY DEF Held
      <3> QED
        BY <2>5, <3>1, <3>2
    <2>9. ASSUME NEW q \in Held(h) PROVE Value(h, q)' = Value(g, q)'
      <3>1. q \in Keys /\ Value(h, q) = Value(g, q) /\ Value(h, q)' = Value(h, q)
        BY <1>6, <1>9, <2>2, <2>3, <2>4, <2>5 DEF CopyOK
      <3>2. ~ (g = Tab(t) /\ q = Key(t))
        <4>1. ASSUME g = Tab(t), q = Key(t) PROVE FALSE
          <5>1. nextTable # Nil /\ Done(Home(g, q))
            BY <1>6, <1>9, <2>2, <2>3, <2>9 DEF CopyOK
          <5> QED
            BY <2>7, <3>1, <4>1, <5>1
        <4> QED
          BY <4>1
      <3> QED
        BY <2>4, <3>1, <3>2
    <2>10. tables'[h].size = tables[h].size
      BY <1>1
    <2>11. /\ IF nextTable = Nil THEN Held(h) = {}
              ELSE Held(h) = {q \in Held(g) : Done(Home(g, q))}
           /\ IsFiniteSet(Held(h)) /\ IsFiniteSet(Tokens)
           /\ Cardinality(Held(h)) = tables[h].size + Cardinality(Tokens)
      BY <1>6, <1>9, <2>2, <2>3 DEF CopyOK
    <2>12. table' = g /\ table' + 1 = h
      BY <1>1, <2>2, <2>3
    <2> QED
      BY <1>2, <1>5, <2>5, <2>8, <2>9, <2>10, <2>11, <2>12 DEF CopyOK
  <1> QED
    BY <1>8, <1>9

(* How a write changes the number of keys, and what its writer will count.   *)
Counts(t, l) ==
    \A n \in 1 .. Len(tables) : \A q \in Keys : n = Tab(t) /\ q = Key(t) =>
        \/ (Slots(n, q)' = {} <=> Slots(n, q) = {}) /\ l.delta = local[t].delta
        \/ /\ Slots(n, q) = {} /\ Slots(n, q)' # {}
           /\ local[t].delta = 0 /\ l.delta = 1 /\ l.tab = Tab(t)
        \/ /\ Slots(n, q) # {} /\ Slots(n, q)' = {}
           /\ local[t].delta = 0 /\ l.delta = -1 /\ l.tab = Tab(t)

LEMMA AddingFinite ==
  ASSUME NEW d
  PROVE  /\ IsFiniteSet(Adding(d)) /\ IsFiniteSet(Adding(d)')
         /\ Cardinality(Adding(d)) \in Nat /\ Cardinality(Adding(d)') \in Nat
  <1>1. Adding(d) \subseteq Threads /\ Adding(d)' \subseteq Threads
    BY DEF Adding
  <1>2. IsFiniteSet(Adding(d)) /\ IsFiniteSet(Adding(d)')
    BY <1>1, FS_Subset, MapSizes
  <1> QED
    BY <1>2, FS_CardinalityType

LEMMA WriteCount ==
  ASSUME ControlLand, Content, ControlLand', NEW t \in Threads, NEW l, NEW d, NEW i, NEW owner,
         Writes(t, l, d, i, owner), Counts(t, l)
  PROVE  CountOK'
  <1>1. /\ \A u \in Threads : u # t => local'[u] = local[u]
        /\ local'[t] = l /\ table' = table /\ Typed /\ Typed'
        /\ \A n \in 1 .. Len(tables) : tables'[n].size = tables[n].size
    BY WriteEdits
  <1>2. /\ local[t].at \in {"apply", "tagged", "untagged"}
        /\ l = Idle \/ (l.tab = Tab(t) /\ l.key = Key(t))
    BY DEF Writes
  <1>3. Key(t) \in Keys /\ Tab(t) \in 1 .. Len(tables)
    BY <1>2, WriterNow
  <1>4. PICK g \in 1 .. Len(tables) : g = table
    BY <1>1 DEF Typed
  <1>5. \A q \in Keys : g # Tab(t) \/ q # Key(t) => Slots(g, q)' = Slots(g, q)
    BY <1>4, WriteSlots
  <1>6. /\ IsFiniteSet(Held(g)) /\ tables[g].size \in Int /\ tables'[g].size = tables[g].size
        /\ Cardinality(Held(g)) + Cardinality(Adding(-1))
               = tables[g].size + Cardinality(Adding(1))
        /\ Cardinality(Held(g)) \in Nat
    <2>1. tables[g] \in TableSet
      BY <1>1, <1>4 DEF Typed
    <2> QED
      BY <1>1, <1>4, <2>1, TableIs, FS_CardinalityType DEF Content, CountOK
  <1>7. local'[t].delta # 0 => local'[t].tab = Tab(t)
    BY <1>1, <1>2 DEF Idle
  <1>8. PICK k \in Keys : k = Key(t)
    BY <1>3
  <1>9. table' = g /\ Tab(t) = local[t].tab
    BY <1>1, <1>4 DEF Tab
  <1>10. CASE \/ g # Tab(t)
              \/ (Slots(g, k)' = {} <=> Slots(g, k) = {}) /\ l.delta = local[t].delta
    <2>1. Held(g)' = Held(g)
      BY <1>5, <1>8, <1>10 DEF Held
    <2>2. ASSUME NEW e \in {-1, 1} PROVE Adding(e)' = Adding(e)
      <3>1. \A u \in Threads : (local'[u].tab = g /\ local'[u].delta = e)
                               <=> (local[u].tab = g /\ local[u].delta = e)
        BY <1>1, <1>2, <1>7, <1>9, <1>10
      <3> QED
        BY <1>4, <1>9, <3>1 DEF Adding
    <2>3. Adding(1)' = Adding(1) /\ Adding(-1)' = Adding(-1)
      BY <2>2
    <2>4. PICK x, y, z : x = Held(g) /\ y = Adding(1) /\ z = Adding(-1)
      OBVIOUS
    <2>5. Held(g)' = x /\ Adding(1)' = y /\ Adding(-1)' = z
      BY <2>1, <2>3, <2>4
    <2>6. /\ IsFiniteSet(x)
          /\ Cardinality(x) + Cardinality(z) = tables'[g].size + Cardinality(y)
      BY <1>6, <2>4
    <2> QED
      BY <1>9, <2>5, <2>6 DEF CountOK
  <1>11. CASE /\ g = Tab(t) /\ Slots(g, k) = {} /\ Slots(g, k)' # {}
              /\ local[t].delta = 0 /\ l.delta = 1 /\ l.tab = Tab(t)
    <2>1. Held(g)' = Held(g) \cup {k} /\ k \notin Held(g)
      BY <1>5, <1>8, <1>11 DEF Held
    <2>2. Adding(1)' = Adding(1) \cup {t} /\ t \notin Adding(1)
      BY <1>1, <1>4, <1>9, <1>11 DEF Adding
    <2>3. Adding(-1)' = Adding(-1)
      BY <1>1, <1>4, <1>9, <1>11 DEF Adding
    <2>4. IsFiniteSet(Held(g)') /\ Cardinality(Held(g)') = Cardinality(Held(g)) + 1
      BY <1>6, <2>1, FS_AddElement
    <2>5. Cardinality(Adding(1)') = Cardinality(Adding(1)) + 1
      BY <2>2, AddingFinite, FS_AddElement
    <2>6. Cardinality(Held(g)') + Cardinality(Adding(-1)')
               = tables'[g].size + Cardinality(Adding(1)')
      <3>1. PICK h \in Nat, a \in Nat, r \in Nat, s \in Int :
                 /\ h = Cardinality(Held(g)) /\ s = tables[g].size
                 /\ a = Cardinality(Adding(1)) /\ r = Cardinality(Adding(-1))
        BY <1>6, AddingFinite
      <3>2. h + r = s + a
        BY <1>6, <3>1
      <3>3. /\ Cardinality(Held(g)') = h + 1 /\ tables'[g].size = s
            /\ Cardinality(Adding(1)') = a + 1 /\ Cardinality(Adding(-1)') = r
        BY <1>6, <2>3, <2>4, <2>5, <3>1
      <3> QED
        BY <3>2, <3>3
    <2> QED
      BY <1>9, <2>4, <2>6 DEF CountOK
  <1>12. CASE /\ g = Tab(t) /\ Slots(g, k) # {} /\ Slots(g, k)' = {}
              /\ local[t].delta = 0 /\ l.delta = -1 /\ l.tab = Tab(t)
    <2>1. Held(g)' = Held(g) \ {k} /\ k \in Held(g)
      BY <1>5, <1>8, <1>12 DEF Held
    <2>2. Adding(-1)' = Adding(-1) \cup {t} /\ t \notin Adding(-1)
      BY <1>1, <1>4, <1>9, <1>12 DEF Adding
    <2>3. Adding(1)' = Adding(1)
      BY <1>1, <1>4, <1>9, <1>12 DEF Adding
    <2>4. IsFiniteSet(Held(g)') /\ Cardinality(Held(g)') = Cardinality(Held(g)) - 1
      BY <1>6, <2>1, FS_RemoveElement
    <2>5. Cardinality(Adding(-1)') = Cardinality(Adding(-1)) + 1
      BY <2>2, AddingFinite, FS_AddElement
    <2>6. Cardinality(Held(g)') + Cardinality(Adding(-1)')
               = tables'[g].size + Cardinality(Adding(1)')
      <3>1. PICK h \in Nat, a \in Nat, r \in Nat, s \in Int :
                 /\ h = Cardinality(Held(g)) /\ s = tables[g].size
                 /\ a = Cardinality(Adding(1)) /\ r = Cardinality(Adding(-1))
        BY <1>6, AddingFinite
      <3>2. h + r = s + a
        BY <1>6, <3>1
      <3>3. /\ Cardinality(Held(g)') = h - 1 /\ tables'[g].size = s
            /\ Cardinality(Adding(1)') = a /\ Cardinality(Adding(-1)') = r + 1
        BY <1>6, <2>3, <2>4, <2>5, <3>1
      <3> QED
        BY <3>2, <3>3
    <2> QED
      BY <1>9, <2>4, <2>6 DEF CountOK
  <1>13. g = Tab(t) =>
            \/ (Slots(g, k)' = {} <=> Slots(g, k) = {}) /\ l.delta = local[t].delta
            \/ /\ Slots(g, k) = {} /\ Slots(g, k)' # {}
               /\ local[t].delta = 0 /\ l.delta = 1 /\ l.tab = Tab(t)
            \/ /\ Slots(g, k) # {} /\ Slots(g, k)' = {}
               /\ local[t].delta = 0 /\ l.delta = -1 /\ l.tab = Tab(t)
    BY <1>8 DEF Counts
  <1> QED
    BY <1>10, <1>11, <1>12, <1>13

LEMMA WriteStep ==
  ASSUME ControlLand, Content, ControlLand', NEW t \in Threads, NEW l, NEW d, NEW i, NEW owner,
         Writes(t, l, d, i, owner), NEW v, Turns(t, d, i, v), Counts(t, l), SlotOK(t)'
  PROVE  Content'
  <1>1. \A u \in Threads : SlotOK(u)'
    BY WriteOthers
  <1>2. \A u \in Threads : SeenOK(u)'
    BY WriteSeen
  <1>3. ReaderOK(t)'
    <2>1. local'[t] = l /\ l.at \notin {"scan", "entries"}
      BY WriteEdits, Zenon DEF Writes
    <2> QED
      BY <2>1 DEF ReaderOK, ReaderOf
  <1>4. \A u \in Threads : ReaderOK(u)'
    BY <1>3, WriteReaders
  <1>5. ChainsOK' /\ CopyOK' /\ CountOK'
    BY WriteChains, WriteCopies, WriteCount
  <1>6. untrue' = {}
    BY DEF Writes
  <1> QED
    BY <1>1, <1>2, <1>4, <1>5, <1>6 DEF Content

LEMMA ShownIs ==
  ASSUME ControlLand, NEW t \in Threads, local[t].at \in {"apply", "tagged", "untagged"}, Content,
         NEW v, NEW l, local' = [local EXCEPT ![t] = l], Shows(t, v)
  PROVE  Shown(t, v)
  <1>1. Tab(t) = table \/ Tab(t) \in wiped
    BY WriterNow
  <1>2. local'[t] = l /\ \A u \in Threads : u # t => local'[u] = local[u]
    BY Now DEF Typed
  <1>3. \A u \in Threads : local'[u].key # Nil => ~ (u = t /\ local'[t] = Idle)
    BY DEF Idle
  <1>4. ASSUME NEW u \in Threads, ~ (u = t /\ local'[t] = Idle)
        PROVE  seen'[u] = IF local[u].key = Key(t)
                             /\ (Tab(t) = table \/ (Tab(t) \in wiped /\ local[u].tab = Tab(t)))
                          THEN seen[u] \cup {v} ELSE seen[u]
    BY <1>4 DEF Shows, Tab, Key
  <1> QED
    BY <1>1, <1>3, <1>4, Zenon DEF Shown

LEMMA SameShown ==
  ASSUME ControlLand, NEW t \in Threads, local[t].at \in {"apply", "tagged", "untagged"}, Content,
         NEW l, local' = [local EXCEPT ![t] = l], l.key = Key(t), seen' = seen
  PROVE  Shown(t, Value(Tab(t), Key(t)))
  <1>1. \A u \in Threads : local'[u].key = local[u].key
    BY Now DEF Typed, Key
  <1>2. Key(t) # Nil
    BY WriterNow
  <1>3. ASSUME NEW u \in Threads, local[u].key = Key(t), Tab(t) = table \/ local[u].tab = Tab(t)
        PROVE  Value(Tab(t), Key(t)) \in seen[u]
    BY <1>2, <1>3 DEF Content, SeenOK
  <1> QED
    BY <1>1, <1>3 DEF Shown

LEMMA LoudSlots ==
  ASSUME NEW t \in Threads, NEW d, NEW i, Alters(t, d, i), d[i].entry # Nil,
         hash[Key(t)].h2 # 0, Len(OldChain(t)) \in Nat
  PROVE  SlotsOf(d, Key(t)) = IF d[i].tag = 0 THEN {} ELSE {i}
  <1> DEFINE c == OldChain(t)
             k == Key(t)
  <1>1. /\ d \in Seq(SlotSet) /\ i \in 1 .. Len(d) /\ Len(d) \in Nat
        /\ \A j \in 1 .. Len(d) : j # i => d[j] = IF j <= Len(c) THEN c[j] ELSE Empty
        /\ d[i].entry.key = k /\ d[i].tag \in {0, hash[k].h2}
        /\ \A j \in 1 .. Len(c) : j # i /\ c[j].entry # Nil => c[j].entry.key # k
    BY DEF Alters
  <1>2. ASSUME NEW j \in 1 .. Len(d), j # i, d[j].entry # Nil PROVE d[j].entry.key # k
    <2>1. d[j] = IF j <= Len(c) THEN c[j] ELSE Empty
      BY <1>1, <1>2
    <2> HIDE DEF c, k
    <2>2. j <= Len(c) /\ d[j] = c[j]
      BY <1>2, <2>1 DEF Empty
    <2>3. j \in 1 .. Len(c)
      BY <2>2 DEF c
    <2> QED
      BY <1>1, <1>2, <2>2, <2>3
  <1> HIDE DEF c, k
  <1>3. hash[k].h2 # 0
    BY DEF k
  <1>4. SlotsOf(d, k) = IF d[i].tag = 0 THEN {} ELSE {i}
    <2>1. \A j \in SlotsOf(d, k) : j = i /\ d[i].tag = hash[k].h2
      BY <1>2 DEF SlotsOf
    <2>2. d[i].tag = hash[k].h2 => i \in SlotsOf(d, k)
      BY <1>1 DEF SlotsOf
    <2> QED
      BY <1>1, <1>3, <2>1, <2>2
  <1> QED
    BY <1>4 DEF k

(* A write of an entry with the key, visible or with its tag removed.        *)
LEMMA LoudTurns ==
  ASSUME ControlLand, Content, ControlLand', NEW t \in Threads, NEW l, NEW d, NEW i, NEW owner,
         Writes(t, l, d, i, owner), NEW v, Shown(t, v), d[i].entry # Nil,
         v = IF d[i].tag = 0 THEN Nil ELSE d[i].entry.value,
         \/ v = Nil \/ Value(Tab(t), Key(t)) = Nil \/ Slots(Tab(t), Key(t)) = {i},
         d[i].entry.value \in {v, Value(Tab(t), Key(t))}
  PROVE  /\ Turns(t, d, i, v)
         /\ \A n \in 1 .. Len(tables) : \A q \in Keys : n = Tab(t) /\ q = Key(t) =>
               Slots(n, q)' = IF d[i].tag = 0 THEN {} ELSE {i}
  <1>1. local[t].at \in {"apply", "tagged", "untagged"} /\ Alters(t, d, i)
    BY DEF Writes
  <1>2. hash[Key(t)].h2 # 0 /\ Len(OldChain(t)) \in Nat /\ Root(t) = Home(Tab(t), Key(t))
    BY <1>1, WriterNow
  <1>3. SlotsOf(d, Key(t)) = IF d[i].tag = 0 THEN {} ELSE {i}
    BY <1>1, <1>2, LoudSlots
  <1>4. ASSUME NEW n \in 1 .. Len(tables), NEW q \in Keys, n = Tab(t), q = Key(t)
        PROVE  /\ Slots(n, q)' = IF d[i].tag = 0 THEN {} ELSE {i}
               /\ Value(n, q)' = v
               /\ Slots(n, q)' = Slots(n, q) \/ v = Nil \/ Value(n, q) = Nil
    <2>1. Slots(n, q)' = IF d[i].tag = 0 THEN {} ELSE {i}
      BY <1>3, <1>4, WriteSlots
    <2>2. Chain(n, q)' = d
      BY <1>2, <1>4, WriteSlots
    <2>3. Min({i}) = i
      <3>1. i \in Nat
        BY <1>1 DEF Alters
      <3>2. {i} \subseteq Nat /\ {i} # {}
        BY <3>1
      <3> QED
        BY <3>2, MinIs, Zenon
    <2>4. Value(n, q)' = v
      BY <2>1, <2>2, <2>3 DEF Value
    <2>5. v # Nil => d[i].tag # 0
      OBVIOUS
    <2>6. Value(n, q) = Value(Tab(t), Key(t)) /\ Slots(n, q) = Slots(Tab(t), Key(t))
      BY <1>4
    <2> QED
      BY <2>1, <2>4, <2>5, <2>6
  <1> QED
    BY <1>4 DEF Turns

(* A write of a slot that holds no entry a reader can see. *)
LEMMA SilentTurns ==
  ASSUME ControlLand, Content, ControlLand', NEW t \in Threads, NEW l, NEW d, NEW i, NEW owner,
         Writes(t, l, d, i, owner), Shown(t, Value(Tab(t), Key(t))), d[i].entry = Nil,
         i <= Len(OldChain(t)), Len(d) = Len(OldChain(t)),
         OldChain(t)[i].entry = Nil \/ OldChain(t)[i].tag = 0
  PROVE  /\ Turns(t, d, i, Value(Tab(t), Key(t)))
         /\ \A n \in 1 .. Len(tables) : \A q \in Keys : n = Tab(t) /\ q = Key(t) =>
               Slots(n, q)' = Slots(n, q)
  <1> DEFINE c == OldChain(t)
             k == Key(t)
  <1>1. local[t].at \in {"apply", "tagged", "untagged"} /\ Alters(t, d, i)
    BY DEF Writes
  <1>2. /\ hash[k].h2 # 0 /\ Len(c) \in Nat /\ Root(t) = Home(Tab(t), k)
        /\ Typed /\ k \in Keys /\ Tab(t) \in 1 .. Len(tables)
    BY <1>1, WriterNow
  <1>3. \A j \in 1 .. Len(d) : j # i => d[j] = c[j]
    BY <1>1 DEF Alters
  <1>4. SlotsOf(d, k) = SlotsOf(c, k) /\ i \notin SlotsOf(c, k)
    BY <1>2, <1>3 DEF SlotsOf
  <1>5. ASSUME NEW n \in 1 .. Len(tables), NEW q \in Keys, n = Tab(t), q = k
        PROVE  Slots(n, q)' = Slots(n, q) /\ Value(n, q)' = Value(n, q)
    <2>1. Slots(n, q)' = SlotsOf(d, k)
      BY <1>5, WriteSlots
    <2>2. Chain(n, q)' = d /\ Chain(n, q) = c
      BY <1>2, <1>5, WriteSlots
    <2>3. Slots(n, q) = SlotsOf(c, k)
      BY <1>2, <1>5, <2>2, SlotsOfIs
    <2>4. Slots(n, q) # {} => Min(Slots(n, q)) \in Slots(n, q)
      BY <1>2, SlotsAre
    <2>5. \A j \in Slots(n, q) : d[j] = c[j]
      <3>1. \A j \in SlotsOf(d, k) : j \in 1 .. Len(d)
        BY DEF SlotsOf
      <3> HIDE DEF c, k
      <3> QED
        BY <1>3, <1>4, <2>3, <3>1
    <2> HIDE DEF c, k
    <2>6. Slots(n, q)' = Slots(n, q)
      BY <1>4, <2>1, <2>3
    <2>7. Value(n, q) = IF Slots(n, q) = {} THEN Nil ELSE c[Min(Slots(n, q))].entry.value
      BY <2>2 DEF Value
    <2>8. Value(n, q)' = IF Slots(n, q)' = {} THEN Nil ELSE d[Min(Slots(n, q)')].entry.value
      BY <2>2 DEF Value
    <2> QED
      BY <2>4, <2>5, <2>6, <2>7, <2>8
  <1> QED
    BY <1>5 DEF Turns

-----------------------------------------------------------------------------
(* The content in the writes under a lock *)

(* A slot of the chain is put. *)
LEMMA PutAlters ==
  ASSUME ControlLand, Content, NEW t \in Threads, local[t].at \in {"apply", "tagged", "untagged"},
         NEW i \in 1 .. Len(OldChain(t)), NEW s \in SlotSet,
         OldChain(t)[i].entry = Nil \/ OldChain(t)[i].tag = 0 \/ OldChain(t)[i].entry.key = Key(t),
         s.entry # Nil => /\ s.entry.key = Key(t) /\ s.tag \in {0, hash[Key(t)].h2}
                          /\ \A j \in 1 .. Len(OldChain(t)) :
                                j # i /\ OldChain(t)[j].entry # Nil
                                    => OldChain(t)[j].entry.key # Key(t)
  PROVE  /\ Alters(t, [OldChain(t) EXCEPT ![i] = s], i)
         /\ [OldChain(t) EXCEPT ![i] = s][i] = s
         /\ Len([OldChain(t) EXCEPT ![i] = s]) = Len(OldChain(t))
  <1> DEFINE c == OldChain(t)
             d == [c EXCEPT ![i] = s]
  <1>1. c \in Seq(SlotSet) /\ Len(c) \in Nat /\ i \in Nat
    BY WriterNow
  <1> HIDE DEF c
  <1>2. d \in Seq(SlotSet) /\ d[i] = s /\ Len(d) = Len(c) /\ \A j \in 1 .. Len(d) : j # i => d[j] = c[j]
    BY <1>1 DEF c
  <1> HIDE DEF d
  <1>3. Alters(t, d, i)
    BY <1>1, <1>2 DEF Alters, c
  <1> QED
    BY <1>2, <1>3 DEF c, d

LEMMA PutIs ==
  ASSUME ControlLand, Content, NEW t \in Threads, local[t].at \in {"apply", "tagged", "untagged"},
         NEW i \in 1 .. Len(OldChain(t)), NEW s \in SlotSet, NEW owner \in {Nil, t},
         tables' = Put(t, i, s, owner)
  PROVE  Edited(Tab(t), Root(t), [OldChain(t) EXCEPT ![i] = s], owner)
  <1>1. Typed /\ OnTable(t) /\ owner \in Owners /\ i \in Nat
    <2>1. local[t].at \in OnKey
      BY DEF OnKey, Writing
    <2>2. OnTable(t)
      BY <2>1, OnTableIs DEF ControlLand
    <2> QED
      BY <2>2, WriterNow DEF Owners
  <1> QED
    BY <1>1, PutEdits DEF OldChain, Tab

(* The slot that a call under its lock finds. *)
LEMMA SlotFound ==
  ASSUME ControlLand, Content, NEW t \in Threads, local[t].at = "apply",
         NEW i \in Slots(Tab(t), Key(t))
  PROVE  /\ i \in 1 .. Len(OldChain(t)) /\ OldChain(t)[i] \in SlotSet
         /\ OldChain(t)[i].entry \in Entries /\ OldChain(t)[i].entry # Nil
         /\ OldChain(t)[i].entry.key = Key(t) /\ OldChain(t)[i].tag = hash[Key(t)].h2
         /\ OldChain(t)[i].entry.value \in Nat
         /\ OldChain(t)[i].entry.value = Value(Tab(t), Key(t))
         /\ Slots(Tab(t), Key(t)) = {i}
         /\ \A j \in 1 .. Len(OldChain(t)) :
               j # i /\ OldChain(t)[j].entry # Nil => OldChain(t)[j].entry.key # Key(t)
  <1>1. /\ Typed /\ ChainsOK /\ Tab(t) \in 1 .. Len(tables) /\ Key(t) \in Keys
        /\ Placed(OldChain(t), Root(t), tables[Tab(t)].len)
    BY WriterNow
  <1>2. OldChain(t) = Chain(Tab(t), Key(t))
    BY DEF OldChain, Tab, Key
  <1>3. /\ i \in 1 .. Len(OldChain(t)) /\ OldChain(t)[i] \in SlotSet
        /\ OldChain(t)[i].entry \in Entries /\ OldChain(t)[i].entry.value = Value(Tab(t), Key(t))
        /\ OldChain(t)[i].entry.key = Key(t) /\ OldChain(t)[i].tag = hash[Key(t)].h2
        /\ Slots(Tab(t), Key(t)) = {i} /\ Value(Tab(t), Key(t)) \in Nat
    BY <1>1, <1>2, ValueIs
  <1>4. OldChain(t)[i].entry # Nil
    BY <1>3, MapSizes DEF Entries
  <1> QED
    BY <1>1, <1>3, <1>4 DEF Placed

LEMMA ReplaceContent ==
  ASSUME ControlLand, Content, ControlLand', NEW t \in Threads, local[t].at = "apply", Still,
         NEW i \in Slots(Tab(t), Key(t)), Replace(t, i, OldChain(t)[i])
  PROVE  Content'
  <1> DEFINE v == local[t].value
             c == OldChain(t)
             s == [c[i] EXCEPT !.entry.value = v]
             d == [c EXCEPT ![i] = s]
  <1>1. v \in Nat
    BY HolderIs DEF Writing
  <1>2. /\ tables' = Put(t, i, s, Nil) /\ local' = [local EXCEPT ![t] = Idle] /\ Shows(t, v)
        /\ untrue' = {}
    BY DEF Replace, Content
  <1>3. /\ i \in 1 .. Len(c) /\ c[i] \in SlotSet /\ c[i].entry \in Entries /\ c[i].entry.key = Key(t)
        /\ c[i].tag = hash[Key(t)].h2 /\ Slots(Tab(t), Key(t)) = {i}
        /\ \A j \in 1 .. Len(c) : j # i /\ c[j].entry # Nil => c[j].entry.key # Key(t)
    BY SlotFound
  <1>4. hash[Key(t)].h2 # 0
    BY WriterNow
  <1> HIDE DEF c
  <1>5. /\ s \in SlotSet /\ s.entry \in Entries /\ s.entry.key = Key(t) /\ s.entry.value = v
        /\ s.tag = hash[Key(t)].h2
    BY <1>1, <1>3 DEF SlotSet, Entries
  <1>6. s.entry # Nil
    BY <1>5, MapSizes, Zenon DEF Entries
  <1> HIDE DEF s, v
  <1>7. Alters(t, d, i) /\ d[i] = s /\ Len(d) = Len(c)
    BY <1>3, <1>5, PutAlters DEF c
  <1>8. Edited(Tab(t), Root(t), d, Nil)
    BY <1>2, <1>3, <1>5, PutIs DEF c
  <1> HIDE DEF d
  <1>9. Whole(d[i])
    BY <1>4, <1>5, <1>6, <1>7 DEF Whole
  <1>10. Writes(t, Idle, d, i, Nil)
    BY <1>2, <1>7, <1>8, <1>9 DEF Writes, Idle
  <1>11. Shown(t, v)
    BY <1>2, ShownIs, Zenon
  <1>12. v # Nil /\ v = IF d[i].tag = 0 THEN Nil ELSE d[i].entry.value
    BY <1>1, <1>4, <1>5, <1>7, MapSizes DEF v
  <1>13. /\ Turns(t, d, i, v)
         /\ \A n \in 1 .. Len(tables) : \A q \in Keys : n = Tab(t) /\ q = Key(t) =>
               Slots(n, q)' = IF d[i].tag = 0 THEN {} ELSE {i}
    BY <1>3, <1>5, <1>6, <1>7, <1>10, <1>11, <1>12, LoudTurns
  <1>14. Counts(t, Idle)
    <2>1. local[t].delta = 0 /\ Idle.delta = 0
      BY PlainLocal DEF Idle
    <2>2. d[i].tag # 0
      BY <1>4, <1>5, <1>7
    <2> QED
      BY <1>3, <1>13, <2>1, <2>2, Zenon DEF Counts
  <1>15. SlotOK(t)'
    <2>1. local'[t] = Idle
      BY <1>10, WriteEdits
    <2> QED
      BY <2>1 DEF SlotOK, Idle
  <1> QED
    BY <1>10, <1>13, <1>14, <1>15, WriteStep

(* The chain of the writer after its write. *)
LEMMA NewChain ==
  ASSUME ControlLand, Content, ControlLand', NEW t \in Threads, NEW l, NEW d, NEW i, NEW owner,
         Writes(t, l, d, i, owner), l.tab = Tab(t), l.key = Key(t)
  PROVE  OldChain(t)' = d /\ Key(t)' = Key(t) /\ hash' = hash /\ local'[t] = l
  <1>1. local[t].at \in {"apply", "tagged", "untagged"}
    BY DEF Writes
  <1>2. PICK n \in 1 .. Len(tables) : n = Tab(t)
    BY <1>1, WriterNow
  <1>3. PICK q \in Keys : q = Key(t)
    BY <1>1, WriterNow
  <1>4. Home(n, q) = Root(t)
    BY <1>1, <1>2, <1>3, WriterNow
  <1>5. Chain(n, q)' = d
    BY <1>2, <1>3, <1>4, WriteSlots
  <1>6. local'[t] = l /\ hash' = hash
    BY WriteEdits
  <1>7. local'[t].tab = n /\ local'[t].key = q
    BY <1>2, <1>3, <1>6
  <1> QED
    BY <1>3, <1>5, <1>6, <1>7 DEF OldChain, Key

LEMMA UntagContent ==
  ASSUME ControlLand, Content, ControlLand', NEW t \in Threads, local[t].at = "apply", Still,
         NEW i \in Slots(Tab(t), Key(t)), Untag(t, i, OldChain(t)[i])
  PROVE  Content'
  <1> DEFINE c == OldChain(t)
             s == [c[i] EXCEPT !.tag = 0]
             d == [c EXCEPT ![i] = s]
             empty == \A j \in Bucket(BucketOf(i)) \ {i} :
                          Chain(local[t].tab, local[t].key)[j].tag = 0
             hint == IF empty THEN "shrink" ELSE Nil
             l == [local[t] EXCEPT !.at = "untagged", !.slot = i, !.delta = -1, !.hint = hint]
  <1>1. local' = [local EXCEPT ![t] = l]
    <2>1. local' = [local EXCEPT ![t].at = "untagged", ![t].slot = i, ![t].delta = -1,
                                 ![t].hint = hint]
      BY DEF Untag
    <2> HIDE DEF hint
    <2> QED
      BY <2>1, AsRecord, Now, Zenon
  <1>2. tables' = Put(t, i, s, t) /\ Shows(t, Nil) /\ Answer(t, c[i].entry.value)
    BY DEF Untag
  <1>3. /\ i \in 1 .. Len(c) /\ c[i] \in SlotSet /\ c[i].entry \in Entries /\ c[i].entry.key = Key(t)
        /\ c[i].entry # Nil /\ c[i].entry.value = Value(Tab(t), Key(t))
        /\ Slots(Tab(t), Key(t)) = {i}
        /\ \A j \in 1 .. Len(c) : j # i /\ c[j].entry # Nil => c[j].entry.key # Key(t)
    BY SlotFound
  <1>4. /\ l.at = "untagged" /\ l.tab = Tab(t) /\ l.key = Key(t) /\ l.slot = i /\ l.delta = -1
        /\ l.copied = 0 /\ l.range = {} /\ local[t].delta = 0
    BY Now, PlainLocal DEF Locals, Tab, Key
  <1> HIDE DEF c, hint
  <1>5. s \in SlotSet /\ s.entry = c[i].entry /\ s.tag = 0
    BY <1>3 DEF SlotSet
  <1> HIDE DEF s, l
  <1>6. Alters(t, d, i) /\ d[i] = s /\ Len(d) = Len(c)
    BY <1>3, <1>5, PutAlters DEF c
  <1>7. Edited(Tab(t), Root(t), d, t)
    BY <1>2, <1>3, <1>5, PutIs DEF c
  <1> HIDE DEF d
  <1>8. untrue' = {}
    <2>1. Value(Tab(t), Key(t)) \in seen[t]
      BY FoundNow DEF Tab, Key
    <2> QED
      BY <1>2, <1>3, <2>1 DEF Answer, Content
  <1>9. local'[t] = l
    BY <1>1, Now DEF Typed
  <1>10. Half(t, i)
    BY <1>4, <1>9 DEF Half
  <1>11. Writes(t, l, d, i, t)
    BY <1>1, <1>4, <1>6, <1>7, <1>8, <1>10 DEF Writes
  <1>12. Shown(t, Nil)
    BY <1>1, <1>2, ShownIs, Zenon
  <1>13. /\ Turns(t, d, i, Nil)
         /\ \A n \in 1 .. Len(tables) : \A q \in Keys : n = Tab(t) /\ q = Key(t) =>
               Slots(n, q)' = IF d[i].tag = 0 THEN {} ELSE {i}
    <2>1. d[i].entry # Nil /\ d[i].tag = 0 /\ d[i].entry.value = Value(Tab(t), Key(t))
      BY <1>3, <1>5, <1>6
    <2> QED
      BY <1>11, <1>12, <2>1, LoudTurns
  <1>14. Counts(t, l)
    <2>1. d[i].tag = 0
      BY <1>5, <1>6
    <2> QED
      BY <1>3, <1>4, <1>13, <2>1, Zenon DEF Counts
  <1>15. SlotOK(t)'
    <2>1. OldChain(t)' = d
      BY <1>4, <1>11, NewChain
    <2>2. Chain(local[t].tab, local[t].key)' = d
      BY <2>1 DEF OldChain
    <2>3. i \in 1 .. Len(d) /\ d[i].tag = 0
      BY <1>3, <1>5, <1>6
    <2> QED
      BY <1>4, <1>9, <2>2, <2>3 DEF SlotOK
  <1> QED
    BY <1>11, <1>13, <1>14, <1>15, WriteStep

(* A key without a slot has no entry in its chain. *)
LEMMA MissingKey ==
  ASSUME ControlLand, Content, NEW t \in Threads, local[t].at = "apply",
         Slots(Tab(t), Key(t)) = {}
  PROVE  /\ \A j \in 1 .. Len(OldChain(t)) :
               OldChain(t)[j].entry # Nil => OldChain(t)[j].entry.key # Key(t)
         /\ Value(Tab(t), Key(t)) = Nil
  <1>1. /\ Typed /\ ChainsOK /\ Tab(t) \in 1 .. Len(tables) /\ Key(t) \in Keys
        /\ Placed(OldChain(t), Root(t), tables[Tab(t)].len)
    BY WriterNow
  <1>2. SlotsOf(OldChain(t), Key(t)) = {}
    <2>1. OldChain(t) = Chain(Tab(t), Key(t))
      BY DEF OldChain, Tab, Key
    <2> QED
      BY <1>1, <2>1, SlotsOfIs
  <1>3. ASSUME NEW j \in 1 .. Len(OldChain(t)), OldChain(t)[j].entry # Nil,
               OldChain(t)[j].entry.key = Key(t)
        PROVE  FALSE
    <2>1. Whole(OldChain(t)[j])
      BY OthersWhole
    <2>2. OldChain(t)[j].tag # 0
      BY <1>3, <2>1 DEF Whole
    <2>3. OldChain(t)[j].tag = hash[Key(t)].h2
      BY <1>1, <1>3, <2>2 DEF Placed
    <2> QED
      BY <1>2, <1>3, <2>3 DEF SlotsOf
  <1>4. Value(Tab(t), Key(t)) = Nil
    BY DEF Value
  <1> QED
    BY <1>3, <1>4

LEMMA TagContent ==
  ASSUME ControlLand, Content, ControlLand', NEW t \in Threads, local[t].at = "apply", Still,
         Slots(Tab(t), Key(t)) = {}, NEW i \in 1 .. Len(OldChain(t)), OldChain(t)[i].tag = 0,
         Tag(t, i)
  PROVE  Content'
  <1> DEFINE c == OldChain(t)
             s == [tag |-> hash[Key(t)].h2, entry |-> Nil]
             d == [c EXCEPT ![i] = s]
             l == [local[t] EXCEPT !.at = "tagged", !.slot = i]
  <1>1. /\ local' = [local EXCEPT ![t] = l] /\ tables' = Put(t, i, s, t) /\ seen' = seen
        /\ untrue' = {}
    BY DEF Tag, Becomes, Key, Content
  <1>2. /\ l.at = "tagged" /\ l.tab = Tab(t) /\ l.key = Key(t) /\ l.slot = i
        /\ l.copied = 0 /\ l.range = {} /\ l.delta = local[t].delta
    BY Now, PlainLocal DEF Locals, Tab, Key
  <1>3. /\ hash[Key(t)].h2 \in Nat /\ Len(c) \in Nat
    BY WriterNow
  <1>4. c[i].entry = Nil
    BY OthersWhole DEF Whole
  <1>5. \A j \in 1 .. Len(c) : c[j].entry # Nil => c[j].entry.key # Key(t)
    BY MissingKey
  <1>6. s \in SlotSet /\ s.entry = Nil
    BY <1>3 DEF SlotSet
  <1> HIDE DEF s, l
  <1>7. Alters(t, d, i) /\ d[i] = s /\ Len(d) = Len(c)
    BY <1>4, <1>6, PutAlters
  <1>8. Edited(Tab(t), Root(t), d, t)
    BY <1>1, <1>6, PutIs
  <1> HIDE DEF d
  <1>9. local'[t] = l
    BY <1>1, Now DEF Typed
  <1>10. Half(t, i)
    BY <1>2, <1>9 DEF Half
  <1>11. Writes(t, l, d, i, t)
    BY <1>1, <1>2, <1>7, <1>8, <1>10 DEF Writes
  <1>12. Shown(t, Value(Tab(t), Key(t)))
    BY <1>1, <1>2, SameShown, Zenon
  <1>13. /\ Turns(t, d, i, Value(Tab(t), Key(t)))
         /\ \A n \in 1 .. Len(tables) : \A q \in Keys : n = Tab(t) /\ q = Key(t) =>
               Slots(n, q)' = Slots(n, q)
    <2>1. i <= Len(c) /\ d[i].entry = Nil
      BY <1>3, <1>6, <1>7
    <2> QED
      BY <1>4, <1>7, <1>11, <1>12, <2>1, SilentTurns
  <1>14. Counts(t, l)
    BY <1>2, <1>13 DEF Counts
  <1>15. SlotOK(t)'
    <2>1. OldChain(t)' = d
      BY <1>2, <1>11, NewChain
    <2>2. Chain(local[t].tab, local[t].key)' = d
      BY <2>1 DEF OldChain
    <2>3. \A j \in 1 .. Len(d) : j # i => d[j] = c[j]
      BY <1>7 DEF Alters
    <2> HIDE DEF c
    <2>4. \A j \in 1 .. Len(d) : d[j].entry # Nil => d[j].entry.key # Key(t)
      BY <1>5, <1>6, <1>7, <2>3
    <2>5. i \in 1 .. Len(d) /\ d[i].entry = Nil
      BY <1>6, <1>7 DEF c
    <2> QED
      BY <1>2, <1>9, <2>2, <2>4, <2>5 DEF SlotOK
  <1> QED
    BY <1>11, <1>13, <1>14, <1>15, WriteStep

LEMMA ExtendContent ==
  ASSUME ControlLand, Content, ControlLand', NEW t \in Threads, local[t].at = "apply", Still,
         Slots(Tab(t), Key(t)) = {}, Extend(t)
  PROVE  Content'
  <1> DEFINE c == OldChain(t)
             v == local[t].value
             e == [key |-> Key(t), value |-> v]
             s == [tag |-> hash[Key(t)].h2, entry |-> e]
             d == appendToBucket(c, hash[Key(t)].h2, e)
             l == [local[t] EXCEPT !.at = "count", !.delta = 1]
  <1>1. /\ local' = [local EXCEPT ![t] = l] /\ Shows(t, v) /\ untrue' = {}
    <2>1. /\ local' = [local EXCEPT ![t].at = "count", ![t].delta = 1] /\ Shows(t, v)
          /\ untrue' = untrue
      BY DEF Extend
    <2>2. [local EXCEPT ![t].at = "count", ![t].delta = 1] = [local EXCEPT ![t] = l]
      BY AsRecord, Now, Zenon
    <2> QED
      BY <2>1, <2>2 DEF Content
  <1>2. /\ l.at = "count" /\ l.tab = Tab(t) /\ l.key = Key(t) /\ l.delta = 1 /\ local[t].delta = 0
        /\ l.copied = 0 /\ l.range = {}
    BY Now, PlainLocal DEF Locals, Tab, Key
  <1>3. /\ hash[Key(t)].h2 \in Nat /\ hash[Key(t)].h2 # 0 /\ Len(c) \in Nat /\ Key(t) \in Keys
        /\ c \in Seq(SlotSet) /\ Typed
    BY WriterNow
  <1>4. v \in Nat /\ OnTable(t)
    BY HolderIs DEF Writing
  <1>5. /\ \A j \in 1 .. Len(c) : c[j].entry # Nil => c[j].entry.key # Key(t)
        /\ Value(Tab(t), Key(t)) = Nil
    BY MissingKey
  <1>6. e \in Entries /\ e.key = Key(t) /\ e.value = v
    BY <1>3, <1>4 DEF Entries
  <1>7. Edited(Tab(t), Root(t), d, Nil)
    <2>1. tables' = [LockIs(t, Nil) EXCEPT ![local[t].tab].chain[Root(t)] =
                        appendToBucket(@, hash[Key(t)].h2, e)]
      BY DEF Extend, Key
    <2> HIDE DEF e
    <2> QED
      BY <1>3, <1>4, <1>6, <2>1, ExtendEdits, Zenon DEF Tab, Key, OldChain
  <1> HIDE DEF e, v
  <1>8. PICK i \in Nat : AppendsAt(c, d, i, s)
    BY <1>3, <1>6, AppendIs
  <1>9. s.tag = hash[Key(t)].h2 /\ s.entry = e /\ e # Nil
    BY <1>6, MapSizes DEF Entries
  <1> HIDE DEF d, s, l
  <1>10. d[i] = s /\ Len(c) \in Nat
    BY <1>3, <1>8 DEF AppendsAt
  <1>11. Alters(t, d, i)
    <2>1. i <= Len(c) => c[i].entry = Nil
      BY <1>8, <1>3 DEF AppendsAt
    <2>2. d[i].entry.key = Key(t) /\ d[i].tag \in {0, hash[Key(t)].h2}
      BY <1>6, <1>9, <1>10
    <2> QED
      BY <1>5, <1>8, <2>1, <2>2 DEF Alters, AppendsAt
  <1> HIDE DEF c
  <1>12. Whole(d[i])
    BY <1>3, <1>9, <1>10 DEF Whole
  <1>13. Writes(t, l, d, i, Nil)
    BY <1>1, <1>2, <1>7, <1>11, <1>12 DEF Writes
  <1>14. Shown(t, v)
    BY <1>1, ShownIs, Zenon
  <1>15. /\ Turns(t, d, i, v)
         /\ \A n \in 1 .. Len(tables) : \A q \in Keys : n = Tab(t) /\ q = Key(t) =>
               Slots(n, q)' = IF d[i].tag = 0 THEN {} ELSE {i}
    <2>1. /\ d[i].entry # Nil /\ d[i].tag # 0 /\ d[i].entry.value = v
      BY <1>3, <1>6, <1>9, <1>10
    <2>2. v = IF d[i].tag = 0 THEN Nil ELSE d[i].entry.value
      BY <2>1
    <2> QED
      BY <1>5, <1>13, <1>14, <2>1, <2>2, LoudTurns
  <1>16. Counts(t, l)
    <2>1. d[i].tag # 0
      BY <1>3, <1>9, <1>10
    <2> QED
      BY <1>2, <1>15, <2>1, Zenon DEF Counts
  <1>17. SlotOK(t)'
    <2>1. local'[t] = l
      BY <1>13, WriteEdits
    <2> QED
      BY <1>2, <2>1 DEF SlotOK
  <1> QED
    BY <1>13, <1>15, <1>16, <1>17, WriteStep

LEMMA ApplyContent ==
  ASSUME ControlLand, Content, ControlLand', NEW t \in Threads, Apply(t)
  PROVE  Content'
  <1> DEFINE c == OldChain(t)
             slots == Slots(Tab(t), Key(t))
  <1>1. local[t].at = "apply" /\ Still
    BY DEF Apply, At, Still, fixed, resizing
  <1>2. slots = {} => Nil \in seen[t]
    BY <1>1, FoundNow DEF Tab, Key
  <1>3. CASE slots # {} /\ (\/ Replace(t, Min(slots), c[Min(slots)])
                             \/ Untag(t, Min(slots), c[Min(slots)]) \/ Keep(t, c[Min(slots)]))
    <2>1. PICK i \in slots : Min(slots) = i /\ c[i].entry.value \in seen[t]
      BY <1>1, <1>3, FoundNow DEF Tab, Key, OldChain
    <2>2. CASE Keep(t, c[i])
      <3>1. Returns(t, c[i].entry.value) /\ tables' = LockIs(t, Nil)
        BY <2>2 DEF Keep
      <3> QED
        BY <1>1, <2>1, <3>1, KeepContent
    <2>3. Replace(t, i, c[i]) \/ Untag(t, i, c[i]) \/ Keep(t, c[i])
      BY <1>3, <2>1
    <2> QED
      BY <1>1, <2>1, <2>2, <2>3, ReplaceContent, UntagContent
  <1>4. CASE slots = {} /\ Insert(t)
    <2> DEFINE free == {j \in DOMAIN c : c[j].tag = 0}
    <2>1. \/ Grow(t)
          \/ tables' = LockIs(t, Nil) /\ Returns(t, Nil)
          \/ free # {} /\ Tag(t, Min(free))
          \/ Extend(t)
      BY <1>4 DEF Insert, OldChain
    <2>2. c \in Seq(SlotSet) /\ Len(c) \in Nat
      BY <1>1, WriterNow
    <2>3. ASSUME free # {}, Tag(t, Min(free)) PROVE Content'
      <3>1. free \subseteq Nat
        BY <2>2
      <3> HIDE DEF free
      <3>2. PICK g \in free : g = Min(free)
        BY <2>3, <3>1, MinIs, Zenon
      <3>3. g \in 1 .. Len(c) /\ c[g].tag = 0
        <4> HIDE DEF c
        <4> QED
          BY <2>2, <3>2 DEF free
      <3> QED
        BY <1>1, <1>4, <2>3, <3>2, <3>3, TagContent
    <2> HIDE DEF free
    <2> QED
      BY <1>1, <1>2, <1>4, <2>1, <2>3, GrowContent, KeepContent, ExtendContent
  <1>5. \/ slots = {} /\ Insert(t)
        \/ slots # {} /\ (\/ Replace(t, Min(slots), c[Min(slots)])
                          \/ Untag(t, Min(slots), c[Min(slots)]) \/ Keep(t, c[Min(slots)]))
    BY DEF Apply, Tab, Key, OldChain
  <1> QED
    BY <1>3, <1>4, <1>5

LEMMA StoreEntryContent ==
  ASSUME ControlLand, Content, ControlLand', NEW t \in Threads, StoreEntry(t)
  PROVE  Content'
  <1> DEFINE c == OldChain(t)
             v == local[t].value
             i == local[t].slot
             e == [key |-> Key(t), value |-> v]
             s == [tag |-> hash[Key(t)].h2, entry |-> e]
             d == [c EXCEPT ![i] = s]
             l == [local[t] EXCEPT !.at = "count", !.delta = 1]
  <1>1. local[t].at = "tagged" /\ Still
    BY DEF StoreEntry, At, Still, fixed, resizing
  <1>2. /\ local' = [local EXCEPT ![t] = l] /\ Shows(t, v) /\ untrue' = {}
        /\ tables' = Put(t, i, s, Nil)
    <2>1. /\ local' = [local EXCEPT ![t].at = "count", ![t].delta = 1] /\ Shows(t, v)
          /\ untrue' = untrue /\ tables' = Put(t, i, s, Nil)
      BY DEF StoreEntry, Key
    <2>2. [local EXCEPT ![t].at = "count", ![t].delta = 1] = [local EXCEPT ![t] = l]
      BY AsRecord, Now, Zenon
    <2> QED
      BY <2>1, <2>2 DEF Content
  <1>3. /\ l.at = "count" /\ l.tab = Tab(t) /\ l.key = Key(t) /\ l.delta = 1 /\ local[t].delta = 0
        /\ l.copied = 0 /\ l.range = {}
    BY <1>1, Now, PlainLocal DEF Locals, Tab, Key
  <1>4. /\ hash[Key(t)].h2 \in Nat /\ hash[Key(t)].h2 # 0 /\ Len(c) \in Nat /\ Key(t) \in Keys
        /\ Typed /\ ChainsOK /\ Tab(t) \in 1 .. Len(tables)
    BY <1>1, WriterNow
  <1>5. v \in Nat
    BY <1>1, HolderIs DEF Writing
  <1>6. /\ i \in 1 .. Len(c) /\ c[i].entry = Nil
        /\ \A j \in 1 .. Len(c) : c[j].entry # Nil => c[j].entry.key # Key(t)
    BY <1>1, Zenon DEF Content, SlotOK, OldChain, Key
  <1>7. Value(Tab(t), Key(t)) = Nil
    <2>1. SlotsOf(c, Key(t)) = {}
      BY <1>6 DEF SlotsOf
    <2>2. Slots(Tab(t), Key(t)) = {}
      BY <1>4, <2>1, SlotsOfIs DEF OldChain, Tab, Key
    <2> QED
      BY <2>2 DEF Value
  <1>8. e \in Entries /\ e.key = Key(t) /\ e.value = v /\ e # Nil
    BY <1>4, <1>5, MapSizes DEF Entries
  <1> HIDE DEF e, v
  <1>9. s \in SlotSet /\ s.tag = hash[Key(t)].h2 /\ s.entry = e
    BY <1>4, <1>8 DEF SlotSet
  <1> HIDE DEF s, l, i
  <1>10. Alters(t, d, i) /\ d[i] = s
    BY <1>1, <1>6, <1>8, <1>9, PutAlters
  <1>11. Edited(Tab(t), Root(t), d, Nil)
    BY <1>1, <1>2, <1>6, <1>9, PutIs
  <1> HIDE DEF d
  <1>12. Whole(d[i])
    BY <1>4, <1>8, <1>9, <1>10 DEF Whole
  <1>13. Writes(t, l, d, i, Nil)
    BY <1>1, <1>2, <1>3, <1>10, <1>11, <1>12 DEF Writes, i
  <1>14. Shown(t, v)
    BY <1>1, <1>2, ShownIs, Zenon
  <1>15. d[i].entry # Nil /\ d[i].tag # 0 /\ d[i].entry.value = v
    BY <1>4, <1>8, <1>9, <1>10
  <1>16. /\ Turns(t, d, i, v)
         /\ \A n \in 1 .. Len(tables) : \A q \in Keys : n = Tab(t) /\ q = Key(t) =>
               Slots(n, q)' = IF d[i].tag = 0 THEN {} ELSE {i}
    <2>1. v = IF d[i].tag = 0 THEN Nil ELSE d[i].entry.value
      BY <1>15
    <2> QED
      BY <1>7, <1>13, <1>14, <1>15, <2>1, LoudTurns
  <1>17. Slots(Tab(t), Key(t)) = {}
    <2>1. SlotsOf(c, Key(t)) = {}
      BY <1>6 DEF SlotsOf
    <2> QED
      BY <1>4, <2>1, SlotsOfIs DEF OldChain, Tab, Key
  <1>18. Counts(t, l)
    BY <1>3, <1>15, <1>16, <1>17, Zenon DEF Counts
  <1>19. SlotOK(t)'
    <2>1. local'[t] = l
      BY <1>13, WriteEdits
    <2> QED
      BY <1>3, <2>1 DEF SlotOK
  <1> QED
    BY <1>13, <1>16, <1>18, <1>19, WriteStep

LEMMA ClearEntryContent ==
  ASSUME ControlLand, Content, ControlLand', NEW t \in Threads, ClearEntry(t)
  PROVE  Content'
  <1> DEFINE c == OldChain(t)
             i == local[t].slot
             d == [c EXCEPT ![i] = Empty]
             l == [local[t] EXCEPT !.at = "count"]
  <1>1. local[t].at = "untagged" /\ Still
    BY DEF ClearEntry, At, Still, fixed, resizing
  <1>2. /\ local' = [local EXCEPT ![t] = l] /\ seen' = seen /\ untrue' = {}
        /\ tables' = Put(t, i, Empty, Nil)
    BY DEF ClearEntry, Goes, Becomes, Content
  <1>3. /\ l.at = "count" /\ l.tab = Tab(t) /\ l.key = Key(t) /\ l.delta = local[t].delta
        /\ l.copied = 0 /\ l.range = {}
    BY <1>1, Now, PlainLocal DEF Locals, Tab, Key
  <1>4. Len(c) \in Nat
    BY <1>1, WriterNow
  <1>5. i \in 1 .. Len(c) /\ c[i].tag = 0
    BY <1>1 DEF Content, SlotOK, OldChain
  <1>6. Empty \in SlotSet /\ Empty.entry = Nil /\ Whole(Empty)
    BY DEF Empty, SlotSet, Whole
  <1> HIDE DEF l, i
  <1>7. Alters(t, d, i) /\ d[i] = Empty /\ Len(d) = Len(c)
    BY <1>1, <1>5, <1>6, PutAlters
  <1>8. Edited(Tab(t), Root(t), d, Nil)
    BY <1>1, <1>2, <1>5, <1>6, PutIs
  <1> HIDE DEF d
  <1>9. Writes(t, l, d, i, Nil)
    BY <1>1, <1>2, <1>3, <1>6, <1>7, <1>8 DEF Writes, i
  <1>10. Shown(t, Value(Tab(t), Key(t)))
    BY <1>1, <1>2, <1>3, SameShown, Zenon
  <1>11. /\ Turns(t, d, i, Value(Tab(t), Key(t)))
         /\ \A n \in 1 .. Len(tables) : \A q \in Keys : n = Tab(t) /\ q = Key(t) =>
               Slots(n, q)' = Slots(n, q)
    <2>1. i <= Len(c) /\ d[i].entry = Nil
      BY <1>4, <1>5, <1>6, <1>7
    <2> QED
      BY <1>5, <1>7, <1>9, <1>10, <2>1, SilentTurns
  <1>12. Counts(t, l)
    BY <1>3, <1>11 DEF Counts
  <1>13. SlotOK(t)'
    <2>1. local'[t] = l
      BY <1>9, WriteEdits
    <2> QED
      BY <1>3, <2>1 DEF SlotOK
  <1> QED
    BY <1>9, <1>11, <1>12, <1>13, WriteStep

-----------------------------------------------------------------------------
(* The content when calls are counted *)

(* t goes on or ends, and no entry changes. *)
Calm(t, l) ==
    /\ local' = [local EXCEPT ![t] = l] /\ untrue' = {}
    /\ SameChains /\ LocksKept(t) /\ table' = table /\ nextTable' = nextTable
    /\ resizeIdx' = resizeIdx /\ l.range = local[t].range
    /\ local[t].at \notin {"tagged", "untagged"}
    /\ l.at \notin {"tagged", "untagged", "scan", "entries"}
    /\ \A u \in Threads : u # t => seen'[u] = seen[u]
    /\ Stays(t, l)

LEMMA CalmStep ==
  ASSUME ControlLand, Content, ControlLand', NEW t \in Threads, NEW l, Calm(t, l), CountOK',
         IsFiniteSet(Tokens)',
         Len(tables) # table => tables'[table + 1].size + Cardinality(Tokens')
                                   = tables[table + 1].size + Cardinality(Tokens)
  PROVE  Content'
  <1>1. Typed /\ Typed' /\ local'[t] = l /\ \A u \in Threads : u # t => local'[u] = local[u]
    BY DEF ControlLand, Control, Typed, Calm
  <1>2. \A u \in Threads : u # t => SlotOK(u)' /\ ReaderOK(u)' /\ SeenOK(u)'
    BY <1>1, OtherContent DEF Content, Calm
  <1>3. SlotOK(t)' /\ ReaderOK(t)'
    BY <1>1 DEF SlotOK, ReaderOK, ReaderOf, Calm
  <1>4. SeenOK(t)'
    BY <1>1, SeenCall DEF Content, Calm
  <1>5. ChainsOK'
    BY <1>1, SameChainsOK DEF Content, Calm
  <1>6. SameDones
    <2>1. \A u \in Threads : local'[u].range = local[u].range
      BY <1>1 DEF Calm
    <2> QED
      BY <2>1, RangesKeepDones DEF Calm, SameChains
  <1>7. CopyOK'
    BY <1>1, <1>6, CopiesKept DEF Content, Calm
  <1> QED
    BY <1>2, <1>3, <1>4, <1>5, <1>7 DEF Content, Calm

(* What a call has counted it is no longer about to add. *)
LEMMA CountedAdding ==
  ASSUME ControlLand, Content, Typed', NEW t \in Threads, local[t].at = "count",
         Resized(local[t].tab, local[t].delta), SameChains, table' = table, NEW l,
         local' = [local EXCEPT ![t] = l], l.delta = 0
  PROVE  CountOK'
  <1>1. /\ Typed /\ table \in 1 .. Len(tables) /\ local[t].delta \in {-1, 1}
        /\ local'[t] = l /\ \A u \in Threads : u # t => local'[u] = local[u]
    BY Now, Zenon DEF Typed, LocalOK, Locals
  <1>2. /\ Held(table)' = Held(table) /\ IsFiniteSet(Held(table))
        /\ Cardinality(Held(table)) \in Nat
    BY <1>1, SameHeld, FS_CardinalityType DEF Content, CountOK
  <1>3. tables[table].size \in Int
    <2>1. tables[table] \in TableSet
      BY <1>1 DEF Typed
    <2> QED
      BY <2>1, TableIs
  <1>4. Cardinality(Held(table)) + Cardinality(Adding(-1))
           = tables[table].size + Cardinality(Adding(1))
    BY DEF Content, CountOK
  <1>5. /\ IsFiniteSet(Adding(1)) /\ Cardinality(Adding(1)) \in Nat
        /\ IsFiniteSet(Adding(-1)) /\ Cardinality(Adding(-1)) \in Nat
    BY AddingFinite
  <1>6. CASE local[t].tab # table
    <2>1. Adding(1)' = Adding(1) /\ Adding(-1)' = Adding(-1)
      BY <1>1, <1>6 DEF Adding
    <2>2. tables'[table].size = tables[table].size
      BY <1>1, <1>6 DEF Resized
    <2> QED
      BY <1>2, <1>4, <2>1, <2>2 DEF CountOK
  <1>7. CASE local[t].tab = table /\ local[t].delta = 1
    <2>1. Adding(1)' = Adding(1) \ {t} /\ t \in Adding(1) /\ Adding(-1)' = Adding(-1)
      BY <1>1, <1>7 DEF Adding
    <2>2. tables'[table].size = tables[table].size + 1
      BY <1>1, <1>7 DEF Resized
    <2>3. Cardinality(Adding(1)') = Cardinality(Adding(1)) - 1
      BY <1>5, <2>1, FS_RemoveElement
    <2>4. Cardinality(Held(table)) + Cardinality(Adding(-1))
             = tables'[table].size + Cardinality(Adding(1)')
      <3>1. Cardinality(Held(table)) \in Nat /\ Cardinality(Adding(1)) \in Nat
            /\ Cardinality(Adding(-1)) \in Nat
        BY <1>2, <1>5
      <3>2. tables'[table].size + Cardinality(Adding(1)')
               = (tables[table].size + 1) + (Cardinality(Adding(1)) - 1)
        BY <2>2, <2>3
      <3>3. (tables[table].size + 1) + (Cardinality(Adding(1)) - 1)
               = tables[table].size + Cardinality(Adding(1))
        BY <1>3, <3>1
      <3> QED
        BY <1>4, <3>2, <3>3
    <2> QED
      BY <1>2, <2>1, <2>4 DEF CountOK
  <1>8. CASE local[t].tab = table /\ local[t].delta = -1
    <2>1. Adding(-1)' = Adding(-1) \ {t} /\ t \in Adding(-1) /\ Adding(1)' = Adding(1)
      BY <1>1, <1>8 DEF Adding
    <2>2. tables'[table].size = tables[table].size + (-1)
      BY <1>1, <1>8 DEF Resized
    <2>3. Cardinality(Adding(-1)') = Cardinality(Adding(-1)) - 1
      BY <1>5, <2>1, FS_RemoveElement
    <2>4. Cardinality(Held(table)) + Cardinality(Adding(-1)')
             = tables'[table].size + Cardinality(Adding(1))
      BY <1>2, <1>3, <1>4, <1>5, <2>2, <2>3
    <2> QED
      BY <1>2, <2>1, <2>4 DEF CountOK
  <1> QED
    BY <1>1, <1>6, <1>7, <1>8

LEMMA ResizedChains ==
  ASSUME Typed, NEW n, NEW d, Resized(n, d), hash' = hash
  PROVE  SameChains
  BY DEF Resized, SameChains, Shaped

LEMMA CountContent ==
  ASSUME ControlLand, Content, ControlLand', NEW t \in Threads, Count(t)
  PROVE  Content'
  <1> DEFINE n == local[t].tab
             m == [local[t] EXCEPT !.at = "resize", !.delta = 0]
  <1>1. /\ local[t].at = "count" /\ hash' = hash /\ table' = table /\ nextTable' = nextTable
        /\ resizeIdx' = resizeIdx
    BY DEF Count, CountIn, At, fixed, resizing
  <1>2. /\ Typed /\ Typed' /\ n \in 1 .. Len(tables) /\ local[t].delta \in Int
        /\ local[t].range = {} /\ local[t].copied = 0 /\ n \in 1 .. table
    <2>1. local[t].at \in OnKey
      BY <1>1 DEF OnKey
    <2>2. n \in 1 .. Len(tables) /\ n \in 1 .. table
      BY <2>1, KeyIs, TabIs
    <2> QED
      BY <1>1, <2>2, Now, PlainLocal DEF Locals, ControlLand, Control
  <1>3. Resized(n, local[t].delta)
    BY <1>2, SizeEdits, Zenon DEF Count, CountIn
  <1>4. SameChains /\ LocksKept(t)
    BY <1>1, <1>2, <1>3, ResizedChains, ResizedKeeps
  <1>5. Ends(t) \/ Becomes(t, m)
    BY DEF Count, CountIn
  <1>6. /\ m.at = "resize" /\ m.tab = local[t].tab /\ m.key = local[t].key
        /\ m.range = {} /\ m.copied = 0 /\ m.delta = 0
    BY <1>2, Now DEF Locals
  <1> HIDE DEF m
  <1>7. ASSUME NEW l, l \in {Idle, m}, local' = [local EXCEPT ![t] = l], untrue' = {},
               \A u \in Threads : u # t => seen'[u] = seen[u],
               l = m => seen'[t] = seen[t]
        PROVE  Content'
    <2>1. /\ l.range = {} /\ l.copied = 0 /\ l.delta = 0
          /\ l.at \in {"idle", "resize"} /\ Stays(t, l)
      BY <1>6, <1>7 DEF Idle, Stays
    <2>2. Calm(t, l)
      BY <1>1, <1>2, <1>4, <1>7, <2>1 DEF Calm
    <2>3. CountOK'
      BY <1>1, <1>2, <1>3, <1>4, <1>7, <2>1, CountedAdding, Zenon
    <2>4. Tokens' = Tokens /\ IsFiniteSet(Tokens)
      <3>1. \A u \in Threads : local'[u].copied = local[u].copied
        BY <1>2, <1>7, <2>1 DEF Typed
      <3> QED
        BY <3>1 DEF Tokens, Content, CopyOK
    <2>5. Len(tables) # table => tables'[table + 1].size = tables[table + 1].size
      <3>1. table \in Nat /\ table <= Len(tables) /\ Len(tables) \in Nat /\ table > 0
        BY Now
      <3>2. Len(tables) # table => table + 1 \in 1 .. Len(tables) /\ table + 1 # n
        BY <1>2, <3>1
      <3> QED
        BY <1>3, <3>2 DEF Resized
    <2> QED
      BY <2>2, <2>3, <2>4, <2>5, CalmStep
  <1>8. CASE Ends(t)
    <2>1. local' = [local EXCEPT ![t] = Idle] /\ seen' = [seen EXCEPT ![t] = {}] /\ untrue' = {}
      BY <1>8 DEF Ends, Content
    <2>2. \A u \in Threads : u # t => seen'[u] = seen[u]
      BY <2>1, Now
    <2>3. Idle # m
      BY <1>6 DEF Idle
    <2> QED
      BY <1>7, <2>1, <2>2, <2>3, Zenon
  <1>9. CASE Becomes(t, m)
    BY <1>7, <1>9, Zenon DEF Becomes, Content
  <1> QED
    BY <1>5, <1>8, <1>9

(* What a worker has counted is no longer a token of it. *)
LEMMA CountedTokens ==
  ASSUME ControlLand, Content, NEW t \in Threads, NEW l, local' = [local EXCEPT ![t] = l],
         l.copied = 0
  PROVE  /\ IsFiniteSet(Tokens)' /\ local[t].copied \in Nat
         /\ Cardinality(Tokens) \in Nat
         /\ Cardinality(Tokens') = Cardinality(Tokens) - local[t].copied
  <1> DEFINE n == local[t].copied
             mine == {t} \X (1 .. n)
  <1>1. n \in Nat /\ local'[t] = l /\ \A u \in Threads : u # t => local'[u] = local[u]
    BY Now DEF Locals, Typed
  <1>2. IsFiniteSet(Tokens)
    BY DEF Content, CopyOK
  <1>3. \A p : p \in mine <=> p \in Tokens /\ p[1] = t
    BY <1>1 DEF Tokens
  <1>4. \A p : p \in Tokens' <=> p \in Tokens /\ p[1] # t
    BY <1>1 DEF Tokens
  <1> HIDE DEF n
  <1>5. Cardinality(mine) = n
    <2>1. IsFiniteSet({t}) /\ Cardinality({t}) = 1
      BY FS_Singleton
    <2>2. IsFiniteSet(1 .. n) /\ Cardinality(1 .. n) = n
      <3>1. IsFiniteSet(1 .. n) /\ Cardinality(1 .. n) = IF 1 > n THEN 0 ELSE n - 1 + 1
        BY <1>1, FS_Interval
      <3> QED
        BY <1>1, <3>1
    <2>3. Cardinality({t} \X (1 .. n)) = Cardinality({t}) * Cardinality(1 .. n)
      BY <2>1, <2>2, FS_Product, Zenon
    <2> QED
      BY <1>1, <2>1, <2>2, <2>3
  <1> HIDE DEF mine
  <1>6. Tokens' = Tokens \ mine /\ Tokens \cap mine = mine
    BY <1>3, <1>4
  <1>7. IsFiniteSet(Tokens \ mine) /\ Cardinality(Tokens \ mine) = Cardinality(Tokens) - n
    BY <1>2, <1>5, <1>6, FS_Difference
  <1> QED
    BY <1>1, <1>2, <1>6, <1>7, FS_CardinalityType DEF n

LEMMA CountCopiedContent ==
  ASSUME ControlLand, Content, ControlLand', NEW t \in Threads, CountCopied(t)
  PROVE  Content'
  <1> DEFINE l == [local[t] EXCEPT !.at = "claim", !.copied = 0]
  <1>1. /\ local[t].at = "copy" /\ local[t].range = {} /\ hash' = hash /\ table' = table
        /\ nextTable' = nextTable /\ resizeIdx' = resizeIdx /\ seen' = seen
        /\ local' = [local EXCEPT ![t] = l] /\ untrue' = {}
        /\ tables' = [tables EXCEPT ![local[t].new].size = @ + local[t].copied]
    BY DEF CountCopied, Becomes, At, fixed, resizing, Content
  <1>2. /\ Typed /\ Typed' /\ local[t].copied \in Nat /\ table \in Nat /\ table > 0
        /\ local[t] \in Locals /\ local[t].delta = 0
    BY <1>1, Now, PlainLocal DEF Locals, ControlLand, Control
  <1>3. /\ local[t].tab = table /\ local[t].new = table + 1 /\ Len(tables) = table + 1
    BY <1>1, WorkerIs
  <1>4. /\ table + 1 \in 1 .. Len(tables) /\ table \in 1 .. Len(tables)
    BY <1>2, <1>3
  <1>5. Resized(table + 1, local[t].copied)
    <2>1. tables' = [tables EXCEPT ![table + 1].size = @ + local[t].copied]
      BY <1>1, <1>3
    <2>2. PICK n \in 1 .. Len(tables), d \in Int : n = table + 1 /\ d = local[t].copied
      BY <1>2, <1>4
    <2>3. tables' = [tables EXCEPT ![n].size = @ + d]
      BY <2>1, <2>2
    <2>4. Resized(n, d)
      BY <1>2, <2>3, SizeEdits, Zenon
    <2> QED
      BY <2>2, <2>4
  <1>6. SameChains /\ LocksKept(t)
    BY <1>1, <1>2, <1>5, ResizedChains, ResizedKeeps
  <1>7. /\ l.at = "claim" /\ l.tab = local[t].tab /\ l.key = local[t].key /\ l.range = {}
        /\ l.copied = 0 /\ l.delta = 0
    BY <1>1, <1>2 DEF Locals
  <1> HIDE DEF l
  <1>8. Calm(t, l)
    BY <1>1, <1>6, <1>7 DEF Calm, Stays
  <1>9. CountOK'
    <2>1. tables'[table].size = tables[table].size
      BY <1>2, <1>4, <1>5 DEF Resized
    <2>2. \A u \in Threads : local'[u].delta = local[u].delta /\ local'[u].tab = local[u].tab
      BY <1>1, <1>2, <1>7 DEF Typed
    <2> QED
      BY <1>1, <1>2, <1>6, <2>1, <2>2, SameCount DEF Content
  <1>10. /\ IsFiniteSet(Tokens)' /\ Cardinality(Tokens) \in Nat
         /\ Cardinality(Tokens') = Cardinality(Tokens) - local[t].copied
    BY <1>1, <1>7, CountedTokens, Zenon
  <1>11. tables'[table + 1].size + Cardinality(Tokens')
            = tables[table + 1].size + Cardinality(Tokens)
    <2>1. tables'[table + 1].size = tables[table + 1].size + local[t].copied
      BY <1>4, <1>5 DEF Resized
    <2>2. tables[table + 1].size \in Int
      <3>1. tables[table + 1] \in TableSet
        BY <1>2, <1>4 DEF Typed
      <3> QED
        BY <3>1, TableIs
    <2>3. (tables[table + 1].size + local[t].copied) + (Cardinality(Tokens) - local[t].copied)
             = tables[table + 1].size + Cardinality(Tokens)
      BY <1>2, <1>10, <2>2
    <2> QED
      BY <1>10, <2>1, <2>3
  <1> QED
    BY <1>8, <1>9, <1>10, <1>11, CalmStep

-----------------------------------------------------------------------------
(* The content when the tables change                                        *)

LEMMA SameAt ==
  ASSUME NEW n, NEW k, tables'[n] = tables[n], hash' = hash
  PROVE  /\ Home(n, k)' = Home(n, k) /\ Chain(n, k)' = Chain(n, k)
         /\ Slots(n, k)' = Slots(n, k) /\ Value(n, k)' = Value(n, k)
  <1>1. Home(n, k)' = Home(n, k)
    BY DEF Home
  <1>2. Chain(n, k)' = Chain(n, k)
    BY <1>1 DEF Chain
  <1>3. Slots(n, k)' = Slots(n, k)
    BY <1>2 DEF Slots, Occupied
  <1>4. Value(n, k)' = Value(n, k)
    BY <1>2, <1>3 DEF Value
  <1> QED
    BY <1>1, <1>2, <1>3, <1>4

(* A thread that does nothing while its tables stay. *)
LEMMA OthersKept ==
  ASSUME ControlLand, Content, hash' = hash, NEW u \in Threads, local'[u] = local[u],
         local[u].key # Nil => seen[u] \subseteq seen'[u],
         \A n \in 1 .. table : tables'[n] = tables[n]
  PROVE  /\ SlotOK(u)' /\ ReaderOK(u)'
         /\ local[u].key # Nil =>
               /\ Value(local[u].tab, local[u].key)' \in seen'[u]
               /\ Value(table, local[u].key) \in seen'[u]
  <1>1. SlotOK(u) /\ ReaderOK(u) /\ SeenOK(u)
    BY DEF Content
  <1>2. CASE local[u].key = Nil
    <2>1. local[u].at \notin OnKey
      BY <1>2, KeyIs
    <2> QED
      BY <1>2, <2>1 DEF SlotOK, ReaderOK, ReaderOf, OnKey, Writing
  <1>3. CASE local[u].key # Nil
    <2>1. PICK n \in 1 .. table, k \in Keys : n = local[u].tab /\ k = local[u].key
      BY <1>3, TabIs
    <2>2. /\ Chain(n, k)' = Chain(n, k) /\ Slots(n, k)' = Slots(n, k)
          /\ Value(n, k)' = Value(n, k)
      BY SameAt
    <2>3. SlotOK(u)'
      BY <1>1, <2>1, <2>2 DEF SlotOK
    <2>4. ReaderOK(u)'
      BY <1>1, <1>3, <2>1, <2>2 DEF ReaderOK, ReaderOf
    <2>5. Value(n, k) \in seen'[u] /\ Value(table, k) \in seen'[u]
      BY <1>1, <1>3, <2>1 DEF SeenOK
    <2>6. Value(local[u].tab, local[u].key)' = Value(n, k)'
      BY <2>1
    <2> QED
      BY <2>1, <2>2, <2>3, <2>4, <2>5, <2>6
  <1> QED
    BY <1>2, <1>3

(* Nobody copies when the owner of the resize does not and has no helpers.   *)
LEMMA NoTokens ==
  ASSUME ControlLand, NEW t \in Threads, local[t].at \in {"prepare", "publish"},
         \A u \in Threads : ~Helper(u)
  PROVE  Tokens = {} /\ \A u \in Threads : local[u].copied = 0
  <1>1. \A u \in Threads : Holder(u) => u = t
    BY OwnerIs
  <1>2. \A u \in Threads : local[u].at # "copy"
    BY <1>1 DEF Holder, Helper, Resizing
  <1>3. \A u \in Threads : local[u].copied = 0
    BY <1>2, PlainLocal
  <1> QED
    BY <1>3 DEF Tokens

(* What is published holds the content of the present table, or nothing.     *)
LEMMA Published ==
  ASSUME ControlLand, Content, NEW t \in Threads, local[t].at = "publish", resizeHelpers = 0
  PROVE  /\ Len(tables) = table + 1 /\ table \in Nat /\ table > 0
         /\ IF local[t].hint = "clear" THEN Held(table + 1) = {}
            ELSE Held(table + 1) = Held(table)
         /\ \A k \in Keys : Value(table + 1, k) =
               IF local[t].hint = "clear" THEN Nil ELSE Value(table, k)
         /\ IsFiniteSet(Held(table + 1))
         /\ Cardinality(Held(table + 1)) = tables[table + 1].size
  <1>1. /\ Typed /\ table \in Nat /\ table > 0 /\ resizeIdx \in Nat /\ ChainsOK /\ CopyOK
        /\ Len(tables) = table + 1
        /\ IF local[t].hint = "clear" THEN nextTable = Nil
           ELSE nextTable = table + 1 /\ resizeIdx >= Base(table)
    BY Now DEF ThreadOK, PlaceOK, Typed, Content
  <1>2. \A u \in Threads : ~Helper(u) /\ local[u].range = {}
    BY AllCopied
  <1>3. Tokens = {}
    BY <1>2, NoTokens
  <1>4. table + 1 \in 1 .. Len(tables) /\ table \in 1 .. Len(tables) /\ table + 1 # Nil
        /\ Len(tables) # table
    BY <1>1, MapSizes
  <1>5. tables[table + 1].size \in Int
    <2>1. tables[table + 1] \in TableSet
      BY <1>1, <1>4 DEF Typed
    <2> QED
      BY <2>1, TableIs
  <1>6. /\ IsFiniteSet(Held(table + 1))
        /\ Cardinality(Held(table + 1)) = tables[table + 1].size
    <2>1. /\ IsFiniteSet(Held(table + 1))
          /\ Cardinality(Held(table + 1)) = tables[table + 1].size + Cardinality(Tokens)
      BY <1>1, <1>4 DEF CopyOK
    <2>2. Cardinality(Tokens) = 0
      BY <1>3, FS_EmptySet
    <2> QED
      BY <1>5, <2>1, <2>2
  <1>7. CASE local[t].hint = "clear"
    <2>1. Held(table + 1) = {}
      BY <1>1, <1>4, <1>7 DEF CopyOK
    <2>2. \A k \in Keys : Value(table + 1, k) = Nil
      BY <2>1 DEF Held, Value
    <2> QED
      BY <1>1, <1>6, <1>7, <2>1, <2>2
  <1>8. CASE local[t].hint # "clear"
    <2>1. ASSUME NEW k \in Keys PROVE Done(Home(table, k))
      <3>1. Home(table, k) \in 0 .. tables[table].len - 1
        BY <1>1, <1>4, HomeIs
      <3>2. tables[table] \in TableSet
        BY <1>1, <1>4 DEF Typed
      <3>3. Home(table, k) \in Nat
        BY <3>1, <3>2, TableIs
      <3>4. Base(table) \in Nat /\ Base(table) > 0
        BY <1>1, BaseIs
      <3>5. Home(table, k) % Base(table) < Base(table) /\ Home(table, k) % Base(table) \in Nat
        BY <3>3, <3>4
      <3>6. Home(table, k) % Base(table) < resizeIdx
        BY <1>1, <1>8, <3>4, <3>5
      <3> QED
        BY <1>2, <3>6 DEF Done
    <2>2. Held(table + 1) = {k \in Held(table) : Done(Home(table, k))}
      BY <1>1, <1>4, <1>8 DEF CopyOK
    <2>3. Held(table + 1) = Held(table)
      BY <2>1, <2>2 DEF Held
    <2>4. \A k \in Keys : Value(table + 1, k) = Value(table, k)
      <3>1. ASSUME NEW k \in Keys, k \in Held(table + 1) PROVE Value(table + 1, k) = Value(table, k)
        BY <1>1, <1>4, <3>1 DEF CopyOK
      <3>2. ASSUME NEW k \in Keys, k \notin Held(table + 1) PROVE Value(table + 1, k) = Value(table, k)
        BY <2>3, <3>2 DEF Held, Value
      <3> QED
        BY <3>1, <3>2
    <2> QED
      BY <1>1, <1>6, <1>8, <2>3, <2>4
  <1> QED
    BY <1>7, <1>8

LEMMA PublishContent ==
  ASSUME ControlLand, Content, ControlLand', NEW t \in Threads, Publish(t)
  PROVE  Content'
  <1> DEFINE l == [local[t] EXCEPT !.at = "finish"]
  <1>1. /\ local[t].at = "publish" /\ resizeHelpers = 0 /\ table' = local[t].new
        /\ local' = [local EXCEPT ![t] = l] /\ tables' = tables /\ hash' = hash /\ untrue' = {}
        /\ IF local[t].hint = "clear"
           THEN seen' = [u \in Threads |->
                            IF local[u].key = Nil THEN {} ELSE seen[u] \cup {Nil}]
           ELSE seen' = seen
    BY DEF Publish, At, Content
  <1>2. Typed /\ Typed' /\ local[t] \in Locals /\ ChainsOK /\ local[t].new = table + 1
    BY <1>1, Now DEF ThreadOK, PlaceOK, ControlLand, Control, Content
  <1>3. /\ l.at = "finish" /\ l.tab = local[t].tab /\ l.key = local[t].key
        /\ l.copied = local[t].copied /\ l.delta = local[t].delta
        /\ local'[t] = l /\ \A u \in Threads : u # t => local'[u] = local[u]
    BY <1>1, <1>2 DEF Locals, Typed
  <1> HIDE DEF l
  <1>4. /\ Len(tables) = table + 1 /\ table \in Nat /\ table > 0
        /\ \A k \in Keys : Value(table + 1, k) =
              IF local[t].hint = "clear" THEN Nil ELSE Value(table, k)
        /\ IsFiniteSet(Held(table + 1))
        /\ Cardinality(Held(table + 1)) = tables[table + 1].size
    BY <1>1, Published
  <1>5. table' = table + 1 /\ table + 1 \in 1 .. Len(tables)
    BY <1>1, <1>2, <1>4
  <1>6. \A n, k : /\ Chain(n, k)' = Chain(n, k) /\ Slots(n, k)' = Slots(n, k)
                  /\ Value(n, k)' = Value(n, k)
    BY <1>1, SameAt
  <1>7. \A u \in Threads : local[u].key # Nil =>
           seen[u] \subseteq seen'[u] /\ (local[t].hint = "clear" => Nil \in seen'[u])
    BY <1>1
  <1>8. ASSUME NEW u \in Threads PROVE SlotOK(u)' /\ ReaderOK(u)'
    <2>1. CASE u = t
      BY <1>3, <2>1 DEF SlotOK, ReaderOK, ReaderOf
    <2>2. CASE u # t
      <3>1. local'[u] = local[u] /\ \A n \in 1 .. table : tables'[n] = tables[n]
        BY <1>1, <1>3, <2>2
      <3> QED
        BY <1>1, <1>7, <3>1, OthersKept
    <2> QED
      BY <2>1, <2>2
  <1>9. ASSUME NEW u \in Threads, local'[u].key # Nil
        PROVE  Value(table, local[u].key)' \in seen'[u]
               /\ Value(local[u].tab, local[u].key)' \in seen'[u]
    <2>1. local'[u].tab = local[u].tab /\ local'[u].key = local[u].key
      BY <1>3
    <2>2. PICK n \in 1 .. Len(tables), k \in Keys : n = local[u].tab /\ k = local[u].key
      BY <1>9, <2>1, TabIs
    <2>3. Value(n, k) \in seen[u] /\ Value(table, k) \in seen[u]
      BY <1>9, <2>1, <2>2 DEF Content, SeenOK
    <2>4. PICK g : g = table + 1
      OBVIOUS
    <2>5. Value(g, k)' = Value(g, k) /\ Value(n, k)' = Value(n, k)
      BY <1>6
    <2>6. Value(g, k) \in seen'[u] /\ Value(n, k) \in seen'[u]
      BY <1>4, <1>7, <1>9, <2>1, <2>3, <2>4
    <2>7. table' = g /\ local'[u].tab = n /\ local'[u].key = k
      BY <1>5, <2>1, <2>2, <2>4
    <2> QED
      BY <2>5, <2>6, <2>7
  <1>10. \A u \in Threads : SeenOK(u)'
    BY <1>9 DEF SeenOK
  <1>11. ChainsOK'
    BY <1>1, <1>2, <1>3, SameTables, SameChainsOK
  <1>12. CopyOK'
    <2>1. Tokens' = Tokens
      <3>1. \A u \in Threads : local'[u].copied = local[u].copied
        BY <1>3
      <3> QED
        BY <3>1 DEF Tokens
    <2>2. Len(tables') = table'
      BY <1>1, <1>4, <1>5
    <2> QED
      BY <2>1, <2>2 DEF CopyOK, Content
  <1>13. CountOK'
    <2>1. \A u \in Threads : local[u].tab # table + 1
      <3>1. ASSUME NEW u \in Threads PROVE local[u].tab # table + 1
        <4>1. LocalOK(u)
          BY Now
        <4>2. local[u].at = "idle" => local[u].tab = 0
          BY <4>1 DEF LocalOK, Idle
        <4>3. local[u].at # "idle" => local[u].tab \in 1 .. table
          BY <4>1 DEF LocalOK
        <4> QED
          BY <1>4, <4>2, <4>3
      <3> QED
        BY <3>1
    <2>2. \A u \in Threads : local'[u].tab # table'
      BY <1>3, <1>5, <2>1
    <2>3. Adding(1)' = {} /\ Adding(-1)' = {}
      BY <2>2 DEF Adding
    <2>4. Held(table)' = Held(table + 1)
      BY <1>5, <1>6 DEF Held
    <2>5. Cardinality({}) = 0
      BY FS_EmptySet
    <2>6. tables[table + 1].size \in Int
      <3>1. tables[table + 1] \in TableSet
        BY <1>2, <1>5 DEF Typed
      <3> QED
        BY <3>1, TableIs
    <2>7. Cardinality(Held(table + 1)) + 0 = tables[table + 1].size + 0
      BY <1>4, <2>6
    <2> QED
      BY <1>1, <1>4, <1>5, <2>3, <2>4, <2>5, <2>7, Zenon DEF CountOK
  <1> QED
    BY <1>1, <1>8, <1>10, <1>11, <1>12, <1>13 DEF Content

(* A new table has a chain of one empty bucket everywhere. *)
LEMMA NewChains ==
  ASSUME Typed', NEW n \in 1 .. Len(tables'), NEW m \in Nat, m > 0, tables'[n] = NewTable(m)
  PROVE  /\ \A b \in 0 .. tables'[n].len - 1 : ChainOK(n, b)'
         /\ \A k \in Keys : Slots(n, k)' = {}
         /\ tables'[n].size = 0
  <1>1. /\ tables'[n].len = m /\ tables'[n].size = 0
        /\ \A b \in 0 .. m - 1 : tables'[n].chain[b] = NewBucket
        /\ NewBucket \in Seq(SlotSet) /\ Len(NewBucket) = BucketSize
        /\ \A j \in 1 .. BucketSize : NewBucket[j] = Empty
    BY NewTableIs
  <1>2. ASSUME NEW b \in 0 .. m - 1 PROVE ChainOK(n, b)'
    <2>1. tables'[n].chain[b] = NewBucket
      BY <1>1
    <2>2. 1 \in Nat /\ 1 > 0 /\ Len(NewBucket) = 1 * BucketSize
      BY <1>1, MapSizes
    <2>3. \A i \in 1 .. Len(NewBucket) : NewBucket[i].entry = Nil /\ Whole(NewBucket[i])'
      BY <1>1 DEF Empty, Whole
    <2>4. Placed(NewBucket, b, m)'
      BY <2>2, <2>3 DEF Placed
    <2> QED
      BY <1>1, <2>1, <2>3, <2>4 DEF ChainOK
  <1>3. ASSUME NEW k \in Keys PROVE Slots(n, k)' = {}
    <2>1. Home(n, k)' \in 0 .. m - 1
      <3>1. hash' \in [Keys -> [h1 : Nat, h2 : Nat \ {0}]]
        BY DEF Typed
      <3>2. Home(n, k)' = hash'[k].h1 % m /\ hash'[k].h1 \in Nat
        BY <1>1, <3>1 DEF Home
      <3> QED
        BY <3>2
    <2>2. Chain(n, k)' = NewBucket
      BY <1>1, <2>1 DEF Chain
    <2>3. \A i \in DOMAIN NewBucket : NewBucket[i].entry = Nil
      BY <1>1 DEF Empty
    <2> QED
      BY <2>2, <2>3 DEF Slots, Occupied
  <1> QED
    BY <1>1, <1>2, <1>3

(* A chain of a table that stays, while t is not between two stores.         *)
LEMMA KeptChain ==
  ASSUME ControlLand, Content, hash' = hash, NEW t \in Threads,
         local[t].at \notin {"tagged", "untagged"},
         \A u \in Threads : u # t => local'[u] = local[u],
         NEW n \in 1 .. Len(tables), tables'[n] = tables[n], NEW b \in 0 .. tables[n].len - 1
  PROVE  ChainOK(n, b)'
  <1>1. ChainOK(n, b)
    BY DEF Content, ChainsOK
  <1>2. ASSUME NEW i, Mid(n, b, i) PROVE Mid(n, b, i)'
    <2>1. PICK u \in Threads : u = tables[n].lock[b]
      BY <1>2 DEF Mid
    <2>2. local[u].at \in {"tagged", "untagged"} /\ local[u].tab = n /\ Root(u) = b
          /\ local[u].slot = i
      BY <1>2, <2>1 DEF Mid
    <2>3. local'[u] = local[u]
      BY <2>2
    <2>4. Root(u)' = Root(u)
      BY <2>2, <2>3 DEF Root, Home
    <2> QED
      BY <2>1, <2>2, <2>3, <2>4 DEF Mid
  <1>3. \A c, m : Placed(c, b, m)' <=> Placed(c, b, m)
    BY DEF Placed
  <1>4. \A x : Whole(x)' <=> Whole(x)
    BY DEF Whole
  <1> QED
    BY <1>1, <1>2, <1>3, <1>4 DEF ChainOK

(* One more table, and the others are as they were. *)
LEMMA MoreChains ==
  ASSUME ControlLand, Content, Typed', hash' = hash, NEW t \in Threads,
         local[t].at \notin {"tagged", "untagged"},
         \A u \in Threads : u # t => local'[u] = local[u],
         \A n \in 1 .. Len(tables) : tables'[n] = tables[n],
         Len(tables') = Len(tables) + 1,
         NEW g, g = Len(tables) + 1, \A b \in 0 .. tables'[g].len - 1 : ChainOK(g, b)'
  PROVE  ChainsOK'
  <1>1. Len(tables) \in Nat
    BY Now
  <1>2. ASSUME NEW n \in 1 .. Len(tables'), NEW b \in 0 .. tables'[n].len - 1
        PROVE  ChainOK(n, b)'
    <2>1. CASE n \in 1 .. Len(tables)
      <3>1. tables'[n] = tables[n] /\ b \in 0 .. tables[n].len - 1
        BY <2>1
      <3> QED
        BY <2>1, <3>1, KeptChain
    <2>2. n \in 1 .. Len(tables) \/ n = g
      BY <1>1
    <2> QED
      BY <2>1, <2>2
  <1> QED
    BY <1>2 DEF ChainsOK

LEMMA PrepareContent ==
  ASSUME ControlLand, Content, ControlLand', NEW t \in Threads, Prepare(t)
  PROVE  Content'
  <1> DEFINE fill == local[t].hint # "clear"
             new == Len(tables) + 1
             len == NewLen(local[t].hint)
             at == IF fill THEN "claim" ELSE "publish"
             l == [local[t] EXCEPT !.at = at, !.tab = table, !.new = new]
  <1>1. /\ local[t].at = "prepare" /\ hash' = hash /\ table' = table
    BY DEF Prepare, At, fixed
  <1>2. CASE local[t].hint = "shrink" /\ ~MayShrink(table)
    <2>1. AfterResize(t) /\ tables' = tables /\ nextTable' = nextTable /\ resizeIdx' = resizeIdx
      BY <1>2 DEF Prepare
    <2>2. SameChains /\ SameSizes /\ LocksKept(t)
      BY <1>1, <2>1, SameTables
    <2> QED
      BY <1>1, <2>1, <2>2, AfterContent
  <1>3. CASE ~(local[t].hint = "shrink" /\ ~MayShrink(table))
    <2>1. /\ Typed /\ Typed' /\ table \in Nat /\ table > 0 /\ nextTable = Nil
          /\ Len(tables) = table /\ local[t] \in Locals /\ table \in 1 .. Len(tables)
      BY <1>1, Now DEF ThreadOK, PlaceOK, ControlLand, Control
    <2>2. \A u \in Threads : ~Joined(u) /\ ~Helper(u)
      BY <1>1, NoneJoined
    <2>3. Tokens = {} /\ \A u \in Threads : local[u].copied = 0
      BY <1>1, <2>2, NoTokens
    <2>4. len \in Nat /\ len > 0
      <3>1. local[t].hint \in {"grow", "shrink", "clear"}
        BY <1>1, OwnerIs DEF Locals
      <3> QED
        BY <1>3, <3>1, NewLenIs
    <2>5. /\ tables' = Append(tables, NewTable(len)) /\ local' = [local EXCEPT ![t] = l]
          /\ seen' = seen /\ untrue' = {}
          /\ nextTable' = (IF fill THEN new ELSE Nil)
          /\ fill => resizeIdx' = 0
      BY <1>3, <2>1 DEF Prepare, Becomes, Content
    <2> HIDE DEF len
    <2>6. /\ tables' \in Seq(TableSet) /\ Len(tables') = table + 1
          /\ tables'[table + 1] = NewTable(len)
          /\ \A m \in 1 .. Len(tables) : tables'[m] = tables[m]
      <3>1. NewTable(len) \in TableSet
        BY <2>4, NewTableIs
      <3> QED
        BY <2>1, <2>5, <3>1, AppendTable
    <2>7. /\ l.at \in {"claim", "publish"} /\ l.tab = table /\ l.key = local[t].key
          /\ l.delta = local[t].delta /\ l.copied = local[t].copied
      <3>1. l.at = at
        BY <2>1 DEF Locals
      <3> QED
        BY <2>1, <3>1 DEF Locals
    <2> HIDE DEF l
    <2>8. local'[t] = l /\ \A u \in Threads : u # t => local'[u] = local[u]
      BY <2>1, <2>5 DEF Typed
    <2>9. PICK g : g = table + 1 /\ g \in 1 .. Len(tables') /\ g = Len(tables) + 1 /\ g # Nil
      BY <2>1, <2>6, MapSizes
    <2>10. /\ \A b \in 0 .. tables'[g].len - 1 : ChainOK(g, b)'
           /\ \A k \in Keys : Slots(g, k)' = {}
           /\ tables'[g].size = 0
      <3>1. PICK m \in Nat : m = len /\ m > 0
        BY <2>4
      <3>2. tables'[g] = NewTable(m)
        BY <2>6, <2>9, <3>1
      <3> QED
        BY <2>1, <2>9, <3>1, <3>2, NewChains
    <2>11. ChainsOK'
      BY <1>1, <2>1, <2>6, <2>8, <2>9, <2>10, MoreChains
    <2>12. \A k : /\ Slots(table, k)' = Slots(table, k) /\ Value(table, k)' = Value(table, k)
                  /\ Home(table, k)' = Home(table, k)
      <3>1. PICK n : n = table
        OBVIOUS
      <3>2. tables'[n] = tables[n]
        BY <2>1, <2>6, <3>1
      <3>3. \A k : /\ Slots(n, k)' = Slots(n, k) /\ Value(n, k)' = Value(n, k)
                   /\ Home(n, k)' = Home(n, k)
        BY <1>1, <3>2, SameAt
      <3> QED
        BY <1>1, <3>1, <3>3
    <2>13. Held(table)' = Held(table)
      BY <2>12 DEF Held
    <2>14. CountOK'
      <3>1. local[t].delta = 0
        BY <1>1, PlainLocal
      <3>2. Adding(1)' = Adding(1) /\ Adding(-1)' = Adding(-1)
        BY <1>1, <2>7, <2>8, <3>1 DEF Adding
      <3>3. tables'[table].size = tables[table].size
        BY <2>1, <2>6
      <3> QED
        BY <1>1, <2>13, <3>2, <3>3 DEF Content, CountOK
    <2>15. Tokens' = {}
      <3>1. \A u \in Threads : local'[u].copied = 0
        BY <2>3, <2>7, <2>8
      <3> QED
        BY <3>1 DEF Tokens
    <2>16. table' + 1 = g /\ Len(tables') # table'
      BY <1>1, <2>1, <2>6, <2>9
    <2>17. Held(g)' = {}
      BY <2>10 DEF Held
    <2>18. nextTable' # Nil => {k \in Held(table) : Done(Home(table, k))}' = {}
      <3>1. ASSUME nextTable' # Nil, NEW k \in Keys, Done(Home(table, k))' PROVE FALSE
        <4>1. resizeIdx' = 0
          BY <2>5, <3>1
        <4>2. Base(table)' \in Nat /\ Base(table)' > 0
          <5>1. table \in 1 .. Len(tables') /\ g \in 1 .. Len(tables')
            <6>1. table + 1 \in Nat /\ table \in 1 .. table + 1
              BY <2>1
            <6> QED
              BY <2>6, <2>9, <6>1
          <5>2. PICK n \in 1 .. Len(tables') : n = table' /\ n + 1 = g
            BY <1>1, <2>9, <5>1
          <5>3. tables'[n] \in TableSet /\ tables'[n + 1] \in TableSet
            <6>1. tables' \in Seq(TableSet)
              BY <2>6
            <6>2. PICK a \in 1 .. Len(tables') : a = n + 1
              BY <2>9, <5>2, Zenon
            <6>3. tables'[n] \in TableSet /\ tables'[a] \in TableSet
              BY <6>1
            <6> QED
              BY <6>2, <6>3
          <5>4. /\ tables'[n].len \in Nat /\ tables'[n].len > 0
                /\ tables'[n + 1].len \in Nat /\ tables'[n + 1].len > 0
            BY <5>3, TableIs
          <5>5. {tables'[n].len, tables'[n + 1].len} \subseteq Nat
            BY <5>4
          <5>6. Base(n)' \in {tables'[n].len, tables'[n + 1].len}
            BY <5>5, MinIs, Zenon DEF Base
          <5> QED
            BY <5>2, <5>4, <5>6
        <4>3. Home(table, k)' \in Nat
          <5>1. Home(table, k) \in 0 .. tables[table].len - 1 /\ tables[table] \in TableSet
            BY <2>1, HomeIs DEF Typed
          <5> QED
            BY <2>12, <5>1, TableIs
        <4>4. Home(table, k)' % Base(table)' \in Nat
          BY <4>2, <4>3
        <4>5. Home(table, k)' % Base(table)' < 0
          BY <3>1, <4>1 DEF Done
        <4> QED
          BY <4>4, <4>5
      <3> QED
        BY <3>1 DEF Held
    <2>19. CopyOK'
      <3>1. IsFiniteSet({}) /\ Cardinality({}) = 0
        BY FS_EmptySet
      <3>2. Held(table + 1)' = {} /\ tables'[table' + 1].size = 0
        BY <2>10, <2>16, <2>17
      <3>3. IF nextTable' = Nil THEN Held(table + 1)' = {}
            ELSE Held(table + 1)' = {k \in Held(table) : Done(Home(table, k))}'
        BY <2>18, <3>2
      <3>4. Cardinality(Held(table + 1)') = tables'[table' + 1].size + Cardinality(Tokens')
        <4>1. 0 = 0 + 0
          OBVIOUS
        <4> QED
          BY <2>15, <3>1, <3>2, <4>1
      <3> QED
        BY <2>15, <3>1, <3>2, <3>3, <3>4, Zenon DEF CopyOK
    <2>20. ASSUME NEW u \in Threads PROVE SlotOK(u)' /\ ReaderOK(u)' /\ SeenOK(u)'
      <3>1. CASE u = t
        <4>1. SlotOK(t)' /\ ReaderOK(t)'
          BY <2>7, <2>8 DEF SlotOK, ReaderOK, ReaderOf
        <4>2. local[t].key # Nil => Value(table, local[t].key) \in seen[t]
          BY DEF Content, SeenOK
        <4>3. PICK k : k = local[t].key
          OBVIOUS
        <4>4. k # Nil => Value(table, k)' \in seen'[t]
          BY <2>5, <2>12, <4>2, <4>3
        <4>5. local'[t].key = k /\ local'[t].tab = table'
          BY <1>1, <2>7, <2>8, <4>3
        <4> QED
          BY <3>1, <4>1, <4>4, <4>5 DEF SeenOK
      <3>2. CASE u # t
        <4>1. local'[u] = local[u]
          BY <2>8, <3>2
        <4>2. /\ SlotOK(u)' /\ ReaderOK(u)'
              /\ local[u].key # Nil =>
                    /\ Value(local[u].tab, local[u].key)' \in seen'[u]
                    /\ Value(table, local[u].key) \in seen'[u]
          BY <1>1, <2>1, <2>5, <2>6, <4>1, OthersKept
        <4>3. PICK k : k = local[u].key
          OBVIOUS
        <4>4. k # Nil => Value(table, k)' \in seen'[u]
          BY <2>12, <4>2, <4>3
        <4> QED
          BY <4>1, <4>2, <4>3, <4>4 DEF SeenOK
      <3> QED
        BY <3>1, <3>2
    <2> QED
      BY <2>5, <2>11, <2>14, <2>19, <2>20 DEF Content
  <1> QED
    BY <1>2, <1>3

-----------------------------------------------------------------------------
(* What a copy of a chain leaves in the table that receives it               *)

(* A table that nobody writes: every chain in order and every slot whole.    *)
Neat(tb) ==
    \A a \in 0 .. tb.len - 1 :
        Placed(tb.chain[a], a, tb.len) /\ \A j \in 1 .. Len(tb.chain[a]) : Whole(tb.chain[a][j])
HasEntry(tb, e) ==
    \E a \in 0 .. tb.len - 1 : \E j \in 1 .. Len(tb.chain[a]) : tb.chain[a][j].entry = e
Hashed == hash \in [Keys -> [h1 : Nat, h2 : Nat \ {0}]]
(* Chain c has no two entries with a key, and tb no entry with a key of it.  *)
Apart(c, tb) ==
    /\ \A x, y \in 1 .. Len(c) :
          c[x].entry # Nil /\ c[y].entry # Nil /\ c[x].entry.key = c[y].entry.key => x = y
    /\ \A x \in 1 .. Len(c) : \A e \in Entries :
          c[x].entry # Nil /\ HasEntry(tb, e) => e.key # c[x].entry.key

(* A chain that a whole slot with a new key has joined. *)
LEMMA JoinPlaced ==
  ASSUME Hashed, NEW c \in Seq(SlotSet), NEW b \in Nat, NEW m \in Nat, Placed(c, b, m),
         \A j \in 1 .. Len(c) : Whole(c[j]),
         NEW slot \in SlotSet, slot.entry # Nil, slot.tag = hash[slot.entry.key].h2,
         hash[slot.entry.key].h2 # 0, hash[slot.entry.key].h1 % m = b,
         \A j \in 1 .. Len(c) : c[j].entry # Nil => c[j].entry.key # slot.entry.key,
         NEW d, NEW i, AppendsAt(c, d, i, slot)
  PROVE  /\ Placed(d, b, m) /\ \A j \in 1 .. Len(d) : Whole(d[j])
         /\ \A e \in Entries : (\E j \in 1 .. Len(d) : d[j].entry = e)
               <=> (\E j \in 1 .. Len(c) : c[j].entry = e) \/ e = slot.entry
  <1>1. /\ d \in Seq(SlotSet) /\ i \in 1 .. Len(d) /\ d[i] = slot /\ Len(c) \in Nat /\ Len(d) \in Nat
        /\ i \in 1 .. Len(c) => c[i].entry = Nil
        /\ \A j \in 1 .. Len(d) : j # i => d[j] = IF j <= Len(c) THEN c[j] ELSE Empty
        /\ Len(d) = Len(c) \/ Len(d) = Len(c) + BucketSize
    BY DEF AppendsAt
  <1>2. BucketSize \in Nat /\ BucketSize > 0
    BY MapSizes
  <1>3. \A j \in 1 .. Len(d) : j # i /\ d[j].entry # Nil => j \in 1 .. Len(c) /\ d[j] = c[j]
    BY <1>1 DEF Empty
  <1>4. \A j \in 1 .. Len(c) : j \in 1 .. Len(d) /\ (c[j].entry # Nil => j # i /\ d[j] = c[j])
    <2>1. ASSUME NEW j \in 1 .. Len(c) PROVE j \in 1 .. Len(d)
      BY <1>1, <1>2
    <2>2. ASSUME NEW j \in 1 .. Len(c), c[j].entry # Nil PROVE j # i /\ d[j] = c[j]
      BY <1>1, <2>1, <2>2
    <2> QED
      BY <2>1, <2>2
  <1>5. \A j \in 1 .. Len(d) : Whole(d[j])
    <2>1. ASSUME NEW j \in 1 .. Len(d), j # i PROVE Whole(d[j])
      <3>1. d[j] = Empty \/ (j \in 1 .. Len(c) /\ d[j] = c[j])
        BY <1>1, <2>1
      <3>2. Whole(Empty)
        BY DEF Whole, Empty
      <3> QED
        BY <3>1, <3>2
    <2>2. Whole(d[i])
      BY <1>1 DEF Whole
    <2> QED
      BY <2>1, <2>2
  <1>6. \E j \in Nat : j > 0 /\ Len(d) = j * BucketSize
    <2>1. PICK j \in Nat : j > 0 /\ Len(c) = j * BucketSize
      BY DEF Placed
    <2>2. j + 1 \in Nat /\ j + 1 > 0 /\ (j + 1) * BucketSize = j * BucketSize + BucketSize
      BY <1>2, <2>1
    <2> QED
      BY <1>1, <2>1, <2>2
  <1>7. \A j \in 1 .. Len(d) : d[j].entry # Nil =>
           /\ hash[d[j].entry.key].h1 % m = b
           /\ d[j].tag # 0 => d[j].tag = hash[d[j].entry.key].h2
    BY <1>1, <1>3 DEF Placed
  <1>8. \A j, k \in 1 .. Len(d) :
           d[j].entry # Nil /\ d[k].entry # Nil /\ d[j].entry.key = d[k].entry.key => j = k
    BY <1>1, <1>3 DEF Placed
  <1>9. Placed(d, b, m)
    BY <1>6, <1>7, <1>8 DEF Placed
  <1>10. ASSUME NEW e \in Entries
         PROVE  (\E j \in 1 .. Len(d) : d[j].entry = e)
                   <=> (\E j \in 1 .. Len(c) : c[j].entry = e) \/ e = slot.entry
    <2>1. e # Nil
      BY MapSizes DEF Entries
    <2> QED
      BY <1>1, <1>3, <1>4, <2>1
  <1> QED
    BY <1>5, <1>9, <1>10

(* One slot is copied. *)
LEMMA CopyOne ==
  ASSUME Hashed, NEW tb \in TableSet, Neat(tb), NEW slot \in SlotSet, slot.entry # Nil,
         \A e \in Entries : HasEntry(tb, e) => e.key # slot.entry.key
  PROVE  /\ Neat(CopySlot(slot, tb))
         /\ \A e \in Entries :
               HasEntry(CopySlot(slot, tb), e) <=> HasEntry(tb, e) \/ e = slot.entry
  <1> DEFINE nt == CopySlot(slot, tb)
             k == slot.entry.key
             b == hash[k].h1 % tb.len
             s == [tag |-> hash[k].h2, entry |-> slot.entry]
             m == tb.len
  <1>1. k \in Keys /\ Receives(tb, nt, b, s)
    BY CopySlotIs DEF Hashed
  <1>2. /\ m \in Nat /\ m > 0 /\ tb.chain \in [0 .. m - 1 -> Seq(SlotSet)]
    BY TableIs
  <1>3. hash[k].h1 \in Nat /\ hash[k].h2 \in Nat /\ hash[k].h2 # 0
    BY <1>1 DEF Hashed
  <1>4. s \in SlotSet /\ s.entry = slot.entry /\ s.tag = hash[k].h2
    BY <1>3 DEF SlotSet
  <1> HIDE DEF nt, s
  <1>5. PICK i \in Nat : AppendsAt(tb.chain[b], nt.chain[b], i, s)
    BY <1>1, Zenon DEF Receives
  <1>6. /\ nt.len = m /\ b \in 0 .. m - 1 /\ b \in Nat
        /\ \A a \in 0 .. m - 1 : a # b => nt.chain[a] = tb.chain[a]
    <2>1. /\ nt.len = tb.len /\ b \in 0 .. tb.len - 1
          /\ \A a \in 0 .. tb.len - 1 : a # b => nt.chain[a] = tb.chain[a]
      BY <1>1, Zenon DEF Receives, SameBut
    <2> HIDE DEF b
    <2> QED
      BY <1>2, <2>1
  <1> DEFINE c == tb.chain[b]
             d == nt.chain[b]
  <1>7. /\ c \in Seq(SlotSet) /\ Placed(c, b, m) /\ \A j \in 1 .. Len(c) : Whole(c[j])
    BY <1>2, <1>6 DEF Neat
  <1>8. ASSUME NEW j \in 1 .. Len(c), c[j].entry # Nil PROVE c[j].entry.key # k
    <2>1. c[j] \in SlotSet
      <3> HIDE DEF c
      <3> QED
        BY <1>7
    <2>2. PICK e \in Entries : e = c[j].entry
      BY <1>8, <2>1, Zenon DEF SlotSet
    <2>3. HasEntry(tb, e)
      BY <1>6, <2>2 DEF HasEntry
    <2> QED
      BY <2>2, <2>3, Zenon
  <1>9. /\ Placed(d, b, m) /\ \A j \in 1 .. Len(d) : Whole(d[j])
        /\ \A e \in Entries : (\E j \in 1 .. Len(d) : d[j].entry = e)
              <=> (\E j \in 1 .. Len(c) : c[j].entry = e) \/ e = slot.entry
    <2> HIDE DEF c, d, b, m
    <2>1. hash[s.entry.key].h1 % m = b
      BY <1>4 DEF b, m
    <2>2. \A j \in 1 .. Len(c) : c[j].entry # Nil => c[j].entry.key # s.entry.key
      BY <1>4, <1>8
    <2>3. AppendsAt(c, d, i, s)
      BY <1>5 DEF c, d
    <2>4. s.tag = hash[s.entry.key].h2 /\ hash[s.entry.key].h2 # 0 /\ s.entry # Nil
      BY <1>3, <1>4
    <2>6. /\ c \in Seq(SlotSet) /\ b \in Nat /\ m \in Nat /\ Placed(c, b, m) /\ s \in SlotSet
          /\ \A j \in 1 .. Len(c) : Whole(c[j])
      BY <1>2, <1>4, <1>6, <1>7
    <2>5. /\ Placed(d, b, m) /\ \A j \in 1 .. Len(d) : Whole(d[j])
          /\ \A e \in Entries : (\E j \in 1 .. Len(d) : d[j].entry = e)
                <=> (\E j \in 1 .. Len(c) : c[j].entry = e) \/ e = s.entry
      BY <2>1, <2>2, <2>3, <2>4, <2>6, JoinPlaced
    <2> QED
      BY <1>4, <2>5
  <1>10. Neat(nt)
    <2> HIDE DEF d, b
    <2>1. ASSUME NEW a \in 0 .. m - 1
          PROVE  Placed(nt.chain[a], a, m) /\ \A j \in 1 .. Len(nt.chain[a]) : Whole(nt.chain[a][j])
      <3>1. CASE a = b
        BY <1>9, <3>1 DEF d
      <3>2. CASE a # b
        BY <1>6, <3>2 DEF Neat
      <3> QED
        BY <3>1, <3>2
    <2> QED
      BY <1>6, <2>1 DEF Neat
  <1>11. ASSUME NEW e \in Entries
         PROVE  HasEntry(nt, e) <=> HasEntry(tb, e) \/ e = slot.entry
    <2> HIDE DEF b, m
    <2>1. (\E j \in 1 .. Len(nt.chain[b]) : nt.chain[b][j].entry = e)
             <=> (\E j \in 1 .. Len(tb.chain[b]) : tb.chain[b][j].entry = e) \/ e = slot.entry
      BY <1>9
    <2>2. ASSUME NEW a \in 0 .. m - 1, a # b
          PROVE  (\E j \in 1 .. Len(nt.chain[a]) : nt.chain[a][j].entry = e)
                    <=> (\E j \in 1 .. Len(tb.chain[a]) : tb.chain[a][j].entry = e)
      BY <1>6, <2>2
    <2>3. HasEntry(tb, e) <=> \E a \in 0 .. m - 1 :
                                 \E j \in 1 .. Len(tb.chain[a]) : tb.chain[a][j].entry = e
      BY DEF HasEntry, m
    <2>4. HasEntry(nt, e) <=> \E a \in 0 .. m - 1 :
                                 \E j \in 1 .. Len(nt.chain[a]) : nt.chain[a][j].entry = e
      BY <1>6 DEF HasEntry
    <2> QED
      BY <1>6, <2>1, <2>2, <2>3, <2>4
  <1> QED
    BY <1>10, <1>11 DEF nt

(* cp is tb with the entries of the first i slots of chain c. *)
HasFirst(c, tb, cp, i) ==
    /\ Neat(cp)
    /\ \A e \in Entries : HasEntry(cp, e) <=> HasEntry(tb, e) \/ \E x \in 1 .. i : c[x].entry = e

LEMMA CopyMore ==
  ASSUME Hashed, NEW c \in Seq(SlotSet), NEW tb \in TableSet, Apart(c, tb),
         NEW i \in 1 .. Len(c), NEW cp \in TableSet, HasFirst(c, tb, cp, i - 1)
  PROVE  HasFirst(c, tb, CopySlot(c[i], cp), i)
  <1>1. i \in Nat /\ i > 0 /\ Len(c) \in Nat /\ 1 .. i = (1 .. i - 1) \cup {i}
        /\ \A x \in 1 .. i - 1 : x \in 1 .. Len(c) /\ x # i
    OBVIOUS
  <1>2. PICK slot \in SlotSet : slot = c[i]
    OBVIOUS
  <1>3. ASSUME NEW e \in Entries
        PROVE  (\E x \in 1 .. i : c[x].entry = e)
                  <=> (\E x \in 1 .. i - 1 : c[x].entry = e) \/ slot.entry = e
    BY <1>1, <1>2
  <1>4. ASSUME NEW e \in Entries
        PROVE  HasEntry(cp, e) <=> HasEntry(tb, e) \/ \E x \in 1 .. i - 1 : c[x].entry = e
    BY DEF HasFirst
  <1>5. CASE slot.entry = Nil
    <2>1. CopySlot(c[i], cp) = cp
      BY <1>2, <1>5, CopySlotIs, Zenon DEF Hashed
    <2>2. ASSUME NEW e \in Entries PROVE slot.entry # e
      BY <1>5, MapSizes DEF Entries
    <2> QED
      BY <1>3, <1>4, <2>1, <2>2 DEF HasFirst
  <1>6. CASE slot.entry # Nil
    <2>1. ASSUME NEW e \in Entries, HasEntry(cp, e) PROVE e.key # slot.entry.key
      <3>1. CASE HasEntry(tb, e)
        BY <1>2, <1>6, <3>1 DEF Apart
      <3>2. CASE \E x \in 1 .. i - 1 : c[x].entry = e
        <4>1. PICK x \in 1 .. i - 1 : c[x].entry = e
          BY <3>2
        <4>2. e # Nil
          BY MapSizes DEF Entries
        <4>3. x \in 1 .. Len(c) /\ x # i
          BY <1>1
        <4> QED
          BY <1>2, <1>6, <4>1, <4>2, <4>3 DEF Apart
      <3> QED
        BY <1>4, <2>1, <3>1, <3>2
    <2>2. Neat(cp)
      BY DEF HasFirst
    <2>3. /\ Neat(CopySlot(slot, cp))
          /\ \A e \in Entries :
                HasEntry(CopySlot(slot, cp), e) <=> HasEntry(cp, e) \/ e = slot.entry
      BY <1>6, <2>1, <2>2, CopyOne
    <2> QED
      BY <1>2, <1>3, <1>4, <2>3 DEF HasFirst
  <1> QED
    BY <1>5, <1>6

(* A chain copied into a neat table leaves it neat, with its entries added.  *)
LEMMA CopiedNeat ==
  ASSUME Hashed, NEW c \in Seq(SlotSet), NEW tb \in TableSet, Neat(tb), Apart(c, tb)
  PROVE  Copied(c, tb) \in TableSet /\ HasFirst(c, tb, Copied(c, tb), Len(c))
  <1> DEFINE cp == Copies(c, tb)
             T == {i \in 0 .. Len(c) : ~ HasFirst(c, tb, cp[i], i)}
  <1>1. /\ Len(c) \in Nat /\ cp[0] = tb
        /\ \A i \in 1 .. Len(c) : cp[i] = CopySlot(c[i], cp[i - 1])
    BY CopiesIs
  <1>2. \A i \in 0 .. Len(c) : cp[i] \in TableSet
    BY CopiesTypes DEF Hashed, SameBut
  <1>3. HasFirst(c, tb, cp[0], 0)
    BY <1>1 DEF HasFirst
  <1>4. Copied(c, tb) = cp[Len(c)]
    BY CopiedIs
  <1> HIDE DEF cp
  <1>5. T = {}
    <2>1. SUFFICES ASSUME T # {} PROVE FALSE
      OBVIOUS
    <2>8. T \subseteq Nat
      BY <1>1
    <2>2. PICK g \in T : \A n \in T : g <= n
      <3> HIDE DEF T
      <3> QED
        BY <2>1, <2>8, LeastNumber, Zenon
    <2>3. g # 0 /\ g \in 0 .. Len(c) /\ ~ HasFirst(c, tb, cp[g], g)
      BY <1>3
    <2>4. g \in 1 .. Len(c) /\ g - 1 \in 0 .. Len(c) /\ ~ (g <= g - 1)
      BY <1>1, <2>3
    <2>5. HasFirst(c, tb, cp[g - 1], g - 1)
      BY <2>2, <2>4
    <2>6. cp[g - 1] \in TableSet /\ cp[g] = CopySlot(c[g], cp[g - 1])
      BY <1>1, <1>2, <2>4
    <2>7. HasFirst(c, tb, CopySlot(c[g], cp[g - 1]), g)
      BY <2>4, <2>5, <2>6, CopyMore
    <2> QED
      BY <2>3, <2>6, <2>7
  <1> QED
    BY <1>1, <1>2, <1>4, <1>5

(* The slots of a key in a neat table, and the entry with the key.           *)
LEMMA NeatSlots ==
  ASSUME Hashed, NEW tb \in TableSet, Neat(tb), NEW k \in Keys,
         NEW c, c = tb.chain[hash[k].h1 % tb.len]
  PROVE  /\ \A e \in Entries : e.key = k /\ HasEntry(tb, e)
               => \E i \in SlotsOf(c, k) : c[i].entry = e
         /\ \A i \in SlotsOf(c, k) : /\ c[i].entry \in Entries /\ c[i].entry.key = k
                                     /\ HasEntry(tb, c[i].entry)
  <1>1. /\ tb.len \in Nat /\ tb.len > 0 /\ tb.chain \in [0 .. tb.len - 1 -> Seq(SlotSet)]
        /\ hash[k].h1 \in Nat /\ hash[k].h2 # 0
    BY TableIs DEF Hashed
  <1>2. PICK b \in Nat : b = hash[k].h1 % tb.len /\ b \in 0 .. tb.len - 1
    BY <1>1
  <1>3. /\ c \in Seq(SlotSet) /\ \A j \in 1 .. Len(c) : Whole(c[j]) /\ c[j] \in SlotSet
        /\ Placed(c, b, tb.len)
    <2>1. c = tb.chain[b]
      BY <1>2
    <2>2. c \in Seq(SlotSet) /\ Placed(c, b, tb.len) /\ \A j \in 1 .. Len(c) : Whole(c[j])
      BY <1>1, <1>2, <2>1 DEF Neat
    <2> QED
      BY <2>2
  <1>4. ASSUME NEW e \in Entries, e.key = k, HasEntry(tb, e)
        PROVE  \E i \in SlotsOf(c, k) : c[i].entry = e
    <2>1. PICK a \in 0 .. tb.len - 1 : \E j \in 1 .. Len(tb.chain[a]) : tb.chain[a][j].entry = e
      BY <1>4 DEF HasEntry
    <2>2. PICK j \in 1 .. Len(tb.chain[a]) : tb.chain[a][j].entry = e
      BY <2>1
    <2>3. e # Nil
      BY MapSizes DEF Entries
    <2>4. Placed(tb.chain[a], a, tb.len)
      BY DEF Neat
    <2>5. a = b
      BY <1>2, <1>4, <2>2, <2>3, <2>4 DEF Placed
    <2>6. j \in 1 .. Len(c) /\ c[j].entry = e
      BY <1>2, <2>2, <2>5
    <2>7. c[j].tag # 0
      BY <1>3, <2>3, <2>6 DEF Whole
    <2>8. c[j].tag = hash[k].h2
      BY <1>3, <1>4, <2>3, <2>6, <2>7, Zenon DEF Placed
    <2> QED
      BY <1>4, <2>3, <2>6, <2>8, Zenon DEF SlotsOf
  <1>5. ASSUME NEW i \in SlotsOf(c, k)
        PROVE  /\ c[i].entry \in Entries /\ c[i].entry.key = k
               /\ HasEntry(tb, c[i].entry)
    <2>1. i \in 1 .. Len(c) /\ c[i].entry # Nil /\ c[i].entry.key = k
      BY DEF SlotsOf
    <2>2. c[i].entry \in Entries
      BY <1>3, <2>1 DEF SlotSet
    <2> QED
      BY <1>2, <2>1, <2>2 DEF HasEntry
  <1> QED
    BY <1>4, <1>5

(* A chain with one entry for a key has as many keys as entries. *)
LEMMA KeysCount ==
  ASSUME NEW c \in Seq(SlotSet),
         \A x, y \in 1 .. Len(c) :
             c[x].entry # Nil /\ c[y].entry # Nil /\ c[x].entry.key = c[y].entry.key => x = y
  PROVE  /\ IsFiniteSet({c[x].entry.key : x \in Occupied(c)})
         /\ Cardinality({c[x].entry.key : x \in Occupied(c)}) = Cardinality(Occupied(c))
  <1> DEFINE K == {c[x].entry.key : x \in Occupied(c)}
             f == [x \in Occupied(c) |-> c[x].entry.key]
  <1>1. IsFiniteSet(Occupied(c)) /\ Occupied(c) \subseteq 1 .. Len(c)
    BY OccupiedIs
  <1>2. \A x \in Occupied(c) : c[x].entry # Nil
    BY DEF Occupied
  <1>3. f \in Bijection(Occupied(c), K)
    <2>1. f \in [Occupied(c) -> K] /\ \A k \in K : \E x \in Occupied(c) : f[x] = k
      OBVIOUS
    <2>2. \A x, y \in Occupied(c) : f[x] = f[y] => x = y
      BY <1>1, <1>2
    <2> QED
      BY <2>1, <2>2 DEF Bijection, Injection, Surjection, IsInjective
  <1> HIDE DEF f, K
  <1>4. ExistsBijection(Occupied(c), K)
    BY <1>3 DEF ExistsBijection
  <1>5. IsFiniteSet(K) /\ Cardinality(K) = Cardinality(Occupied(c))
    BY <1>1, <1>4, FS_Bijection
  <1> QED
    BY <1>5 DEF K

(* What a key is worth in a neat table. *)
LEMMA NeatValue ==
  ASSUME Hashed, NEW tb \in TableSet, Neat(tb), NEW k \in Keys,
         NEW c, c = tb.chain[hash[k].h1 % tb.len]
  PROVE  /\ SlotsOf(c, k) # {} <=> \E e \in Entries : e.key = k /\ HasEntry(tb, e)
         /\ \A e \in Entries : e.key = k /\ HasEntry(tb, e) => c[Min(SlotsOf(c, k))].entry = e
         /\ c \in Seq(SlotSet)
  <1>1. /\ \A e \in Entries : e.key = k /\ HasEntry(tb, e)
              => \E i \in SlotsOf(c, k) : c[i].entry = e
        /\ \A i \in SlotsOf(c, k) : /\ c[i].entry \in Entries /\ c[i].entry.key = k
                                    /\ HasEntry(tb, c[i].entry)
    BY NeatSlots
  <1>2. /\ tb.len \in Nat /\ tb.len > 0 /\ tb.chain \in [0 .. tb.len - 1 -> Seq(SlotSet)]
        /\ hash[k].h1 \in Nat
    BY TableIs DEF Hashed
  <1>3. PICK b \in 0 .. tb.len - 1 : b = hash[k].h1 % tb.len
    BY <1>2
  <1>4. c \in Seq(SlotSet) /\ Placed(c, b, tb.len)
    <2>1. c = tb.chain[b]
      BY <1>3
    <2> QED
      BY <1>2, <2>1 DEF Neat
  <1>5. ASSUME NEW i \in SlotsOf(c, k), NEW j \in SlotsOf(c, k) PROVE i = j
    <2>1. /\ i \in 1 .. Len(c) /\ j \in 1 .. Len(c) /\ c[i].entry # Nil /\ c[j].entry # Nil
          /\ c[i].entry.key = k /\ c[j].entry.key = k
      BY DEF SlotsOf
    <2> HIDE DEF SlotsOf
    <2> QED
      BY <1>4, <2>1, Zenon DEF Placed
  <1>6. SlotsOf(c, k) \subseteq Nat
    BY DEF SlotsOf
  <1>7. ASSUME NEW e \in Entries, e.key = k, HasEntry(tb, e)
        PROVE  c[Min(SlotsOf(c, k))].entry = e
    <2>1. PICK i \in SlotsOf(c, k) : c[i].entry = e
      BY <1>1, <1>7
    <2>2. Min(SlotsOf(c, k)) \in SlotsOf(c, k)
      BY <1>6, <2>1, MinIs
    <2>3. Min(SlotsOf(c, k)) = i
      BY <1>5, <2>1, <2>2
    <2> QED
      BY <2>1, <2>3
  <1> QED
    BY <1>1, <1>4, <1>7, Zenon

(* t copies chain c of bucket b of the present table into table g. *)
Copying(t, b, c, g, l) ==
    /\ local[t].at = "copy" /\ local' = [local EXCEPT ![t] = l] /\ l.at = "copy"
    /\ l.range = local[t].range \ {b} /\ b \in local[t].range
    /\ l.copied = local[t].copied + Cardinality(Occupied(c))
    /\ l.key = local[t].key /\ l.tab = local[t].tab /\ l.delta = local[t].delta
    /\ local[t].tab = table /\ g = table + 1 /\ Len(tables) = g /\ g # table
    /\ nextTable # Nil /\ nextTable' = nextTable /\ table' = table /\ hash' = hash
    /\ resizeIdx' = resizeIdx /\ seen' = seen /\ untrue' = {}
    /\ b \in 0 .. tables[table].len - 1 /\ tables[table].lock[b] = Nil
    /\ c = tables[table].chain[b]
    /\ tables' \in Seq(TableSet) /\ Len(tables') = g
    /\ tables'[g] = Copied(c, tables[g]) /\ SameBut(tables[g], tables'[g])
    /\ \A m \in 1 .. table : tables'[m] = tables[m]

LEMMA CopyIs ==
  ASSUME ControlLand, Content, NEW t \in Threads, Copy(t)
  PROVE  \E b \in Nat, c \in Seq(SlotSet), g \in 1 .. Len(tables) :
            \E l : Copying(t, b, c, g, l)
  <1>1. /\ local[t].at = "copy" /\ local[t].range # {} /\ untrue' = {}
        /\ hash' = hash /\ table' = table /\ nextTable' = nextTable
        /\ resizeIdx' = resizeIdx /\ seen' = seen
    BY DEF Copy, Becomes, At, fixed, resizing, Content
  <1>2. /\ local[t] \in Locals /\ Typed /\ RangeOK /\ table \in Nat /\ table > 0
    BY Now DEF Control
  <1>3. /\ local[t].tab = table /\ local[t].new = table + 1 /\ Len(tables) = table + 1
        /\ nextTable # Nil
    BY <1>1, WorkerIs
  <1>4. PICK b \in Nat : b = Min(local[t].range) /\ b \in local[t].range
    BY <1>1, <1>2, MinIs DEF Locals
  <1>5. b \in 0 .. tables[table].len - 1
    BY <1>2, <1>4 DEF RangeOK
  <1>6. PICK c \in Seq(SlotSet) : c = tables[table].chain[b]
    <2>1. tables[table] \in TableSet
      BY <1>2 DEF Typed
    <2> QED
      BY <1>5, <2>1, TableIs
  <1>7. PICK g \in 1 .. Len(tables) : g = table + 1
    BY <1>2, <1>3
  <1>8. tables[table].lock[b] = Nil /\ tables' = [tables EXCEPT ![g] = Copied(c, @)]
    BY <1>3, <1>4, <1>6, <1>7 DEF Copy
  <1>9. Filling(g, c)
    BY <1>2, <1>8, CopyEdits, Zenon
  <1>10. \A m \in 1 .. table : tables'[m] = tables[m]
    BY <1>2, <1>3, <1>7, <1>9 DEF Filling
  <1> DEFINE l == [local[t] EXCEPT !.range = @ \ {b}, !.copied = @ + Cardinality(Occupied(c))]
  <1>11. local' = [local EXCEPT ![t] = l]
    BY <1>3, <1>4, <1>6 DEF Copy, Becomes
  <1>12. /\ l.at = "copy" /\ l.range = local[t].range \ {b}
         /\ l.copied = local[t].copied + Cardinality(Occupied(c))
         /\ l.key = local[t].key /\ l.tab = local[t].tab /\ l.delta = local[t].delta
    BY <1>1, <1>2 DEF Locals
  <1> HIDE DEF l
  <1>13. Copying(t, b, c, g, l)
    BY <1>1, <1>2, <1>3, <1>4, <1>5, <1>6, <1>7, <1>8, <1>9, <1>10, <1>11, <1>12
       DEF Copying, Filling
  <1> QED
    BY <1>13

(* What t has copied becomes tokens of t. *)
LEMMA CopiedTokens ==
  ASSUME ControlLand, Content, NEW t \in Threads, NEW l, local' = [local EXCEPT ![t] = l],
         NEW m \in Nat, l.copied = local[t].copied + m
  PROVE  /\ IsFiniteSet(Tokens)' /\ Cardinality(Tokens) \in Nat
         /\ Cardinality(Tokens') = Cardinality(Tokens) + m
  <1> DEFINE n == local[t].copied
             more == {t} \X (n + 1 .. n + m)
  <1>1. n \in Nat /\ local'[t] = l /\ \A u \in Threads : u # t => local'[u] = local[u]
    BY Now DEF Locals, Typed
  <1>2. IsFiniteSet(Tokens)
    BY DEF Content, CopyOK
  <1>3. ASSUME NEW p \in Threads \X Nat
        PROVE  p \in Tokens' <=> p \in Tokens \/ p \in more
    <2>1. CASE p[1] = t
      <3>1. p[2] \in Nat /\ (p \in more <=> p[2] \in n + 1 .. n + m)
        BY <2>1
      <3>2. p \in Tokens' <=> p[2] \in 1 .. n + m
        BY <1>1, <2>1 DEF Tokens
      <3>3. p \in Tokens <=> p[2] \in 1 .. n
        BY <2>1 DEF Tokens
      <3> HIDE DEF n, more
      <3>4. p[2] \in 1 .. n + m <=> p[2] \in 1 .. n \/ p[2] \in n + 1 .. n + m
        BY <1>1, <3>1
      <3> QED
        BY <3>1, <3>2, <3>3, <3>4
    <2>2. CASE p[1] # t
      BY <1>1, <2>2 DEF Tokens
    <2> QED
      BY <2>1, <2>2
  <1>4. more \subseteq Threads \X Nat /\ Tokens \subseteq Threads \X Nat
        /\ Tokens' \subseteq Threads \X Nat
    BY <1>1 DEF Tokens
  <1>5. Tokens \cap more = {}
    BY <1>1 DEF Tokens
  <1> HIDE DEF n
  <1>6. IsFiniteSet(more) /\ Cardinality(more) = m
    <2>1. IsFiniteSet({t}) /\ Cardinality({t}) = 1
      BY FS_Singleton, Zenon
    <2>2. IsFiniteSet(n + 1 .. n + m) /\ Cardinality(n + 1 .. n + m) = m
      <3>1. PICK x \in Int, y \in Int : x = n + 1 /\ y = n + m
        BY <1>1
      <3>2. IsFiniteSet(x .. y) /\ Cardinality(x .. y) = IF x > y THEN 0 ELSE y - x + 1
        BY FS_Interval
      <3> QED
        BY <1>1, <3>1, <3>2
    <2>3. /\ IsFiniteSet({t} \X (n + 1 .. n + m))
          /\ Cardinality({t} \X (n + 1 .. n + m)) = Cardinality({t}) * Cardinality(n + 1 .. n + m)
      BY <2>1, <2>2, FS_Product, Zenon
    <2> QED
      BY <2>1, <2>2, <2>3
  <1> HIDE DEF more
  <1>7. Tokens' = Tokens \cup more
    BY <1>3, <1>4
  <1>8. /\ IsFiniteSet(Tokens \cup more)
        /\ Cardinality(Tokens \cup more)
              = Cardinality(Tokens) + Cardinality(more) - Cardinality(Tokens \cap more)
    BY <1>2, <1>6, FS_Union
  <1>9. Cardinality(Tokens) \in Nat /\ Cardinality({}) = 0
    BY <1>2, FS_CardinalityType, FS_EmptySet
  <1>10. Cardinality(Tokens) + m - 0 = Cardinality(Tokens) + m
    BY <1>9
  <1> QED
    BY <1>5, <1>6, <1>7, <1>8, <1>9, <1>10, Zenon

(* The table that is being filled is neat: no writer has it.                 *)
LEMMA NewIsNeat ==
  ASSUME ControlLand, Content, NEW t \in Threads, NEW g \in 1 .. Len(tables), g = table + 1
  PROVE  Neat(tables[g]) /\ tables[g] \in TableSet
  <1>1. tables[g] \in TableSet /\ table \in Nat
    BY Now DEF Typed
  <1>2. ASSUME NEW a \in 0 .. tables[g].len - 1
        PROVE  /\ Placed(tables[g].chain[a], a, tables[g].len)
               /\ \A j \in 1 .. Len(tables[g].chain[a]) : Whole(tables[g].chain[a][j])
    <2>1. ChainOK(g, a)
      BY DEF Content, ChainsOK
    <2>2. ASSUME NEW j, Mid(g, a, j) PROVE FALSE
      <3>1. PICK u \in Threads : local[u].at \in {"tagged", "untagged"} /\ local[u].tab = g
        BY <2>2 DEF Mid
      <3>2. local[u].tab \in Nat /\ local[u].tab <= table
        BY <3>1, Now, OnTableIs DEF OnKey, Writing
      <3> QED
        BY <1>1, <3>1, <3>2
    <2> QED
      BY <2>1, <2>2 DEF ChainOK
  <1> QED
    BY <1>1, <1>2 DEF Neat

(* The chain that is copied: whole, of keys that the new table lacks.        *)
LEMMA CopiedChain ==
  ASSUME ControlLand, Content, NEW t \in Threads, NEW b \in Nat, NEW c \in Seq(SlotSet),
         NEW g \in 1 .. Len(tables), NEW l, Copying(t, b, c, g, l)
  PROVE  /\ \A j \in 1 .. Len(c) : Whole(c[j])
         /\ Placed(c, b, tables[table].len) /\ ~ Done(b)
         /\ Apart(c, tables[g])
  <1>1. /\ Typed /\ Hashed /\ ChainsOK /\ table \in 1 .. Len(tables) /\ CopyOK
    BY Now DEF Typed, Content, Hashed
  <1>2. ChainOK(table, b) /\ c = tables[table].chain[b]
    BY <1>1 DEF ChainsOK, Copying
  <1>3. ~ (tables[table].lock[b] \in Threads)
    BY MapSizes DEF Copying
  <1>4. (\A j \in 1 .. Len(c) : Whole(c[j])) /\ Placed(c, b, tables[table].len)
    BY <1>2, <1>3 DEF ChainOK, Mid
  <1>5. ~ Done(b)
    BY DEF Copying, Done
  <1>6. ASSUME NEW x \in 1 .. Len(c), NEW e \in Entries, c[x].entry # Nil, HasEntry(tables[g], e),
               e.key = c[x].entry.key
        PROVE  FALSE
    <2>1. PICK k \in Keys : k = e.key
      BY DEF Entries
    <2>2. Neat(tables[g]) /\ tables[g] \in TableSet
      BY NewIsNeat DEF Copying
    <2>3. PICK d : d = tables[g].chain[hash[k].h1 % tables[g].len]
      OBVIOUS
    <2>4. SlotsOf(d, k) # {}
      <3>1. PICK tb \in TableSet : tb = tables[g] /\ Neat(tb) /\ HasEntry(tb, e)
        BY <1>6, <2>2, Zenon
      <3>2. d = tb.chain[hash[k].h1 % tb.len]
        BY <2>3, <3>1, Zenon
      <3>3. SlotsOf(d, k) # {} <=> \E f \in Entries : f.key = k /\ HasEntry(tb, f)
        BY <1>1, <2>1, <3>1, <3>2, NeatValue
      <3> QED
        BY <2>1, <3>1, <3>3, Zenon
    <2>5. Slots(g, k) = SlotsOf(d, k)
      BY <1>1, <2>3, SlotsOfIs DEF Chain, Home
    <2>6. k \in Held(g)
      BY <2>4, <2>5 DEF Held
    <2>7. k \in Held(table) /\ Done(Home(table, k))
      BY <1>1, <2>6 DEF CopyOK, Copying
    <2>8. Home(table, k) = b
      BY <1>4, <1>6, <2>1 DEF Placed, Home
    <2> QED
      BY <1>5, <2>7, <2>8
  <1>7. Apart(c, tables[g])
    BY <1>4, <1>6 DEF Apart, Placed
  <1> QED
    BY <1>4, <1>5, <1>7

(* What a bucket's copy has done. *)
LEMMA CopyDone ==
  ASSUME ControlLand, Content, NEW t \in Threads, NEW b \in Nat, NEW c \in Seq(SlotSet),
         NEW g \in 1 .. Len(tables), NEW l, Copying(t, b, c, g, l),
         NEW a \in 0 .. tables[table].len - 1
  PROVE  Done(a)' <=> Done(a) \/ a = b
  <1>1. /\ Typed /\ RangeOK /\ table \in Nat /\ table > 0
    BY Now DEF Control
  <1>2. /\ local'[t] = l /\ \A u \in Threads : u # t => local'[u] = local[u]
    BY <1>1 DEF Typed, Copying
  <1>3. Base(table)' = Base(table) /\ resizeIdx' = resizeIdx
    <2>1. /\ tables'[table] = tables[table] /\ tables'[table + 1].len = tables[table + 1].len
          /\ table' = table /\ resizeIdx' = resizeIdx
      BY <1>1 DEF Copying, SameBut
    <2> QED
      BY <2>1, Zenon DEF Base
  <1>4. /\ b \in local[t].range /\ l.range = local[t].range \ {b}
    BY DEF Copying
  <1>5. b % Base(table) < resizeIdx /\ \A u \in Threads : b \in local[u].range => u = t
    BY <1>1, <1>4 DEF RangeOK
  <1>6. (\A u \in Threads : a \notin local'[u].range)
           <=> (\A u \in Threads : a \notin local[u].range) \/ a = b
    <2>1. CASE a = b
      BY <1>2, <1>4, <1>5, <2>1
    <2>2. CASE a # b
      BY <1>2, <1>4, <2>2
    <2> QED
      BY <2>1, <2>2
  <1>7. Done(a)' <=> a % Base(table) < resizeIdx /\ \A u \in Threads : a \notin local'[u].range
    BY <1>3 DEF Done
  <1>8. Done(a) <=> a % Base(table) < resizeIdx /\ \A u \in Threads : a \notin local[u].range
    BY DEF Done
  <1> QED
    BY <1>5, <1>6, <1>7, <1>8

(* The slots and the value of a key in a table that a step has made neat.    *)
LEMMA NeatKey ==
  ASSUME Hashed, hash' = hash, NEW tb \in TableSet, Neat(tb), NEW g, tables'[g] = tb,
         NEW k \in Keys
  PROVE  /\ Slots(g, k)' # {} <=> \E e \in Entries : e.key = k /\ HasEntry(tb, e)
         /\ \A e \in Entries : e.key = k /\ HasEntry(tb, e) => Value(g, k)' = e.value
  <1>1. PICK c : c = tb.chain[hash[k].h1 % tb.len]
    OBVIOUS
  <1>2. /\ SlotsOf(c, k) # {} <=> \E e \in Entries : e.key = k /\ HasEntry(tb, e)
        /\ \A e \in Entries : e.key = k /\ HasEntry(tb, e) => c[Min(SlotsOf(c, k))].entry = e
        /\ c \in Seq(SlotSet)
    BY <1>1, NeatValue
  <1>3. Chain(g, k)' = c
    BY <1>1 DEF Chain, Home
  <1>4. Slots(g, k)' = SlotsOf(c, k)
    <2>1. DOMAIN c = 1 .. Len(c)
      BY <1>2
    <2> QED
      BY <1>3, <2>1 DEF Slots, Occupied, SlotsOf
  <1>5. ASSUME NEW e \in Entries, e.key = k, HasEntry(tb, e) PROVE Value(g, k)' = e.value
    <2>1. SlotsOf(c, k) # {} /\ c[Min(SlotsOf(c, k))].entry = e
      BY <1>2, <1>5
    <2> QED
      BY <1>3, <1>4, <2>1 DEF Value
  <1> QED
    BY <1>2, <1>4, <1>5

LEMMA NeatNow ==
  ASSUME Typed, NEW g \in 1 .. Len(tables), Neat(tables[g]), NEW k \in Keys
  PROVE  /\ Slots(g, k) # {} <=> \E e \in Entries : e.key = k /\ HasEntry(tables[g], e)
         /\ \A e \in Entries : e.key = k /\ HasEntry(tables[g], e) => Value(g, k) = e.value
  <1>1. PICK tb \in TableSet : tb = tables[g]
    BY DEF Typed
  <1>2. PICK c : c = tb.chain[hash[k].h1 % tb.len]
    OBVIOUS
  <1>3. /\ SlotsOf(c, k) # {} <=> \E e \in Entries : e.key = k /\ HasEntry(tb, e)
        /\ \A e \in Entries : e.key = k /\ HasEntry(tb, e) => c[Min(SlotsOf(c, k))].entry = e
        /\ c \in Seq(SlotSet)
    <2>1. Hashed
      BY DEF Hashed, Typed
    <2>2. Neat(tb)
      BY <1>1
    <2> QED
      BY <1>2, <2>1, <2>2, NeatValue
  <1>4. Chain(g, k) = c
    BY <1>1, <1>2 DEF Chain, Home
  <1>5. Slots(g, k) = SlotsOf(c, k)
    BY <1>4, SlotsOfIs
  <1>6. ASSUME NEW e \in Entries, e.key = k, HasEntry(tb, e) PROVE Value(g, k) = e.value
    <2>1. SlotsOf(c, k) # {} /\ c[Min(SlotsOf(c, k))].entry = e
      BY <1>3, <1>6
    <2> QED
      BY <1>4, <1>5, <2>1 DEF Value
  <1> QED
    BY <1>1, <1>3, <1>5, <1>6

(* The keys of a chain. *)
KeysOf(c) == {c[x].entry.key : x \in Occupied(c)}

(* The keys of the chain that is copied are those of its bucket.             *)
LEMMA ChainKeys ==
  ASSUME ControlLand, Content, NEW t \in Threads, NEW b \in Nat, NEW c \in Seq(SlotSet),
         NEW g \in 1 .. Len(tables), NEW l, Copying(t, b, c, g, l), NEW k \in Keys
  PROVE  /\ k \in KeysOf(c) <=> k \in Held(table) /\ Home(table, k) = b
         /\ k \in KeysOf(c) => \E x \in Occupied(c) :
               /\ c[x].entry \in Entries /\ c[x].entry.key = k
               /\ Value(table, k) = c[x].entry.value
  <1>1. /\ Typed /\ ChainsOK /\ table \in 1 .. Len(tables)
    BY Now DEF Typed, Content
  <1>2. (\A j \in 1 .. Len(c) : Whole(c[j])) /\ Placed(c, b, tables[table].len)
    BY CopiedChain
  <1>3. c = tables[table].chain[b] /\ Occupied(c) \subseteq 1 .. Len(c)
        /\ \A x \in 1 .. Len(c) : c[x] \in SlotSet
    BY OccupiedIs DEF Copying
  <1>4. PICK n \in 1 .. Len(tables) : n = table
    BY <1>1
  <1>5. ASSUME NEW x \in Occupied(c), c[x].entry.key = k
        PROVE  /\ Home(table, k) = b /\ k \in Held(table)
               /\ c[x].entry \in Entries /\ Value(table, k) = c[x].entry.value
    <2>1. x \in 1 .. Len(c) /\ c[x].entry # Nil /\ c[x].entry \in Entries
      BY <1>3 DEF Occupied, SlotSet
    <2>2. Home(n, k) = b
      BY <1>2, <1>4, <1>5, <2>1 DEF Placed, Home
    <2>3. Chain(n, k) = c
      BY <1>3, <1>4, <2>2 DEF Chain
    <2>4. c[x].tag = hash[k].h2
      BY <1>2, <1>5, <2>1 DEF Placed, Whole
    <2>5. x \in Slots(n, k)
      BY <1>5, <2>3, <2>4 DEF Slots
    <2>6. Value(n, k) = c[x].entry.value
      BY <1>1, <2>3, <2>5, ValueIs
    <2> QED
      BY <1>4, <2>1, <2>2, <2>5, <2>6 DEF Held
  <1>6. ASSUME k \in Held(table), Home(table, k) = b PROVE k \in KeysOf(c)
    <2>1. PICK x : x \in Slots(n, k)
      BY <1>4, <1>6 DEF Held
    <2>2. Chain(n, k) = c
      BY <1>3, <1>4, <1>6 DEF Chain
    <2>3. x \in Occupied(c) /\ c[x].entry.key = k
      BY <2>1, <2>2 DEF Slots
    <2> QED
      BY <2>3 DEF KeysOf
  <1> QED
    BY <1>5, <1>6 DEF KeysOf

(* The keys of the new table after the copy, and their values. *)
LEMMA CopiedKeys ==
  ASSUME ControlLand, Content, NEW t \in Threads, NEW b \in Nat, NEW c \in Seq(SlotSet),
         NEW g \in 1 .. Len(tables), NEW l, Copying(t, b, c, g, l), NEW k \in Keys
  PROVE  /\ k \in Held(g)' <=> k \in Held(g) \/ k \in KeysOf(c)
         /\ k \in Held(g) => Value(g, k)' = Value(g, k)
         /\ k \in KeysOf(c) => Value(g, k)' = Value(table, k)
  <1>1. /\ Typed /\ Hashed /\ hash' = hash
    BY Now DEF Typed, Hashed, Copying
  <1>2. PICK tb \in TableSet : tb = tables[g] /\ Neat(tb)
    BY NewIsNeat DEF Copying
  <1>3. PICK nt : nt = tables'[g] /\ nt = Copied(c, tb)
    BY <1>2 DEF Copying
  <1>4. nt \in TableSet /\ HasFirst(c, tb, nt, Len(c))
    <2>1. Apart(c, tb)
      BY <1>2, CopiedChain
    <2> QED
      BY <1>1, <1>2, <1>3, <2>1, CopiedNeat
  <1>5. /\ Slots(g, k)' # {} <=> \E e \in Entries : e.key = k /\ HasEntry(nt, e)
        /\ \A e \in Entries : e.key = k /\ HasEntry(nt, e) => Value(g, k)' = e.value
    <2>1. Neat(nt) /\ nt \in TableSet
      BY <1>4 DEF HasFirst
    <2>2. tables'[g] = nt
      BY <1>3
    <2> QED
      BY <1>1, <2>1, <2>2, NeatKey
  <1>6. /\ Slots(g, k) # {} <=> \E e \in Entries : e.key = k /\ HasEntry(tb, e)
        /\ \A e \in Entries : e.key = k /\ HasEntry(tb, e) => Value(g, k) = e.value
    BY <1>1, <1>2, NeatNow
  <1>7. \A e \in Entries : HasEntry(nt, e) <=> HasEntry(tb, e) \/ \E x \in 1 .. Len(c) : c[x].entry = e
    BY <1>4 DEF HasFirst
  <1>8. \A x \in 1 .. Len(c) : c[x] \in SlotSet
    OBVIOUS
  <1>9. \A e \in Entries : e # Nil
    BY MapSizes DEF Entries
  <1>10. k \in KeysOf(c) <=> \E x \in 1 .. Len(c) : c[x].entry \in Entries /\ c[x].entry.key = k
    <2>1. \A x : x \in Occupied(c) <=> x \in 1 .. Len(c) /\ c[x].entry # Nil
      BY DEF Occupied
    <2> QED
      BY <1>8, <1>9, <2>1, Zenon DEF KeysOf, SlotSet
  <1>11. k \in Held(g)' <=> Slots(g, k)' # {}
    BY DEF Held
  <1>12. k \in Held(g) <=> Slots(g, k) # {}
    BY DEF Held
  <1>13. k \in Held(g)' <=> k \in Held(g) \/ k \in KeysOf(c)
    BY <1>5, <1>6, <1>7, <1>10, <1>11, <1>12
  <1>14. k \in Held(g) => Value(g, k)' = Value(g, k)
    BY <1>5, <1>6, <1>7, <1>12
  <1>15. ASSUME k \in KeysOf(c) PROVE Value(g, k)' = Value(table, k)
    <2>1. PICK x \in Occupied(c) : /\ c[x].entry \in Entries /\ c[x].entry.key = k
                                   /\ Value(table, k) = c[x].entry.value
      BY <1>15, ChainKeys
    <2>2. x \in 1 .. Len(c)
      BY OccupiedIs
    <2> QED
      BY <1>5, <1>7, <2>1, <2>2
  <1> QED
    BY <1>13, <1>14, <1>15

(* The new table after the copy is in order. *)
LEMMA CopyChains ==
  ASSUME ControlLand, Content, NEW t \in Threads, NEW b \in Nat, NEW c \in Seq(SlotSet),
         NEW g \in 1 .. Len(tables), NEW l, Copying(t, b, c, g, l)
  PROVE  ChainsOK'
  <1>1. /\ Typed /\ Hashed /\ hash' = hash /\ table \in Nat /\ table > 0
        /\ g = table + 1 /\ Len(tables) = g /\ Len(tables') = g
        /\ \A m \in 1 .. table : tables'[m] = tables[m]
        /\ local[t].at \notin {"tagged", "untagged"}
    BY Now DEF Typed, Hashed, Copying
  <1>2. \A u \in Threads : u # t => local'[u] = local[u]
    BY <1>1 DEF Copying, Typed
  <1>3. PICK tb \in TableSet : tb = tables[g] /\ Neat(tb)
    BY NewIsNeat DEF Copying
  <1>4. PICK nt : nt = tables'[g] /\ nt = Copied(c, tb)
    BY <1>3 DEF Copying
  <1>5. nt \in TableSet /\ Neat(nt)
    <2>1. Apart(c, tb)
      BY <1>3, CopiedChain
    <2>2. nt \in TableSet /\ HasFirst(c, tb, nt, Len(c))
      BY <1>1, <1>3, <1>4, <2>1, CopiedNeat
    <2> QED
      BY <2>2 DEF HasFirst
  <1>6. ASSUME NEW a \in 0 .. nt.len - 1 PROVE ChainOK(g, a)'
    <2>1. Placed(nt.chain[a], a, nt.len) /\ \A j \in 1 .. Len(nt.chain[a]) : Whole(nt.chain[a][j])
      BY <1>5 DEF Neat
    <2>2. \A d, m : Placed(d, a, m)' <=> Placed(d, a, m)
      BY <1>1 DEF Placed
    <2>3. \A x : Whole(x)' <=> Whole(x)
      BY DEF Whole
    <2> QED
      BY <1>4, <2>1, <2>2, <2>3 DEF ChainOK
  <1>7. ASSUME NEW n \in 1 .. Len(tables'), NEW a \in 0 .. tables'[n].len - 1
        PROVE  ChainOK(n, a)'
    <2>1. CASE n \in 1 .. table
      <3>1. tables'[n] = tables[n] /\ a \in 0 .. tables[n].len - 1 /\ n \in 1 .. Len(tables)
        BY <1>1, <2>1
      <3> QED
        BY <1>1, <1>2, <3>1, KeptChain
    <2>2. n \in 1 .. table \/ n = g
      BY <1>1
    <2> QED
      BY <1>4, <1>6, <2>1, <2>2, Zenon
  <1> QED
    BY <1>7 DEF ChainsOK

(* What is copied is counted. *)
LEMMA CopyCopies ==
  ASSUME ControlLand, Content, NEW t \in Threads, NEW b \in Nat, NEW c \in Seq(SlotSet),
         NEW g \in 1 .. Len(tables), NEW l, Copying(t, b, c, g, l)
  PROVE  CopyOK'
  <1>1. /\ Typed /\ table \in 1 .. Len(tables) /\ CopyOK /\ hash' = hash
        /\ g = table + 1 /\ Len(tables) # table /\ nextTable # Nil
        /\ nextTable' = nextTable /\ table' = table
    BY Now DEF Typed, Content, Copying
  <1>2. /\ IsFiniteSet(Held(g)) /\ \A k \in Held(g) : Value(g, k) = Value(table, k)
        /\ Held(g) = {k \in Held(table) : Done(Home(table, k))}
        /\ Cardinality(Held(g)) = tables[g].size + Cardinality(Tokens)
    BY <1>1 DEF CopyOK
  <1>3. PICK n \in 1 .. Len(tables) : n = table
    BY <1>1
  <1>4. /\ tables'[n] = tables[n]
        /\ \A k \in Keys : /\ Slots(n, k)' = Slots(n, k) /\ Value(n, k)' = Value(n, k)
                           /\ Home(n, k)' = Home(n, k)
    <2>1. table \in 1 .. table
      BY <1>1
    <2>2. tables'[n] = tables[n]
      BY <1>3, <2>1 DEF Copying
    <2> QED
      BY <1>1, <2>2, SameAt
  <1>5. Held(n)' = Held(n)
    BY <1>4 DEF Held
  <1>6. \A k \in Keys :
           /\ k \in Held(g)' <=> k \in Held(g) \/ k \in KeysOf(c)
           /\ k \in Held(g) => Value(g, k)' = Value(g, k)
           /\ k \in KeysOf(c) => Value(g, k)' = Value(table, k)
    BY CopiedKeys
  <1>7. \A k \in Keys : k \in KeysOf(c) <=> k \in Held(table) /\ Home(table, k) = b
    BY ChainKeys
  <1>8. \A a \in 0 .. tables[table].len - 1 : Done(a)' <=> Done(a) \/ a = b
    BY CopyDone
  <1>9. \A k \in Keys : Home(n, k) \in 0 .. tables[n].len - 1
    BY <1>1, HomeIs
  <1>10. Held(g)' = {k \in Held(n) : Done(Home(n, k))}'
    <2>1. ASSUME NEW k \in Keys
          PROVE  k \in Held(g)' <=> k \in Held(n)' /\ Done(Home(n, k))'
      <3>1. PICK a \in 0 .. tables[n].len - 1 : a = Home(n, k)
        BY <1>9
      <3>2. Done(Home(n, k))' <=> Done(a)'
        BY <1>4, <3>1
      <3>3. Done(a)' <=> Done(a) \/ a = b
        BY <1>3, <1>8
      <3>4. Done(a) <=> Done(Home(table, k))
        BY <1>3, <3>1
      <3> QED
        BY <1>2, <1>3, <1>5, <1>6, <1>7, <3>1, <3>2, <3>3, <3>4
    <2>2. \A k : k \in Held(g)' => k \in Keys
      BY DEF Held
    <2>3. \A k : k \in Held(n)' => k \in Keys
      BY DEF Held
    <2> QED
      BY <2>1, <2>2, <2>3
  <1>11. ASSUME NEW k \in Keys, k \in Held(g)' PROVE Value(g, k)' = Value(n, k)'
    <2>1. CASE k \in Held(g)
      BY <1>2, <1>3, <1>4, <1>6, <2>1
    <2>2. CASE k \in KeysOf(c)
      BY <1>3, <1>4, <1>6, <2>2
    <2> QED
      BY <1>6, <1>11, <2>1, <2>2
  <1>12. /\ IsFiniteSet(KeysOf(c)) /\ Cardinality(KeysOf(c)) = Cardinality(Occupied(c))
         /\ Cardinality(Occupied(c)) \in Nat
    <2>1. Apart(c, tables[g])
      BY CopiedChain
    <2>2. \A x, y \in 1 .. Len(c) :
             c[x].entry # Nil /\ c[y].entry # Nil /\ c[x].entry.key = c[y].entry.key => x = y
      BY <2>1 DEF Apart
    <2>3. Cardinality(Occupied(c)) \in Nat
      BY OccupiedIs
    <2> QED
      BY <2>2, <2>3, KeysCount, Zenon DEF KeysOf
  <1>13. Held(g)' = Held(g) \cup KeysOf(c) /\ Held(g) \cap KeysOf(c) = {}
    <2>1. \A k : k \in Held(g)' => k \in Keys
      BY DEF Held
    <2>2. \A k : k \in Held(g) => k \in Keys
      BY DEF Held
    <2>3. ASSUME NEW k, k \in KeysOf(c) PROVE k \in Keys
      <3>1. PICK x \in Occupied(c) : k = c[x].entry.key
        BY <2>3 DEF KeysOf
      <3>2. x \in 1 .. Len(c) /\ c[x].entry # Nil
        BY OccupiedIs DEF Occupied
      <3>3. c[x].entry \in Entries
        <4>1. c[x] \in SlotSet
          BY <3>2
        <4> QED
          BY <3>2, <4>1 DEF SlotSet
      <3> QED
        BY <3>1, <3>3 DEF Entries
    <2>4. ~ Done(b)
      BY CopiedChain
    <2>5. \A k \in Keys : ~ (k \in Held(g) /\ k \in KeysOf(c))
      BY <1>2, <1>7, <2>4
    <2>6. Held(g)' = Held(g) \cup KeysOf(c)
      BY <1>6, <2>1, <2>2, <2>3
    <2>7. Held(g) \cap KeysOf(c) = {}
      BY <2>2, <2>5
    <2> QED
      BY <2>6, <2>7
  <1>14. /\ IsFiniteSet(Tokens)' /\ Cardinality(Tokens) \in Nat
         /\ Cardinality(Tokens') = Cardinality(Tokens) + Cardinality(Occupied(c))
    <2>1. PICK m \in Nat : m = Cardinality(Occupied(c))
      BY <1>12
    <2>2. local' = [local EXCEPT ![t] = l] /\ l.copied = local[t].copied + m
      BY <2>1 DEF Copying
    <2> QED
      BY <2>1, <2>2, CopiedTokens, Zenon
  <1>15. /\ IsFiniteSet(Held(g)')
         /\ Cardinality(Held(g)') = Cardinality(Held(g)) + Cardinality(KeysOf(c))
    <2>1. /\ IsFiniteSet(Held(g) \cup KeysOf(c))
          /\ Cardinality(Held(g) \cup KeysOf(c))
                = Cardinality(Held(g)) + Cardinality(KeysOf(c)) - Cardinality(Held(g) \cap KeysOf(c))
      BY <1>2, <1>12, FS_Union
    <2>2. Cardinality(Held(g)) \in Nat /\ Cardinality(KeysOf(c)) \in Nat /\ Cardinality({}) = 0
      BY <1>2, <1>12, FS_CardinalityType, FS_EmptySet
    <2>3. Cardinality(Held(g)) + Cardinality(KeysOf(c)) - 0
             = Cardinality(Held(g)) + Cardinality(KeysOf(c))
      BY <2>2
    <2> QED
      BY <1>13, <2>1, <2>2, <2>3, Zenon
  <1>16. Cardinality(Held(g)') = tables'[g].size + Cardinality(Tokens')
    <2>1. tables'[g].size = tables[g].size
      BY DEF Copying, SameBut
    <2>2. tables[g].size \in Int
      <3>1. tables[g] \in TableSet
        BY <1>1 DEF Typed
      <3> QED
        BY <3>1, TableIs
    <2>3. (tables[g].size + Cardinality(Tokens)) + Cardinality(Occupied(c))
             = tables[g].size + (Cardinality(Tokens) + Cardinality(Occupied(c)))
      BY <1>12, <1>14, <2>2
    <2> QED
      BY <1>2, <1>12, <1>14, <1>15, <2>1, <2>3
  <1>17. table' + 1 = g /\ n = table'
    BY <1>1, <1>3
  <1>18. IF nextTable' = Nil THEN Held(table + 1)' = {}
         ELSE Held(table + 1)' = {k \in Held(table) : Done(Home(table, k))}'
    BY <1>1, <1>10, <1>17
  <1>19. \A k \in Held(table + 1)' : Value(table + 1, k)' = Value(table, k)'
    <2>1. \A k : k \in Held(g)' => k \in Keys
      BY DEF Held
    <2> QED
      BY <1>11, <1>17, <2>1, Zenon
  <1>20. /\ IsFiniteSet(Held(table + 1)')
         /\ Cardinality(Held(table + 1)') = tables'[table' + 1].size + Cardinality(Tokens')
    BY <1>15, <1>16, <1>17
  <1> QED
    BY <1>14, <1>18, <1>19, <1>20 DEF CopyOK

LEMMA CopyContent ==
  ASSUME ControlLand, Content, ControlLand', NEW t \in Threads, Copy(t)
  PROVE  Content'
  <1>1. PICK b \in Nat, c \in Seq(SlotSet), g \in 1 .. Len(tables) :
            \E l : Copying(t, b, c, g, l)
    BY CopyIs
  <1>2. PICK l : Copying(t, b, c, g, l)
    BY <1>1
  <1>3. /\ Typed /\ hash' = hash /\ table' = table /\ table \in 1 .. table /\ seen' = seen
        /\ untrue' = {} /\ \A m \in 1 .. table : tables'[m] = tables[m]
        /\ l.at = "copy" /\ l.key = local[t].key /\ l.tab = local[t].tab
        /\ l.delta = local[t].delta /\ local[t].tab = table
    BY <1>2, Now DEF Copying
  <1>4. /\ local'[t] = l /\ \A u \in Threads : u # t => local'[u] = local[u]
    BY <1>2, <1>3 DEF Copying, Typed
  <1>5. ChainsOK' /\ CopyOK'
    BY <1>2, CopyChains, CopyCopies
  <1>6. PICK n : n = table
    OBVIOUS
  <1>7. /\ tables'[n] = tables[n]
        /\ \A k : Slots(n, k)' = Slots(n, k) /\ Value(n, k)' = Value(n, k)
    BY <1>3, <1>6, SameAt
  <1>8. CountOK'
    <2>1. Held(n)' = Held(n)
      BY <1>7 DEF Held
    <2>2. Adding(1)' = Adding(1) /\ Adding(-1)' = Adding(-1)
      <3>1. \A u \in Threads : local'[u].tab = local[u].tab /\ local'[u].delta = local[u].delta
        BY <1>3, <1>4
      <3> QED
        BY <1>3, <3>1 DEF Adding
    <2>3. Held(table)' = Held(table) /\ tables'[table].size = tables[table].size
      BY <1>3, <1>6, <1>7, <2>1
    <2> QED
      BY <1>3, <2>2, <2>3 DEF Content, CountOK
  <1>9. ASSUME NEW u \in Threads PROVE SlotOK(u)' /\ ReaderOK(u)' /\ SeenOK(u)'
    <2>1. PICK k : k = local[u].key
      OBVIOUS
    <2>2. CASE u = t
      <3>1. SlotOK(t)' /\ ReaderOK(t)'
        BY <1>3, <1>4 DEF SlotOK, ReaderOK, ReaderOf
      <3>2. k # Nil => Value(n, k) \in seen[t]
        BY <1>3, <1>6, <2>1, <2>2 DEF Content, SeenOK
      <3>3. k # Nil => Value(n, k)' \in seen'[t]
        BY <1>3, <1>7, <3>2
      <3>4. local'[t].key = k /\ local'[t].tab = n /\ table' = n
        BY <1>3, <1>4, <1>6, <2>1, <2>2
      <3> QED
        BY <2>2, <3>1, <3>3, <3>4 DEF SeenOK
    <2>3. CASE u # t
      <3>1. local'[u] = local[u] /\ seen' = seen
        BY <1>3, <1>4, <2>3
      <3>2. /\ SlotOK(u)' /\ ReaderOK(u)'
            /\ local[u].key # Nil =>
                  /\ Value(local[u].tab, local[u].key)' \in seen'[u]
                  /\ Value(table, local[u].key) \in seen'[u]
        BY <1>3, <3>1, OthersKept
      <3>3. k # Nil => Value(n, k)' \in seen'[u]
        BY <1>6, <1>7, <2>1, <3>2
      <3>4. local'[u].key = k /\ table' = n
        BY <1>3, <1>6, <2>1, <3>1
      <3> QED
        BY <2>1, <3>1, <3>2, <3>3, <3>4 DEF SeenOK
    <2> QED
      BY <2>2, <2>3
  <1> QED
    BY <1>3, <1>5, <1>8, <1>9 DEF Content

-----------------------------------------------------------------------------
(* The content at the beginning, in every step, and what follows from it     *)

LEMMA NewIsEmpty ==
  ASSUME NEW m \in Nat, m > 0
  PROVE  /\ Neat(NewTable(m)) /\ \A e \in Entries : ~ HasEntry(NewTable(m), e)
         /\ NewTable(m) \in TableSet
  <1>1. PICK nt : nt = NewTable(m)
    OBVIOUS
  <1>2. /\ nt \in TableSet /\ nt.len = m /\ \A b \in 0 .. m - 1 : nt.chain[b] = NewBucket
        /\ Len(NewBucket) = BucketSize /\ \A j \in 1 .. BucketSize : NewBucket[j] = Empty
    BY <1>1, NewTableIs
  <1>3. Empty.entry = Nil /\ Empty.tag = 0
    BY DEF Empty
  <1>4. \A b : Placed(NewBucket, b, m)
    <2>1. 1 \in Nat /\ 1 > 0 /\ Len(NewBucket) = 1 * BucketSize
      BY <1>2, MapSizes
    <2> QED
      BY <1>2, <1>3, <2>1 DEF Placed
  <1>5. Neat(nt)
    BY <1>2, <1>3, <1>4 DEF Neat, Whole
  <1>6. ASSUME NEW e \in Entries, HasEntry(nt, e) PROVE FALSE
    <2>1. e # Nil
      BY MapSizes DEF Entries
    <2> QED
      BY <1>2, <1>3, <1>6, <2>1 DEF HasEntry
  <1> QED
    BY <1>1, <1>2, <1>5, <1>6

(* The first table is neat, and its counter is the number of its keys.       *)
LEMMA FirstTable ==
  ASSUME Hashed, NEW p \in Prefill
  PROVE  /\ Filled(p) \in TableSet /\ Neat(Filled(p))
         /\ \E K \in SUBSET Keys :
               /\ IsFiniteSet(K) /\ Cardinality(K) = Filled(p).size
               /\ \A k \in Keys :
                     k \in K <=> \E e \in Entries : e.key = k /\ HasEntry(Filled(p), e)
  <1>1. PICK c \in Seq(SlotSet) :
           /\ Len(c) = Len(p.keys)
           /\ \A i \in 1 .. Len(c) :
                 c[i] = [tag |-> 1, entry |-> [key |-> p.keys[i], value |-> 0]]
           /\ Filled(p) = [Copied(c, NewTable(p.len)) EXCEPT !.size = Len(p.keys)]
    BY FilledIs DEF Hashed
  <1>2. Filled(p) \in TableSet /\ Filled(p).size = Len(p.keys)
    BY FilledIs DEF Hashed
  <1>3. /\ p.len \in Nat /\ p.len > 0 /\ p.keys \in Seq(Keys) /\ Len(p.keys) \in Nat
        /\ \A x, y \in 1 .. Len(p.keys) : p.keys[x] = p.keys[y] => x = y
        /\ \A x \in 1 .. Len(p.keys) : p.keys[x] \in Keys
    <2>1. p.len \in Nat \ {0} /\ p.keys \in Seq(Keys) /\ IsInjective(p.keys)
      BY MapAssumption
    <2>2. DOMAIN p.keys = 1 .. Len(p.keys)
      BY <2>1
    <2> QED
      BY <2>1, <2>2 DEF IsInjective
  <1>4. PICK new \in TableSet : new = NewTable(p.len) /\ Neat(new)
                                /\ \A e \in Entries : ~ HasEntry(new, e)
    BY <1>3, NewIsEmpty
  <1>5. /\ \A x \in 1 .. Len(c) : c[x].entry = [key |-> p.keys[x], value |-> 0]
        /\ \A x \in 1 .. Len(c) : c[x].entry.key = p.keys[x]
        /\ \A x \in 1 .. Len(c) : c[x].entry \in Entries
        /\ \A x \in 1 .. Len(c) : c[x].entry # Nil
    <2>1. ASSUME NEW x \in 1 .. Len(c)
          PROVE  /\ c[x].entry = [key |-> p.keys[x], value |-> 0] /\ c[x].entry.key = p.keys[x]
                 /\ c[x].entry \in Entries /\ c[x].entry # Nil
      <3>1. c[x] = [tag |-> 1, entry |-> [key |-> p.keys[x], value |-> 0]]
        BY <1>1
      <3>2. c[x].entry = [key |-> p.keys[x], value |-> 0]
        BY <3>1
      <3>3. p.keys[x] \in Keys
        BY <1>1, <1>3
      <3>4. c[x].entry \in [key : Keys, value : Nat]
        BY <3>2, <3>3
      <3> QED
        BY <3>2, <3>4, MapSizes DEF Entries
    <2> QED
      BY <2>1, Zenon
  <1>6. Apart(c, new)
    <2>1. \A x, y \in 1 .. Len(c) :
             c[x].entry # Nil /\ c[y].entry # Nil /\ c[x].entry.key = c[y].entry.key => x = y
      BY <1>1, <1>3, <1>5
    <2> QED
      BY <1>4, <2>1 DEF Apart
  <1>7. PICK cp \in TableSet : cp = Copied(c, new) /\ HasFirst(c, new, cp, Len(c))
    BY <1>4, <1>6, CopiedNeat
  <1>8. Filled(p) = [cp EXCEPT !.size = Len(p.keys)]
    BY <1>1, <1>4, <1>7
  <1>9. Filled(p).len = cp.len /\ Filled(p).chain = cp.chain
    <2>1. cp \in TablesOf(cp.len)
      BY TableIs
    <2> QED
      BY <1>8, <2>1 DEF TablesOf
  <1>10. Neat(Filled(p)) /\ \A e : HasEntry(Filled(p), e) <=> HasEntry(cp, e)
    <2>1. Neat(cp)
      BY <1>7 DEF HasFirst
    <2>2. Neat(Filled(p)) <=> Neat(cp)
      BY <1>9 DEF Neat
    <2>3. ASSUME NEW e PROVE HasEntry(Filled(p), e) <=> HasEntry(cp, e)
      BY <1>9 DEF HasEntry
    <2> QED
      BY <2>1, <2>2, <2>3
  <1> DEFINE K == KeysOf(c)
  <1>11. Occupied(c) = 1 .. Len(c)
    <2>1. DOMAIN c = 1 .. Len(c)
      OBVIOUS
    <2> QED
      BY <1>5, <2>1 DEF Occupied
  <1>12. IsFiniteSet(K) /\ Cardinality(K) = Len(p.keys)
    <2>1. \A x, y \in 1 .. Len(c) :
             c[x].entry # Nil /\ c[y].entry # Nil /\ c[x].entry.key = c[y].entry.key => x = y
      BY <1>6 DEF Apart
    <2>2. IsFiniteSet(K) /\ Cardinality(K) = Cardinality(Occupied(c))
      BY <2>1, KeysCount DEF KeysOf
    <2>3. PICK n \in Nat : n = Len(c)
      OBVIOUS
    <2>4. Cardinality(1 .. n) = IF 1 > n THEN 0 ELSE n - 1 + 1
      BY FS_Interval
    <2>5. Cardinality(1 .. n) = n
      BY <2>4
    <2> QED
      BY <1>1, <1>11, <2>2, <2>3, <2>5
  <1>13. K \subseteq Keys
    BY <1>1, <1>3, <1>5, <1>11 DEF KeysOf
  <1>14. ASSUME NEW k \in Keys
         PROVE  k \in K <=> \E e \in Entries : e.key = k /\ HasEntry(Filled(p), e)
    <2>1. \A e \in Entries : HasEntry(cp, e) <=> \E x \in 1 .. Len(c) : c[x].entry = e
      BY <1>4, <1>7 DEF HasFirst
    <2>2. k \in K <=> \E x \in 1 .. Len(c) : c[x].entry.key = k
      BY <1>11 DEF KeysOf
    <2> QED
      BY <1>5, <1>10, <2>1, <2>2
  <1> HIDE DEF K
  <1> QED
    BY <1>2, <1>10, <1>12, <1>13, <1>14

LEMMA MapInitContent ==
  ASSUME MapInit
  PROVE  Content
  <1>1. /\ hash \in Hashes /\ table = 1 /\ nextTable = Nil
        /\ local = [t \in Threads |-> Idle] /\ untrue = {}
    BY DEF MapInit
  <1>2. ControlLand /\ Typed /\ Hashed
    BY MapInitControl DEF ControlLand, Control, Typed, Hashed
  <1>3. PICK p \in Prefill : tables = <<Filled(p)>>
    BY DEF MapInit
  <1>4. PICK tb : tb = Filled(p)
    OBVIOUS
  <1>5. /\ Len(tables) = 1 /\ tables[1] = tb
    BY <1>3, <1>4
  <1>6. tb \in TableSet /\ Neat(tb)
    BY <1>2, <1>4, FirstTable
  <1>7. PICK K \in SUBSET Keys :
           /\ IsFiniteSet(K) /\ Cardinality(K) = tb.size
           /\ \A k \in Keys : k \in K <=> \E e \in Entries : e.key = k /\ HasEntry(tb, e)
    BY <1>2, <1>4, FirstTable
  <1>8. Held(1) = K
    <2>1. PICK g \in 1 .. Len(tables) : g = 1
      BY <1>5
    <2>2. Neat(tables[g])
      BY <1>5, <1>6, <2>1
    <2>3. ASSUME NEW k \in Keys PROVE k \in Held(g) <=> k \in K
      <3>1. Slots(g, k) # {} <=> \E e \in Entries : e.key = k /\ HasEntry(tables[g], e)
        BY <1>2, <2>2, NeatNow
      <3> QED
        BY <1>5, <1>7, <2>1, <3>1 DEF Held
    <2> QED
      BY <2>1, <2>3 DEF Held
  <1>9. ChainsOK
    <2>1. ASSUME NEW b \in 0 .. tables[1].len - 1 PROVE ChainOK(1, b)
      BY <1>5, <1>6 DEF ChainOK, Neat
    <2> QED
      BY <1>5, <2>1 DEF ChainsOK
  <1>10. /\ Idle.delta = 0 /\ Idle.copied = 0 /\ Idle.key = Nil /\ Idle.at = "idle"
         /\ \A u \in Threads : local[u] = Idle
    BY <1>1 DEF Idle
  <1>11. CopyOK
    <2>1. Tokens = {}
      BY <1>10 DEF Tokens
    <2> QED
      BY <1>1, <1>5, <2>1, FS_EmptySet DEF CopyOK
  <1>12. CountOK
    <2>1. Adding(1) = {} /\ Adding(-1) = {}
      BY <1>10 DEF Adding
    <2>2. Cardinality({}) = 0
      BY FS_EmptySet
    <2>3. tb.size \in Int /\ tb.size + 0 = tb.size
      BY <1>6, TableIs
    <2>4. Cardinality(K) + 0 = tables[table].size + 0
      BY <1>1, <1>5, <1>7, <2>3
    <2> QED
      BY <1>1, <1>7, <1>8, <2>1, <2>2, <2>4 DEF CountOK
  <1>13. ASSUME NEW u \in Threads PROVE SlotOK(u) /\ ReaderOK(u) /\ SeenOK(u)
    BY <1>10 DEF SlotOK, ReaderOK, ReaderOf, SeenOK
  <1> QED
    BY <1>1, <1>9, <1>11, <1>12, <1>13 DEF Content

LEMMA MapNextContent ==
  ASSUME ControlLand, Content, ControlLand', MapNext
  PROVE  Content'
  <1>1. PICK t \in Threads :
           MapStep(t) \/ Clear(t) \/ \E op \in Ops \ {"clear"}, k \in Keys : Call(t, op, k)
    BY DEF MapNext
  <1>2. CASE \E op \in Ops \ {"clear"}, k \in Keys : Call(t, op, k)
    BY <1>2, CallContent
  <1>3. CASE Clear(t)
    BY <1>3, ClearContent
  <1>4. CASE MapStep(t)
    <2>1. CASE Attempt(t) \/ ReadMeta(t) \/ ReadEntry(t) \/ ReadNext(t)
      BY <2>1, AttemptContent, ReadMetaContent, ReadEntryContent, ReadNextContent
    <2>2. CASE Lock(t) \/ Check(t) \/ Apply(t) \/ StoreEntry(t) \/ ClearEntry(t) \/ Count(t)
      BY <2>2, LockContent, CheckContent, ApplyContent, StoreEntryContent, ClearEntryContent,
         CountContent
    <2>3. CASE Resize(t) \/ Cas(t) \/ Prepare(t) \/ Claim(t) \/ Copy(t) \/ CountCopied(t)
      BY <2>3, ResizeContent, CasContent, PrepareContent, ClaimContent, CopyContent,
         CountCopiedContent
    <2>4. CASE Publish(t) \/ Finish(t) \/ Help(t) \/ Register(t) \/ Leave(t) \/ Wait(t)
      BY <2>4, PublishContent, FinishContent, HelpContent, RegisterContent, LeaveContent,
         WaitContent
    <2> QED
      BY <1>4, <2>1, <2>2, <2>3, <2>4 DEF MapStep
  <1> QED
    BY <1>1, <1>2, <1>3, <1>4

LEMMA MapStutterContent ==
  ASSUME ControlLand, Content, UNCHANGED mapVars
  PROVE  Content'
  <1>1. /\ hash' = hash /\ tables' = tables /\ table' = table /\ nextTable' = nextTable
        /\ resizeIdx' = resizeIdx /\ local' = local /\ seen' = seen /\ untrue' = untrue
    BY DEF mapVars, fixed, resizing
  <1>2. /\ \A n, k : Slots(n, k)' = Slots(n, k) /\ Value(n, k)' = Value(n, k)
                     /\ Home(n, k)' = Home(n, k) /\ Chain(n, k)' = Chain(n, k)
    BY <1>1 DEF Slots, Value, Home, Chain, Occupied
  <1>3. \A n, b : ChainOK(n, b)' <=> ChainOK(n, b)
    <2>1. \A n, b, i : Mid(n, b, i)' <=> Mid(n, b, i)
      BY <1>1, <1>2 DEF Mid, Root
    <2>2. \A c, b, m : Placed(c, b, m)' <=> Placed(c, b, m)
      BY <1>1 DEF Placed
    <2> QED
      BY <1>1, <2>1, <2>2 DEF ChainOK
  <1>4. ChainsOK'
    BY <1>1, <1>3 DEF Content, ChainsOK
  <1>5. \A u \in Threads : SlotOK(u)' /\ ReaderOK(u)' /\ SeenOK(u)'
    BY <1>1, <1>2 DEF Content, SlotOK, ReaderOK, ReaderOf, SeenOK
  <1>6. /\ Held(table)' = Held(table) /\ Held(table + 1)' = Held(table + 1)
        /\ Tokens' = Tokens /\ Adding(1)' = Adding(1) /\ Adding(-1)' = Adding(-1)
    BY <1>1, <1>2 DEF Held, Tokens, Adding
  <1>7. \A b : Done(b)' <=> Done(b)
    BY <1>1 DEF Done, Base
  <1>8. CountOK'
    BY <1>1, <1>6 DEF Content, CountOK
  <1>9. CopyOK'
    BY <1>1, <1>2, <1>6, <1>7 DEF Content, CopyOK
  <1> QED
    BY <1>1, <1>4, <1>5, <1>8, <1>9 DEF Content

(* What the guards bound. *)
Bounded == calls <= MaxCalls /\ resizeHelpers <= MaxHelpers

LEMMA BoundedNext ==
  ASSUME ControlLand, ControlLand', Bounded, MapNext
  PROVE  Bounded'
  <1>1. /\ calls \in Nat /\ resizeHelpers \in Nat /\ MaxCalls \in Nat /\ MaxHelpers \in Nat
    BY MapSizes DEF ControlLand, Control, Typed
  <1>2. PICK t \in Threads :
           MapStep(t) \/ Clear(t) \/ \E op \in Ops \ {"clear"}, k \in Keys : Call(t, op, k)
    BY DEF MapNext
  <1>3. CASE Clear(t) \/ \E op \in Ops \ {"clear"}, k \in Keys : Call(t, op, k)
    <2>1. calls < MaxCalls /\ calls' = calls + 1 /\ resizeHelpers' = resizeHelpers
      BY <1>3, Zenon DEF Clear, Call, resizing
    <2> QED
      BY <1>1, <2>1 DEF Bounded
  <1>4. CASE MapStep(t)
    <2>1. calls' = calls
      BY <1>4, Zenon DEF MapStep, Attempt, ReadMeta, ReadEntry, ReadNext, Lock, Check, Apply, StoreEntry,
         ClearEntry, Count, CountIn, Resize, Cas, Prepare, Claim, Copy, CountCopied, Publish,
         Finish, Help, Register, Leave, Wait, fixed
    <2>2. resizeHelpers' <= MaxHelpers
      <3>1. CASE Register(t)
        BY <1>1, <3>1 DEF Register, Bounded
      <3>2. CASE Leave(t)
        BY <1>1, <3>2 DEF Leave, Bounded
      <3>3. CASE ~ Register(t) /\ ~ Leave(t)
        <4>1. resizeHelpers' = resizeHelpers
          BY <1>4, <3>3, Zenon DEF MapStep, Attempt, ReadMeta, ReadEntry, ReadNext, Lock, Check, Apply,
             StoreEntry, ClearEntry, Count, CountIn, Resize, Cas, Prepare, Claim, Copy,
             CountCopied, Publish, Finish, Help, Wait, resizing
        <4> QED
          BY <4>1 DEF Bounded
      <3> QED
        BY <3>1, <3>2, <3>3
    <2> QED
      BY <2>1, <2>2 DEF Bounded
  <1> QED
    BY <1>2, <1>3, <1>4

LEMMA ControlGivesTypes ==
  ASSUME ControlLand, Bounded
  PROVE  MapTypeOK
  <1>1. /\ Typed /\ ResizeOK /\ HelpersOK /\ \A t \in Threads : LocalOK(t) /\ RoleOK(t)
    BY DEF ControlLand, Control, ThreadOK
  <1>2. /\ tables \in Seq(TableSet) /\ table \in 1 .. Len(tables) /\ DOMAIN tables = 1 .. Len(tables)
        /\ resizeSeq \in Nat /\ resizeHelpers \in Nat /\ resizeIdx \in Nat /\ calls \in Nat
        /\ table \in Nat /\ table > 0 /\ Len(tables) \in Nat
    BY <1>1 DEF Typed
  <1>3. nextTable \in DOMAIN tables \cup {Nil}
    BY <1>1, <1>2 DEF ResizeOK
  <1>4. \A n \in DOMAIN tables : tables[n].size \in Int
    BY <1>2, TableIs
  <1>5. resizeHelpers \in 0 .. MaxHelpers /\ calls \in 0 .. MaxCalls
    BY <1>2, MapSizes DEF Bounded
  <1>6. ASSUME resizeSeq % 2 = 0 PROVE resizeHelpers = 0 /\ nextTable = Nil
    <2>1. nextTable = Nil
      BY <1>1, <1>6 DEF ResizeOK
    <2>2. \A u \in Threads : ~ Helper(u)
      BY <1>1, <1>6 DEF RoleOK
    <2>3. {u \in Threads : Helper(u)} = {}
      BY <2>2
    <2>4. resizeHelpers = 0
      BY <1>1, <2>3, FS_EmptySet DEF HelpersOK
    <2> QED
      BY <2>1, <2>4
  <1>7. ASSUME NEW t \in Threads
        PROVE  local[t].at \in Places /\ local[t].tab \in DOMAIN tables \cup {0}
    <2>1. local[t].at \in Places
      BY <1>1 DEF Typed, Locals
    <2>2. local[t].at = "idle" => local[t].tab = 0
      BY <1>1 DEF LocalOK, Idle
    <2>3. local[t].at # "idle" => local[t].tab \in 1 .. table
      BY <1>1 DEF LocalOK
    <2> QED
      BY <1>2, <2>1, <2>2, <2>3
  <1> QED
    BY <1>2, <1>3, <1>4, <1>5, <1>6, <1>7 DEF MapTypeOK

LEMMA ContentGivesCounter ==
  ASSUME ControlLand, Content
  PROVE  CounterIsRight
  <1>1. Typed /\ ChainsOK /\ CountOK /\ table \in 1 .. Len(tables)
    BY DEF ControlLand, Control, Typed, Content
  <1>2. \A k \in Keys : Cardinality(Slots(table, k)) <= 1
    BY <1>1, ValueIs
  <1> QED
    BY <1>1, <1>2 DEF CounterIsRight, CountOK, Held, Adding

(* The inductive invariant of the map. *)
MapInductive == MapProofInv /\ Bounded

LEMMA MapInductiveStep ==
  ASSUME MapInductive, [MapNext]_mapVars
  PROVE  MapInductive'
  <1>1. ControlLand /\ Content /\ Bounded
    BY DEF MapInductive, MapProofInv
  <1>2. CASE MapNext
    <2>1. ControlLand'
      BY <1>1, <1>2, MapNextControl
    <2> QED
      BY <1>1, <1>2, <2>1, MapNextContent, BoundedNext DEF MapInductive, MapProofInv
  <1>3. CASE UNCHANGED mapVars
    <2>1. Bounded'
      BY <1>1, <1>3 DEF Bounded, mapVars, fixed, resizing
    <2> QED
      BY <1>1, <1>3, <2>1, MapStutterControl, MapStutterContent DEF MapInductive, MapProofInv
  <1> QED
    BY <1>2, <1>3

LEMMA MapInductiveInit ==
  ASSUME MapInit
  PROVE  MapInductive
  <1>1. ControlLand /\ Content
    BY MapInitControl, MapInitContent
  <1>2. Bounded
    BY MapSizes DEF MapInit, Bounded
  <1> QED
    BY <1>1, <1>2 DEF MapInductive, MapProofInv

(* Nothing false is answered, no write is lost, the counter is the number of *)
(* the keys and a resize is owned, with any number of threads and any hashes *)
(* and sizes (xsync/map.go: Load, doCompute, resize, helpResize, transfer).  *)
THEOREM MapInvHolds == MapSpec => []MapInv
  <1>1. MapInit => MapInductive
    BY MapInductiveInit
  <1>2. MapInductive /\ [MapNext]_mapVars => MapInductive'
    BY MapInductiveStep
  <1>3. ASSUME MapInductive PROVE MapInv
    <2>1. ControlLand /\ Content /\ Bounded
      BY <1>3 DEF MapInductive, MapProofInv
    <2>2. AnswersAreTrue
      BY <2>1 DEF Content, AnswersAreTrue
    <2> QED
      BY <2>1, <2>2, ControlGivesTypes, ControlGivesWritesLand, ControlGivesOwner,
         ContentGivesCounter DEF MapInv
  <1> QED
    BY <1>1, <1>2, <1>3, PTL DEF MapSpec

(* A step that replaces the table keeps every value, or clears. *)
LEMMA TableKept ==
  ASSUME ControlLand, Content, ControlLand', Content', MapNext, table' # table
  PROVE  \/ wiped' # wiped
         \/ \A k \in Keys : /\ Value(table, k)' = Value(table, k)
                            /\ Cardinality(Slots(table, k)') <= 1
  <1>1. PICK t \in Threads :
           MapStep(t) \/ Clear(t) \/ \E op \in Ops \ {"clear"}, k \in Keys : Call(t, op, k)
    BY DEF MapNext
  <1>2. Publish(t)
    BY <1>1, Zenon DEF MapStep, Call, Clear, Attempt, ReadMeta, ReadEntry, ReadNext, Lock, Check, Apply,
       StoreEntry, ClearEntry, Count, CountIn, Resize, Cas, Prepare, Claim, Copy, CountCopied,
       Finish, Help, Register, Leave, Wait
  <1>3. /\ local[t].at = "publish" /\ resizeHelpers = 0 /\ table' = local[t].new
        /\ tables' = tables /\ hash' = hash
        /\ local[t].hint = "clear" => wiped' = wiped \cup {table}
    BY <1>2 DEF Publish, At
  <1>4. /\ Len(tables) = table + 1 /\ table \in Nat /\ table > 0
        /\ \A k \in Keys : Value(table + 1, k) =
              IF local[t].hint = "clear" THEN Nil ELSE Value(table, k)
    BY <1>3, Published
  <1>5. wiped \subseteq 1 .. table - 1 /\ local[t].new = table + 1 /\ Typed /\ ChainsOK
    BY <1>3, Now DEF ResizeOK, ThreadOK, PlaceOK, Content
  <1>6. CASE local[t].hint = "clear"
    <2>1. table \notin wiped
      BY <1>4, <1>5
    <2> QED
      BY <1>3, <1>6, <2>1
  <1>7. CASE local[t].hint # "clear"
    <2>1. PICK g \in 1 .. Len(tables) : g = table + 1
      BY <1>4
    <2>2. ASSUME NEW k \in Keys
          PROVE  Value(table, k)' = Value(table, k) /\ Cardinality(Slots(table, k)') <= 1
      <3>1. Slots(g, k)' = Slots(g, k) /\ Value(g, k)' = Value(g, k)
        BY <1>3, SameAt
      <3>2. Cardinality(Slots(g, k)) <= 1 /\ Value(g, k) = Value(table, k)
        BY <1>4, <1>5, <1>7, <2>1, ValueIs
      <3>3. table' = g
        BY <1>3, <1>5, <2>1
      <3> QED
        BY <3>1, <3>2, <3>3
    <2> QED
      BY <2>2
  <1> QED
    BY <1>6, <1>7

(* A table gives way to one with the same value for every key, each in one   *)
(* slot, or to an empty one that Clear puts in its place (resize, transfer). *)
THEOREM ContentIsKeptHolds == MapSpec => ContentIsKept
  <1>1. MapInit => MapInductive
    BY MapInductiveInit
  <1>2. MapInductive /\ [MapNext]_mapVars => MapInductive'
    BY MapInductiveStep
  <1>3. ASSUME MapInductive, MapInductive', [MapNext]_mapVars
        PROVE  [table' # table =>
                   \/ wiped' # wiped
                   \/ \A k \in Keys : /\ Value(table, k)' = Value(table, k)
                                      /\ Cardinality(Slots(table, k)') <= 1]_mapVars
    <2>1. CASE MapNext /\ table' # table
      BY <1>3, <2>1, TableKept DEF MapInductive, MapProofInv
    <2>2. CASE UNCHANGED mapVars
      BY <2>2
    <2> QED
      BY <1>3, <2>1, <2>2
  <1> QED
    BY <1>1, <1>2, <1>3, PTL DEF MapSpec, ContentIsKept
=============================================================================
