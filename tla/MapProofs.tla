----------------------------- MODULE MapProofs -----------------------------
(* Proofs about the control of ConcurrentMap, for any threads, keys, hashes, *)
(* sizes and prefilled tables: who may write to a bucket, and who resizes.   *)
(*                                                                           *)
(* A resize is what the threads in it are doing: one of them holds the odd   *)
(* sequence number (ResizeOK), those who help are counted (HelpersOK), and   *)
(* each bucket that is being copied is in the range of one of them, until it *)
(* is copied for good (RangeOK).  A writer that has looked at the table      *)
(* under its lock cannot be overtaken by the copy of its bucket, since the   *)
(* copy needs that lock (LandOK).  MapContent goes on with what the buckets  *)
(* hold.                                                                     *)
EXTENDS ConcurrentMap, FiniteSetTheorems, SequenceTheorems, WellFoundedInduction,
        TLAPS

LEMMA MapSizes ==
  /\ BucketSize \in Nat \ {0} /\ MinLen \in Nat \ {0} /\ Stride \in Nat \ {0}
  /\ ShrinkFraction \in Nat \ {0} /\ MaxHelpers \in Nat \ {0} /\ MaxCalls \in Nat
  /\ Nil \notin Nat /\ Nil \notin Keys /\ Nil \notin Threads /\ IsFiniteSet(Threads)
  /\ Nil \notin {"grow", "shrink", "clear"} /\ Nil \notin [key : Keys, value : Nat]
  BY MapAssumption

LEMMA LeastNumber ==
  ASSUME NEW T, T \subseteq Nat, T # {}
  PROVE  \E g \in T : \A n \in T : g <= n
  <1> DEFINE R == OpToRel(<, Nat)
  <1>1. IsWellFoundedOn(R, Nat)
    BY NatLessThanWellFounded, Zenon
  <1>2. \A x, y \in Nat : x < y => <<x, y>> \in R
    BY DEF OpToRel
  <1> HIDE DEF R
  <1>3. PICK g \in T : \A y \in T : ~ (<<y, g>> \in R)
    BY <1>1, WFMin, Zenon
  <1>4. ASSUME NEW n \in T PROVE g <= n
    <2>1. n \in Nat /\ g \in Nat /\ ~ (<<n, g>> \in R)
      BY <1>3
    <2>2. ~ (n < g)
      BY <2>1, <1>2
    <2> QED
      BY <2>1, <2>2
  <1> QED
    BY <1>4

LEMMA MinIs ==
  ASSUME NEW S, S \subseteq Nat, S # {}
  PROVE  Min(S) \in S /\ \A n \in S : Min(S) <= n
  <1>1. \E g \in S : \A n \in S : g <= n
    BY LeastNumber, Zenon
  <1> QED
    BY <1>1, Zenon DEF Min

-----------------------------------------------------------------------------
(* Types *)

Values == Nat \cup {Nil}
Entries == [key : Keys, value : Nat]
SlotSet == [tag : Nat, entry : Entries \cup {Nil}]
Owners == Threads \cup {Nil}
TablesOf(m) == [len : {m}, size : Int, chain : [0 .. m - 1 -> Seq(SlotSet)],
                lock : [0 .. m - 1 -> Owners]]
TableSet == UNION {TablesOf(m) : m \in Nat \ {0}}
Locals ==
    [at : Places, op : Ops \cup {Nil}, key : Keys \cup {Nil}, value : Values,
     tab : Nat, pos : Nat, marks : SUBSET Int, slot : Nat, delta : {-1, 0, 1},
     hint : {Nil, "grow", "shrink", "clear"}, seq : Nat, new : Nat,
     range : SUBSET Nat, copied : Nat]

Typed ==
    /\ hash \in [Keys -> [h1 : Nat, h2 : Nat \ {0}]]
    /\ tables \in Seq(TableSet) /\ table \in 1 .. Len(tables)
    /\ nextTable \in Nat \cup {Nil} /\ resizeSeq \in Nat /\ resizeHelpers \in Nat
    /\ resizeIdx \in Nat /\ calls \in Nat /\ wiped \subseteq Nat
    /\ local \in [Threads -> Locals] /\ seen \in [Threads -> SUBSET Values]

LEMMA TableIs ==
  ASSUME NEW tb \in TableSet
  PROVE  /\ tb \in TablesOf(tb.len) /\ tb.len \in Nat /\ tb.len > 0 /\ tb.size \in Int
         /\ tb.chain \in [0 .. tb.len - 1 -> Seq(SlotSet)]
         /\ tb.lock \in [0 .. tb.len - 1 -> Owners]
  <1>1. PICK m \in Nat \ {0} : tb \in TablesOf(m)
    BY DEF TableSet
  <1>2. tb.len = m
    BY <1>1 DEF TablesOf
  <1> QED
    BY <1>1, <1>2 DEF TablesOf

LEMMA IsTable ==
  ASSUME NEW m \in Nat, m > 0, NEW tb \in TablesOf(m)
  PROVE  tb \in TableSet
  BY DEF TableSet

(* One chain and one lock change, of one table. *)
Edited(n, b, c, owner) ==
    /\ tables' \in Seq(TableSet) /\ Len(tables') = Len(tables)
    /\ \A m \in 1 .. Len(tables) :
          tables'[m].len = tables[m].len /\ tables'[m].size = tables[m].size
    /\ \A m \in 1 .. Len(tables) : \A a \in 0 .. tables[m].len - 1 :
          tables'[m].chain[a] = IF m = n /\ a = b THEN c ELSE tables[m].chain[a]
    /\ \A m \in 1 .. Len(tables) : \A a \in 0 .. tables[m].len - 1 :
          tables'[m].lock[a] = IF m = n /\ a = b THEN owner ELSE tables[m].lock[a]

(* One table changes. *)
LEMMA Exchange ==
  ASSUME tables \in Seq(TableSet), NEW n \in 1 .. Len(tables), NEW tb \in TableSet,
         tables' = [tables EXCEPT ![n] = tb]
  PROVE  /\ tables' \in Seq(TableSet) /\ Len(tables') = Len(tables) /\ tables'[n] = tb
         /\ \A m \in 1 .. Len(tables) : m # n => tables'[m] = tables[m]
  OBVIOUS

LEMMA EditIs ==
  ASSUME tables \in Seq(TableSet), NEW n \in 1 .. Len(tables),
         NEW b \in 0 .. tables[n].len - 1, NEW c \in Seq(SlotSet), NEW owner \in Owners,
         tables' = [tables EXCEPT ![n] = [tables[n] EXCEPT
                       !.chain = [tables[n].chain EXCEPT ![b] = c],
                       !.lock = [tables[n].lock EXCEPT ![b] = owner]]]
  PROVE  Edited(n, b, c, owner)
  <1> DEFINE tb == tables[n]
             m == tb.len
             chain == [tb.chain EXCEPT ![b] = c]
             lock == [tb.lock EXCEPT ![b] = owner]
             new == [tb EXCEPT !.chain = chain, !.lock = lock]
  <1>1. tb \in TableSet
    OBVIOUS
  <1>2. /\ tb \in TablesOf(m) /\ m \in Nat /\ m > 0
        /\ tb.chain \in [0 .. m - 1 -> Seq(SlotSet)] /\ tb.lock \in [0 .. m - 1 -> Owners]
    BY <1>1, TableIs
  <1>3. chain \in [0 .. m - 1 -> Seq(SlotSet)] /\ lock \in [0 .. m - 1 -> Owners]
    BY <1>2
  <1>4. /\ \A a \in 0 .. m - 1 : chain[a] = IF a = b THEN c ELSE tb.chain[a]
        /\ \A a \in 0 .. m - 1 : lock[a] = IF a = b THEN owner ELSE tb.lock[a]
    BY <1>2
  <1>5. tables' = [tables EXCEPT ![n] = new]
    OBVIOUS
  <1> HIDE DEF chain, lock
  <1>6. /\ new \in TablesOf(m) /\ new.len = m /\ new.size = tb.size /\ new.chain = chain
        /\ new.lock = lock
    <2> HIDE DEF tb, m
    <2> QED
      BY <1>2, <1>3, Zenon DEF TablesOf
  <1>7. new \in TableSet
    BY <1>2, <1>6, IsTable
  <1> HIDE DEF new
  <1>8. /\ tables' \in Seq(TableSet) /\ Len(tables') = Len(tables) /\ tables'[n] = new
        /\ \A k \in 1 .. Len(tables) : k # n => tables'[k] = tables[k]
    BY <1>5, <1>7, Exchange, Zenon
  <1>9. ASSUME NEW k \in 1 .. Len(tables)
        PROVE  /\ tables'[k].len = tables[k].len /\ tables'[k].size = tables[k].size
               /\ \A a \in 0 .. tables[k].len - 1 :
                     tables'[k].chain[a] = IF k = n /\ a = b THEN c ELSE tables[k].chain[a]
               /\ \A a \in 0 .. tables[k].len - 1 :
                     tables'[k].lock[a] = IF k = n /\ a = b THEN owner ELSE tables[k].lock[a]
    <2>1. CASE k = n
      BY <2>1, <1>4, <1>6, <1>8, Zenon
    <2>2. CASE k # n
      BY <2>2, <1>8
    <2> QED
      BY <2>1, <2>2
  <1> QED
    BY <1>8, <1>9 DEF Edited

-----------------------------------------------------------------------------
LEMMA HomeIs ==
  ASSUME Typed, NEW n \in 1 .. Len(tables), NEW k \in Keys
  PROVE  /\ Home(n, k) \in 0 .. tables[n].len - 1 /\ Chain(n, k) \in Seq(SlotSet)
         /\ hash[k].h1 \in Nat /\ hash[k].h2 \in Nat /\ hash[k].h2 # 0
  <1>1. tables[n] \in TableSet
    BY DEF Typed
  <1>2. /\ tables[n].len \in Nat /\ tables[n].len > 0
        /\ tables[n].chain \in [0 .. tables[n].len - 1 -> Seq(SlotSet)]
    BY <1>1, TableIs
  <1>3. hash[k].h1 \in Nat /\ hash[k].h2 \in Nat /\ hash[k].h2 # 0
    BY DEF Typed
  <1>4. Home(n, k) \in 0 .. tables[n].len - 1
    BY <1>2, <1>3 DEF Home
  <1> QED
    BY <1>2, <1>3, <1>4 DEF Chain

(* The variables of t are those of a call on a key. *)
OnTable(t) == local[t].tab \in 1 .. Len(tables) /\ local[t].key \in Keys

LEMMA RootIs ==
  ASSUME Typed, NEW t \in Threads, OnTable(t)
  PROVE  /\ Root(t) \in 0 .. tables[local[t].tab].len - 1
         /\ Chain(local[t].tab, local[t].key) \in Seq(SlotSet)
         /\ Chain(local[t].tab, local[t].key) = tables[local[t].tab].chain[Root(t)]
  BY HomeIs DEF Root, Chain, OnTable

LEMMA LockEdits ==
  ASSUME Typed, NEW t \in Threads, OnTable(t), NEW owner \in Owners, tables' = LockIs(t, owner)
  PROVE  Edited(local[t].tab, Root(t), Chain(local[t].tab, local[t].key), owner)
  <1> DEFINE n == local[t].tab
             b == Root(t)
             c == Chain(n, local[t].key)
             tb == tables[n]
  <1>1. /\ n \in 1 .. Len(tables) /\ b \in 0 .. tb.len - 1 /\ c \in Seq(SlotSet)
        /\ c = tb.chain[b] /\ tables \in Seq(TableSet)
    BY RootIs DEF OnTable, Typed
  <1>2. tb \in TableSet
    BY <1>1
  <1>3. tb \in TablesOf(tb.len) /\ tb.chain \in [0 .. tb.len - 1 -> Seq(SlotSet)]
    BY <1>2, TableIs
  <1>4. tables' = [tables EXCEPT ![n].lock[b] = owner]
    BY DEF LockIs
  <1> HIDE DEF n, b, c
  <1>5. [tb.chain EXCEPT ![b] = c] = tb.chain
    BY <1>1, <1>3
  <1>6. [tb EXCEPT !.chain = [tb.chain EXCEPT ![b] = c], !.lock = [tb.lock EXCEPT ![b] = owner]]
        = [tb EXCEPT !.lock[b] = owner]
    BY <1>3, <1>5, Zenon DEF TablesOf
  <1>7. tables' = [tables EXCEPT ![n] = [tb EXCEPT !.lock[b] = owner]]
    BY <1>4
  <1>8. tables' = [tables EXCEPT ![n] = [tables[n] EXCEPT
                       !.chain = [tables[n].chain EXCEPT ![b] = c],
                       !.lock = [tables[n].lock EXCEPT ![b] = owner]]]
    BY <1>6, <1>7, Zenon
  <1>9. Edited(n, b, c, owner)
    BY <1>1, <1>8, EditIs, Zenon
  <1> QED
    BY <1>9 DEF n, b, c

LEMMA PutEdits ==
  ASSUME Typed, NEW t \in Threads, OnTable(t), NEW owner \in Owners,
         NEW i \in Nat, NEW slot \in SlotSet, tables' = Put(t, i, slot, owner)
  PROVE  Edited(local[t].tab, Root(t),
                [Chain(local[t].tab, local[t].key) EXCEPT ![i] = slot], owner)
  <1> DEFINE n == local[t].tab
             b == Root(t)
             c == Chain(n, local[t].key)
             d == [c EXCEPT ![i] = slot]
             tb == tables[n]
  <1>1. /\ n \in 1 .. Len(tables) /\ b \in 0 .. tb.len - 1 /\ c \in Seq(SlotSet)
        /\ c = tb.chain[b] /\ tables \in Seq(TableSet)
    BY RootIs DEF OnTable, Typed
  <1>2. d \in Seq(SlotSet)
    <2>1. CASE i \in DOMAIN c
      BY <1>1, <2>1
    <2>2. CASE i \notin DOMAIN c
      <3> HIDE DEF c
      <3>1. c = [j \in DOMAIN c |-> c[j]]
        BY <1>1
      <3>2. d = c
        BY <2>2, <3>1
      <3> QED
        BY <1>1, <3>2, Zenon
    <2> QED
      BY <2>1, <2>2
  <1>4. tables' = [tables EXCEPT ![n].chain[b][i] = slot, ![n].lock[b] = owner]
    BY DEF Put
  <1> HIDE DEF n, b
  <1>5. d = [tb.chain[b] EXCEPT ![i] = slot]
    BY <1>1
  <1>8. tables' = [tables EXCEPT ![n] = [tables[n] EXCEPT
                       !.chain = [tables[n].chain EXCEPT ![b] = [tables[n].chain[b] EXCEPT ![i] = slot]],
                       !.lock = [tables[n].lock EXCEPT ![b] = owner]]]
    <2>1. tables[n] \in TableSet
      BY <1>1
    <2>2. tables[n] \in TablesOf(tables[n].len)
      BY <2>1, TableIs
    <2> QED
      BY <1>1, <1>4, <2>2, Zenon DEF TablesOf
  <1> HIDE DEF d, c
  <1>9. Edited(n, b, d, owner)
    BY <1>1, <1>2, <1>5, <1>8, EditIs, Zenon
  <1> QED
    BY <1>9 DEF n, b, c, d

-----------------------------------------------------------------------------
(* A slot goes into the first free one, or into one more bucket.             *)
AppendsAt(c, d, i, slot) ==
    /\ d \in Seq(SlotSet) /\ i \in 1 .. Len(d) /\ d[i] = slot
    /\ i \in 1 .. Len(c) => c[i].entry = Nil
    /\ \A j \in 1 .. Len(d) : j # i => d[j] = IF j <= Len(c) THEN c[j] ELSE Empty
    /\ Len(d) = Len(c) \/ Len(d) = Len(c) + BucketSize

LEMMA AppendIs ==
  ASSUME NEW c \in Seq(SlotSet), NEW tag \in Nat, NEW e \in Entries
  PROVE  \E i \in Nat : AppendsAt(c, appendToBucket(c, tag, e), i, [tag |-> tag, entry |-> e])
  <1> DEFINE free == DOMAIN c \ Occupied(c)
             slot == [tag |-> tag, entry |-> e]
             d == appendToBucket(c, tag, e)
  <1>1. slot \in SlotSet /\ Len(c) \in Nat /\ DOMAIN c = 1 .. Len(c)
    BY DEF SlotSet
  <1>2. CASE free # {}
    <2> DEFINE i == Min(free)
    <2>1. free \subseteq Nat
      BY <1>1
    <2>2. i \in free
      BY <1>2, <2>1, MinIs, Zenon
    <2>3. i \in 1 .. Len(c) /\ c[i].entry = Nil
      BY <1>1, <2>2 DEF Occupied
    <2>4. d = [c EXCEPT ![i] = slot]
      BY <1>2 DEF appendToBucket
    <2> HIDE DEF i, slot, d
    <2>5. d \in Seq(SlotSet) /\ Len(d) = Len(c)
      BY <1>1, <2>3, <2>4
    <2>6. d[i] = slot /\ \A j \in 1 .. Len(d) : j # i => d[j] = c[j] /\ j <= Len(c)
      BY <1>1, <2>3, <2>4, <2>5
    <2>7. AppendsAt(c, d, i, slot)
      BY <2>3, <2>5, <2>6 DEF AppendsAt
    <2>8. i \in Nat
      BY <2>3
    <2> QED
      BY <2>7, <2>8 DEF d, slot
  <1>3. CASE free = {}
    <2> DEFINE more == [NewBucket EXCEPT ![1] = slot]
               i == Len(c) + 1
    <2>1. d = c \o more
      BY <1>3 DEF appendToBucket
    <2>2. BucketSize \in Nat /\ BucketSize > 0
      BY MapSizes
    <2>3. Empty \in SlotSet
      BY DEF Empty, SlotSet
    <2>4. NewBucket \in Seq(SlotSet) /\ Len(NewBucket) = BucketSize
          /\ \A j \in 1 .. BucketSize : NewBucket[j] = Empty
      BY <2>2, <2>3 DEF NewBucket
    <2> HIDE DEF slot
    <2>5. /\ more \in Seq(SlotSet) /\ Len(more) = BucketSize /\ more[1] = slot
          /\ \A j \in 1 .. BucketSize : j # 1 => more[j] = Empty
      BY <1>1, <2>2, <2>4
    <2> HIDE DEF more, d
    <2>6. /\ d \in Seq(SlotSet) /\ Len(d) = Len(c) + Len(more)
          /\ \A j \in 1 .. Len(c) + Len(more) : d[j] =
                 IF j <= Len(c) THEN c[j] ELSE more[j - Len(c)]
      BY <2>1, <2>5, ConcatProperties, Zenon
    <2>7. Len(d) = Len(c) + BucketSize
      BY <2>5, <2>6
    <2>8. i \in 1 .. Len(d) /\ ~ (i <= Len(c)) /\ i - Len(c) = 1 /\ i \in Nat
      BY <1>1, <2>2, <2>7
    <2>9. d[i] = slot
      BY <2>5, <2>6, <2>8
    <2>10. ASSUME NEW j \in 1 .. Len(d), j # i
           PROVE  d[j] = IF j <= Len(c) THEN c[j] ELSE Empty
      <3>1. ~ (j <= Len(c)) => j - Len(c) \in 1 .. BucketSize /\ j - Len(c) # 1
        BY <1>1, <2>2, <2>7, <2>10
      <3>2. j \in 1 .. Len(c) + Len(more)
        BY <2>6
      <3> QED
        BY <2>5, <2>6, <3>1, <3>2
    <2>12. i \notin 1 .. Len(c)
      BY <1>1
    <2> HIDE DEF i
    <2>11. AppendsAt(c, d, i, slot)
      BY <2>6, <2>7, <2>8, <2>9, <2>10, <2>12, Zenon DEF AppendsAt
    <2> QED
      BY <2>8, <2>11 DEF d, slot
  <1> QED
    BY <1>2, <1>3

(* The copies of the first i slots of a chain. *)
Copies(chain, new) ==
    CHOOSE copy : copy = [i \in 0 .. Len(chain) |->
                             IF i = 0 THEN new ELSE CopySlot(chain[i], copy[i - 1])]

LEMMA CopiedIs ==
  ASSUME NEW chain, NEW new
  PROVE  Copied(chain, new) = Copies(chain, new)[Len(chain)]
  BY DEF Copied, Copies

LEMMA CopiesIs ==
  ASSUME NEW chain \in Seq(SlotSet), NEW new
  PROVE  /\ Copies(chain, new)[0] = new
         /\ \A i \in 1 .. Len(chain) :
               Copies(chain, new)[i] = CopySlot(chain[i], Copies(chain, new)[i - 1])
  <1> DEFINE L == Len(chain)
             D == 0 .. L
             Step(f, i) == IF i = 0 THEN new ELSE CopySlot(chain[i], f[i - 1])
             Good(f, k) == f = [i \in D |-> f[i]] /\ \A i \in D : i < k => f[i] = Step(f, i)
             T == {k \in Nat : k <= L + 1 /\ ~ \E f : Good(f, k)}
  <1>1. L \in Nat
    OBVIOUS
  <1> HIDE DEF L
  <1>2. ASSUME T # {} PROVE FALSE
    <2>1. PICK k \in T : \A n \in T : k <= n
      <3>1. T \subseteq Nat
        OBVIOUS
      <3> HIDE DEF T
      <3> QED BY <1>2, <3>1, LeastNumber, Zenon
    <2>2. k \in Nat /\ k <= L + 1 /\ ~ \E f : Good(f, k)
      BY <2>1
    <2>3. k # 0
      <3> DEFINE f == [i \in D |-> 0]
      <3>1. Good(f, 0)
        BY <1>1
      <3> HIDE DEF f, Good
      <3> QED BY <3>1, <2>2
    <2>4. k - 1 \in Nat /\ k - 1 <= L + 1 /\ k - 1 \notin T
      BY <1>1, <2>1, <2>2, <2>3
    <2>5. PICK f : Good(f, k - 1)
      BY <2>4
    <2> DEFINE p == k - 1
               g == [f EXCEPT ![p] = Step(f, p)]
    <2>6. p \in D /\ DOMAIN f = D
      BY <1>1, <2>2, <2>3, <2>5
    <2>7. \A i \in D : i # p => g[i] = f[i]
      BY <2>5, <2>6
    <2>8. g[p] = Step(f, p) /\ g = [i \in D |-> g[i]]
      BY <2>5, <2>6, Zenon
    <2> HIDE DEF g
    <2>9. ASSUME NEW i \in D, i < k PROVE g[i] = Step(g, i)
      <3>1. i # 0 => i - 1 \in D /\ i - 1 # p /\ i - 1 < p
        BY <1>1, <2>2, <2>9
      <3>2. Step(g, i) = Step(f, i)
        BY <2>7, <3>1
      <3> HIDE DEF Step
      <3>3. CASE i = p
        BY <2>8, <3>2, <3>3
      <3>4. CASE i # p
        <4>1. i < k - 1
          BY <2>2, <2>9, <3>4, <1>1
        <4> QED
          BY <2>5, <2>7, <3>2, <3>4, <4>1
      <3> QED
        BY <3>3, <3>4
    <2>10. Good(g, k)
      BY <2>8, <2>9, Zenon
    <2> QED
      BY <2>2, <2>10, Zenon
  <1>3. PICK f : Good(f, L + 1)
    <2>1. L + 1 \in Nat /\ L + 1 <= L + 1 /\ L + 1 \notin T
      BY <1>1, <1>2
    <2> QED
      BY <2>1
  <1>4. f = [i \in D |-> IF i = 0 THEN new ELSE CopySlot(chain[i], f[i - 1])]
    <2>1. \A i \in D : i < L + 1
      BY <1>1
    <2> QED
      BY <1>3, <2>1, Zenon
  <1> DEFINE g == Copies(chain, new)
  <1>5. g = [i \in 0 .. L |-> IF i = 0 THEN new ELSE CopySlot(chain[i], g[i - 1])]
    BY <1>4 DEF Copies, L
  <1> HIDE DEF g
  <1>6. g[0] = new /\ \A i \in 1 .. L : g[i] = CopySlot(chain[i], g[i - 1])
    <2>1. 0 \in 0 .. L /\ \A i \in 1 .. L : i \in 0 .. L /\ i # 0
      BY <1>1
    <2> QED
      BY <1>5, <2>1, Zenon
  <1> QED
    BY <1>6 DEF g, L

-----------------------------------------------------------------------------
(* Copying changes the chains of the new table and nothing else of it. *)
SameBut(tb, nt) == nt \in TableSet /\ nt.len = tb.len /\ nt.size = tb.size /\ nt.lock = tb.lock

(* A slot with an entry goes to a chain, where it is appended.               *)
Receives(tb, nt, b, slot) ==
    /\ SameBut(tb, nt) /\ b \in 0 .. tb.len - 1
    /\ \A a \in 0 .. tb.len - 1 : a # b => nt.chain[a] = tb.chain[a]
    /\ \E i \in Nat : AppendsAt(tb.chain[b], nt.chain[b], i, slot)

LEMMA CopySlotIs ==
  ASSUME hash \in [Keys -> [h1 : Nat, h2 : Nat \ {0}]], NEW slot \in SlotSet, NEW tb \in TableSet
  PROVE  /\ slot.entry = Nil => CopySlot(slot, tb) = tb
         /\ slot.entry # Nil =>
              /\ slot.entry.key \in Keys
              /\ Receives(tb, CopySlot(slot, tb), hash[slot.entry.key].h1 % tb.len,
                          [tag |-> hash[slot.entry.key].h2, entry |-> slot.entry])
  <1>1. slot.entry = Nil => CopySlot(slot, tb) = tb
    BY DEF CopySlot
  <1>2. ASSUME slot.entry # Nil
        PROVE  /\ slot.entry.key \in Keys
               /\ Receives(tb, CopySlot(slot, tb), hash[slot.entry.key].h1 % tb.len,
                           [tag |-> hash[slot.entry.key].h2, entry |-> slot.entry])
    <2> DEFINE e == slot.entry
               h == hash[e.key]
               b == h.h1 % tb.len
               d == appendToBucket(tb.chain[b], h.h2, e)
               chain == [tb.chain EXCEPT ![b] = d]
               nt == [tb EXCEPT !.chain = chain]
               m == tb.len
    <2>1. e \in Entries /\ e.key \in Keys
      BY <1>2 DEF SlotSet, Entries
    <2>2. h.h1 \in Nat /\ h.h2 \in Nat
      BY <2>1
    <2>3. /\ tb \in TablesOf(m) /\ m \in Nat /\ m > 0
          /\ tb.chain \in [0 .. m - 1 -> Seq(SlotSet)]
      BY TableIs
    <2>4. CopySlot(slot, tb) = nt
      BY <1>2 DEF CopySlot
    <2> HIDE DEF h
    <2>5. b \in 0 .. m - 1
      BY <2>2, <2>3
    <2> HIDE DEF b, e
    <2>6. tb.chain[b] \in Seq(SlotSet)
      BY <2>3, <2>5
    <2>7. PICK i \in Nat : AppendsAt(tb.chain[b], d, i, [tag |-> h.h2, entry |-> e])
      BY <2>1, <2>2, <2>6, AppendIs
    <2>8. d \in Seq(SlotSet)
      BY <2>7 DEF AppendsAt
    <2> HIDE DEF d
    <2>9. /\ chain \in [0 .. m - 1 -> Seq(SlotSet)] /\ chain[b] = d
          /\ \A a \in 0 .. m - 1 : a # b => chain[a] = tb.chain[a]
      BY <2>3, <2>5, <2>8
    <2> HIDE DEF chain
    <2>10. /\ nt \in TablesOf(m) /\ nt.len = m /\ nt.size = tb.size /\ nt.lock = tb.lock
           /\ nt.chain = chain
      BY <2>3, <2>9, Zenon DEF TablesOf
    <2>11. nt \in TableSet
      BY <2>3, <2>10, IsTable
    <2> HIDE DEF nt
    <2>12. Receives(tb, nt, b, [tag |-> h.h2, entry |-> e])
      BY <2>5, <2>7, <2>9, <2>10, <2>11 DEF Receives, SameBut
    <2> QED
      BY <2>1, <2>4, <2>12 DEF b, h, e
  <1> QED
    BY <1>1, <1>2

LEMMA CopiesTypes ==
  ASSUME hash \in [Keys -> [h1 : Nat, h2 : Nat \ {0}]], NEW chain \in Seq(SlotSet), NEW tb \in TableSet
  PROVE  \A i \in 0 .. Len(chain) : SameBut(tb, Copies(chain, tb)[i])
  <1> DEFINE f == Copies(chain, tb)
             T == {i \in 0 .. Len(chain) : ~ SameBut(tb, f[i])}
  <1>1. f[0] = tb /\ \A i \in 1 .. Len(chain) : f[i] = CopySlot(chain[i], f[i - 1])
    BY CopiesIs
  <1> HIDE DEF f
  <1>2. ASSUME T # {} PROVE FALSE
    <2>1. PICK i \in T : \A n \in T : i <= n
      <3>1. T \subseteq Nat
        OBVIOUS
      <3> HIDE DEF T
      <3> QED BY <1>2, <3>1, LeastNumber, Zenon
    <2>2. i \in 0 .. Len(chain) /\ ~ SameBut(tb, f[i])
      OBVIOUS
    <2>3. i # 0
      BY <1>1, <2>2 DEF SameBut
    <2>4. i - 1 \in 0 .. Len(chain) /\ i \in 1 .. Len(chain) /\ ~ (i <= i - 1)
      BY <2>2, <2>3
    <2>5. SameBut(tb, f[i - 1])
      BY <2>1, <2>4
    <2>6. chain[i] \in SlotSet /\ f[i] = CopySlot(chain[i], f[i - 1]) /\ f[i - 1] \in TableSet
      BY <1>1, <2>4, <2>5 DEF SameBut
    <2>7. SameBut(f[i - 1], f[i])
      <3>1. CASE chain[i].entry = Nil
        BY <2>6, <3>1, CopySlotIs, Zenon DEF SameBut
      <3>2. CASE chain[i].entry # Nil
        BY <2>6, <3>2, CopySlotIs, Zenon DEF Receives
      <3> QED
        BY <3>1, <3>2
    <2> QED
      BY <2>2, <2>5, <2>7 DEF SameBut
  <1> QED
    BY <1>2 DEF f

-----------------------------------------------------------------------------
(* The invariant of the control: who is where in a call and in a resize      *)

Writing == {"locked", "apply", "tagged", "untagged"}
OnKey == {"attempt", "scan", "entries", "lock", "count"} \cup Writing
Plain == Places \ {"prepare", "claim", "copy", "publish", "finish", "leave"}

Holder(t) == local[t].at \in Resizing /\ Owner(t)
Helper(t) == local[t].at \in {"claim", "copy", "leave"} /\ ~Owner(t)
Joined(t) == \/ Helper(t)
             \/ local[t].at = "register" /\ local[t].seq = resizeSeq

(* The buckets of a table and of its successor that are claimed together.    *)
Base(n) == Min({tables[n].len, tables[n + 1].len})

(* What a thread remembers where it is. *)
LocalOK(t) ==
    LET l == local[t] IN
    /\ l.at = "idle" => l = Idle
    /\ l.at # "idle" => l.tab \in 1 .. table /\ l.op \in Ops
    /\ l.at # "idle" /\ l.hint # "clear" => l.key \in Keys /\ l.value \in Nat
    /\ l.hint = "clear" => l.key = Nil
    /\ l.at \in OnKey => l.hint # "clear"
    /\ l.at \in {"resize", "cas", "prepare"} => l.hint # Nil
    /\ l.delta # 0 => l.at \in {"untagged", "count"}
    /\ l.at = "untagged" => l.delta = -1
    /\ l.at = "count" => l.delta # 0
    /\ l.at # "copy" => l.range = {} /\ l.copied = 0

(* Which resize a thread has seen: of an even number, none has begun. *)
RoleOK(t) ==
    LET l == local[t] IN
    /\ l.at = "cas" => l.seq % 2 = 0 /\ l.seq <= resizeSeq
    /\ l.at = "help" => l.seq <= resizeSeq /\ (l.seq % 2 = 1 \/ l.seq < resizeSeq)
    /\ l.at = "register" => l.seq % 2 = 1 /\ l.seq <= resizeSeq
    /\ Helper(t) => l.seq = resizeSeq /\ l.seq % 2 = 1
    /\ l.at \in {"prepare", "publish", "finish"} => Owner(t)
    /\ l.at = "leave" => ~Owner(t)
    /\ Holder(t) => l.seq + 1 = resizeSeq /\ l.hint # Nil

(* The tables there are at each step of the owner of a resize. *)
PlaceOK(t) ==
    LET l == local[t] IN
    /\ l.at = "prepare" => nextTable = Nil /\ Len(tables) = table
    /\ l.at \in {"claim", "copy"} /\ Owner(t) =>
          nextTable = table + 1 /\ l.tab = table /\ l.new = table + 1 /\ l.hint # "clear"
    /\ l.at = "publish" =>
          /\ Len(tables) = table + 1 /\ l.tab = table /\ l.new = table + 1
          /\ IF l.hint = "clear" THEN nextTable = Nil
             ELSE nextTable = table + 1 /\ resizeIdx >= Base(table)
    /\ l.at = "finish" => nextTable = Nil /\ Len(tables) = table

(* Who helps, or is about to, has the tables of the resize under way. *)
JoinedOK(t) ==
    LET l == local[t] IN
    Joined(t) =>
          /\ l.new = Len(tables) /\ l.tab = l.new - 1
          /\ nextTable = Nil => table = l.new /\ resizeIdx >= Base(l.tab) /\ l.at # "copy"
          /\ \A o \in Threads : Holder(o) => local[o].at # "prepare" /\ local[o].hint # "clear"

(* A number is odd just while one owner has it, and a second table is his.   *)
ResizeOK ==
    /\ nextTable # Nil => nextTable = table + 1 /\ Len(tables) = table + 1 /\ resizeSeq % 2 = 1
    /\ Len(tables) # table =>
          \E o \in Threads : Holder(o) /\ local[o].at \in {"claim", "copy", "publish"}
    /\ resizeSeq % 2 = 1 => \E o \in Threads : Holder(o)
    /\ \A o, p \in Threads : Holder(o) /\ Holder(p) => o = p
    /\ wiped \subseteq 1 .. table - 1

HelpersOK == Cardinality({t \in Threads : Helper(t)}) = resizeHelpers

(* Bucket b of the present table is copied, for good.                        *)
Done(b) == b % Base(table) < resizeIdx /\ \A u \in Threads : b \notin local[u].range

(* A writer has the lock of a bucket that is not copied yet. *)
LandOK(t) ==
    local[t].at \in Writing =>
        /\ tables[local[t].tab].lock[Root(t)] = t
        /\ local[t].tab = table /\ nextTable # Nil => ~Done(Root(t))
        /\ local[t].at # "locked" => local[t].tab = table \/ local[t].tab \in wiped

(* A bucket is copied by one thread. *)
RangeOK ==
    /\ \A u \in Threads : \A b \in local[u].range :
          nextTable # Nil /\ b \in 0 .. tables[table].len - 1 /\ b % Base(table) < resizeIdx
    /\ \A u, v \in Threads : \A b \in local[u].range : b \in local[v].range => u = v

ThreadOK(t) == LocalOK(t) /\ RoleOK(t) /\ PlaceOK(t) /\ JoinedOK(t)
Control == Typed /\ ResizeOK /\ HelpersOK /\ RangeOK /\ \A t \in Threads : ThreadOK(t)
ControlLand == Control /\ \A t \in Threads : LandOK(t)

LEMMA BaseIs ==
  ASSUME Typed, NEW n \in Nat, n > 0, n + 1 <= Len(tables)
  PROVE  /\ Base(n) \in Nat /\ Base(n) > 0
         /\ Base(n) <= tables[n].len /\ Base(n) <= tables[n + 1].len
         /\ Base(n) = tables[n].len \/ Base(n) = tables[n + 1].len
  <1>1. tables[n] \in TableSet /\ tables[n + 1] \in TableSet
    BY DEF Typed
  <1>2. tables[n].len \in Nat /\ tables[n].len > 0 /\ tables[n + 1].len \in Nat
        /\ tables[n + 1].len > 0
    BY <1>1, TableIs
  <1> DEFINE S == {tables[n].len, tables[n + 1].len}
  <1>3. Min(S) \in S /\ \A m \in S : Min(S) <= m
    BY <1>2, MinIs, Zenon
  <1> QED
    BY <1>2, <1>3 DEF Base

(* The tables keep their lengths. *)
Shaped ==
    /\ tables' \in Seq(TableSet) /\ Len(tables') = Len(tables)
    /\ \A n \in 1 .. Len(tables) : tables'[n].len = tables[n].len

LEMMA BaseKept ==
  ASSUME Shaped, NEW n \in Nat, n > 0, n + 1 <= Len(tables), Typed
  PROVE  Base(n)' = Base(n)
  <1>1. n \in 1 .. Len(tables) /\ n + 1 \in 1 .. Len(tables)
    BY DEF Typed
  <1> QED
    BY <1>1, Zenon DEF Shaped, Base

LEMMA EditShapes ==
  ASSUME NEW n, NEW b, NEW c, NEW owner, Edited(n, b, c, owner)
  PROVE  Shaped
  BY DEF Edited, Shaped

LEMMA SameShapes ==
  ASSUME Typed, tables' = tables
  PROVE  Shaped
  BY DEF Typed, Shaped

(* t moves to l, and the resize is where it was.                             *)
Moves(t, l) ==
    /\ l \in Locals /\ local' = [local EXCEPT ![t] = l] /\ seen' \in [Threads -> SUBSET Values]
    /\ calls' \in Nat /\ Shaped
    /\ hash' = hash /\ table' = table /\ nextTable' = nextTable /\ resizeSeq' = resizeSeq
    /\ resizeHelpers' = resizeHelpers /\ resizeIdx' = resizeIdx /\ wiped' = wiped

LEMMA MoveIs ==
  ASSUME Typed, NEW t \in Threads, NEW l, Moves(t, l)
  PROVE  /\ Typed' /\ local'[t] = l
         /\ \A u \in Threads : u # t => local'[u] = local[u]
         /\ \A u \in Threads : local[u] \in Locals /\ local'[u] \in Locals
  BY DEF Typed, Moves, Shaped

LEMMA PlainMove ==
  ASSUME Control, NEW t \in Threads, NEW l, Moves(t, l),
         local[t].at \in Plain, l.at \in Plain, l.range = {}, ThreadOK(t)'
  PROVE  Control'
  <1>1. /\ Typed /\ ResizeOK /\ HelpersOK /\ RangeOK /\ \A u \in Threads : ThreadOK(u)
    BY DEF Control
  <1>2. /\ Typed' /\ local'[t] = l /\ \A u \in Threads : u # t => local'[u] = local[u]
    BY <1>1, MoveIs
  <1>3. /\ hash' = hash /\ table' = table /\ nextTable' = nextTable /\ resizeSeq' = resizeSeq
        /\ resizeHelpers' = resizeHelpers /\ resizeIdx' = resizeIdx /\ wiped' = wiped
        /\ Len(tables') = Len(tables) /\ Shaped
    BY DEF Moves, Shaped
  <1>4. \A u \in Threads : Holder(u)' <=> Holder(u)
    <2>1. ~Holder(t) /\ ~Holder(t)'
      BY <1>2 DEF Holder, Plain, Resizing
    <2> QED
      BY <2>1, <1>2 DEF Holder, Owner
  <1>5. \A u \in Threads : Helper(u)' <=> Helper(u)
    <2>1. ~Helper(t) /\ ~Helper(t)'
      BY <1>2 DEF Helper, Plain
    <2> QED
      BY <2>1, <1>2 DEF Helper, Owner
  <1>6. table \in Nat /\ table > 0 /\ Len(tables) \in Nat
    BY <1>1 DEF Typed
  <1>7. Len(tables) = table + 1 => Base(table)' = Base(table)
    <2>1. ASSUME Len(tables) = table + 1 PROVE Base(table)' = Base(table)
      <3>1. table \in 1 .. Len(tables) /\ table + 1 \in 1 .. Len(tables)
        BY <1>6, <2>1
      <3>2. tables'[table].len = tables[table].len /\ tables'[table + 1].len = tables[table + 1].len
        BY <1>3, <3>1 DEF Shaped
      <3> QED
        BY <1>3, <3>2 DEF Base
    <2> QED
      BY <2>1
  <1>8. ASSUME NEW u \in Threads, u # t PROVE ThreadOK(u)'
    <2>1. local'[u] = local[u]
      BY <1>2, <1>8
    <2>2. LocalOK(u)'
      BY <1>1, <1>3, <2>1 DEF ThreadOK, LocalOK
    <2>3. RoleOK(u)'
      BY <1>1, <1>3, <1>4, <1>5, <2>1 DEF ThreadOK, RoleOK, Owner
    <2>4. PlaceOK(u)'
      BY <1>1, <1>3, <1>7, <2>1 DEF ThreadOK, PlaceOK, Owner
    <2>5. JoinedOK(u)'
      <3>1. Joined(u)' <=> Joined(u)
        BY <1>3, <1>5, <2>1 DEF Joined
      <3>2. \A o \in Threads : Holder(o) => o # t /\ local'[o] = local[o]
        BY <1>2 DEF Holder, Plain, Resizing
      <3>3. ASSUME Joined(u), nextTable = Nil PROVE Base(local[u].tab)' = Base(local[u].tab)
        <4> DEFINE n == local[u].tab
        <4>1. local[u].at # "idle"
          BY <3>3 DEF Joined, Helper
        <4>2. n \in Nat /\ n > 0 /\ n + 1 <= Len(tables)
          BY <1>1, <1>6, <3>3, <4>1 DEF ThreadOK, JoinedOK, LocalOK
        <4>3. local'[u].tab = n
          BY <2>1
        <4> HIDE DEF n
        <4>4. n \in 1 .. Len(tables) /\ n + 1 \in 1 .. Len(tables)
          BY <1>6, <4>2
        <4>5. tables'[n].len = tables[n].len /\ tables'[n + 1].len = tables[n + 1].len
          BY <1>3, <4>4 DEF Shaped
        <4> QED
          BY <4>3, <4>5 DEF Base, n
      <3> QED
        BY <1>1, <1>3, <1>4, <2>1, <3>1, <3>2, <3>3 DEF ThreadOK, JoinedOK
    <2> QED
      BY <2>2, <2>3, <2>4, <2>5 DEF ThreadOK
  <1>9. ResizeOK'
    <2>1. \A o \in Threads : Holder(o) => local'[o] = local[o]
      BY <1>2 DEF Holder, Plain, Resizing
    <2> QED
      BY <1>1, <1>3, <1>4, <2>1 DEF ResizeOK
  <1>10. HelpersOK'
    <2>1. {u \in Threads : Helper(u)}' = {u \in Threads : Helper(u)}
      BY <1>5
    <2> QED
      BY <1>1, <1>3, <2>1, Zenon DEF HelpersOK
  <1>11. RangeOK'
    <2>1. \A u \in Threads : local'[u].range = {} \/ local'[u].range = local[u].range
      BY <1>2
    <2>2. nextTable # Nil => Base(table)' = Base(table)
      BY <1>1, <1>7 DEF ResizeOK
    <2>3. tables'[table].len = tables[table].len
      BY <1>1, <1>3 DEF Typed, Shaped
    <2> QED
      BY <1>1, <1>3, <2>1, <2>2, <2>3 DEF RangeOK
  <1> QED
    BY <1>2, <1>8, <1>9, <1>10, <1>11 DEF Control

(* No other thread loses a lock. *)
LocksKept(t) ==
    \A n \in 1 .. Len(tables) : \A b \in 0 .. tables[n].len - 1 : \A u \in Threads \ {t} :
        tables[n].lock[b] = u => tables'[n].lock[b] = u

LEMMA OnTableIs ==
  ASSUME Control, NEW t \in Threads, local[t].at \in OnKey
  PROVE  /\ OnTable(t) /\ local[t].value \in Nat /\ local[t].op \in Ops
         /\ local[t] \in Locals /\ local[t].tab \in Nat /\ local[t].tab <= table
  <1>1. Typed /\ LocalOK(t)
    BY DEF Control, ThreadOK
  <1>2. local[t].at # "idle"
    BY DEF OnKey, Writing
  <1> QED
    BY <1>1, <1>2 DEF LocalOK, OnTable, Typed

LEMMA RootKept ==
  ASSUME Control, Shaped, hash' = hash, NEW u \in Threads, local[u].at \in OnKey,
         local'[u] = local[u]
  PROVE  Root(u)' = Root(u) /\ Root(u) \in 0 .. tables[local[u].tab].len - 1
  <1>1. OnTable(u) /\ Typed
    BY OnTableIs DEF Control
  <1>2. Root(u) \in 0 .. tables[local[u].tab].len - 1
    BY <1>1, RootIs
  <1>3. tables'[local[u].tab].len = tables[local[u].tab].len
    BY <1>1 DEF OnTable, Shaped
  <1> QED
    BY <1>2, <1>3 DEF Root, Home

LEMMA LandKept ==
  ASSUME ControlLand, NEW t \in Threads, NEW u \in Threads, u # t, LocksKept(t), Shaped,
         hash' = hash, local'[u] = local[u], table' = table, wiped' = wiped,
         nextTable' # Nil => nextTable # Nil /\ \A b \in 0 .. tables[table].len - 1 :
             tables[table].lock[b] = u /\ Done(b)' => Done(b)
  PROVE  LandOK(u)'
  <1>1. Control /\ LandOK(u)
    BY DEF ControlLand
  <1>2. CASE local[u].at \notin Writing
    BY <1>2 DEF LandOK
  <1>3. CASE local[u].at \in Writing
    <2>1. local[u].at \in OnKey
      BY <1>3 DEF OnKey
    <2>2. Root(u)' = Root(u) /\ Root(u) \in 0 .. tables[local[u].tab].len - 1 /\ OnTable(u)
      BY <1>1, <2>1, RootKept, OnTableIs
    <2>3. tables[local[u].tab] \in TableSet
      BY <1>1, <2>2 DEF Control, Typed, OnTable
    <2>4. Root(u) \in Nat
      BY <2>2, <2>3, TableIs
    <2>5. PICK b \in Nat : b = Root(u)
      BY <2>4
    <2>6. PICK n \in 1 .. Len(tables) : n = local[u].tab
      BY <2>2 DEF OnTable
    <2>7. tables[n].lock[b] = u
      BY <1>1, <1>3, <2>5, <2>6 DEF LandOK
    <2>8. tables'[n].lock[b] = u
      BY <2>2, <2>5, <2>6, <2>7 DEF LocksKept
    <2>9. n = table /\ nextTable' # Nil => ~Done(b)'
      BY <1>1, <1>3, <2>2, <2>5, <2>6, <2>7 DEF LandOK
    <2>10. Root(u)' = b /\ local'[u].tab = n
      BY <2>2, <2>5, <2>6
    <2>11. Done(Root(u))' => Done(b)'
      BY <2>10 DEF Done
    <2> QED
      BY <1>1, <1>3, <2>6, <2>8, <2>9, <2>10, <2>11 DEF LandOK
  <1> QED
    BY <1>2, <1>3

(* A step of t within a call, or to and from the gate of a resize.           *)
LEMMA PlainStep ==
  ASSUME ControlLand, NEW t \in Threads, NEW l, Moves(t, l), LocksKept(t),
         local[t].at \in Plain, l.at \in Plain, l.range = {}, ThreadOK(t)', LandOK(t)'
  PROVE  ControlLand'
  <1>1. Control /\ Typed /\ ResizeOK /\ RangeOK
    BY DEF ControlLand, Control
  <1>2. Control'
    BY <1>1, PlainMove
  <1>3. /\ local'[t] = l /\ \A u \in Threads : u # t => local'[u] = local[u]
    BY <1>1, MoveIs
  <1>4. Shaped /\ hash' = hash /\ table' = table /\ wiped' = wiped /\ nextTable' = nextTable
        /\ resizeIdx' = resizeIdx
    BY DEF Moves
  <1>5. ASSUME nextTable # Nil, NEW b \in Nat, Done(b)' PROVE Done(b)
    <2>1. local[t].range = {}
      BY <1>1 DEF Control, ThreadOK, LocalOK, Plain
    <2>2. Base(table)' = Base(table)
      <3>1. table \in 1 .. Len(tables) /\ table + 1 \in 1 .. Len(tables)
        BY <1>1, <1>5 DEF ResizeOK, Typed
      <3>2. tables'[table].len = tables[table].len /\ tables'[table + 1].len = tables[table + 1].len
        BY <1>4, <3>1 DEF Shaped
      <3> QED
        BY <1>4, <3>2 DEF Base
    <2>3. \A u \in Threads : b \notin local'[u].range => b \notin local[u].range
      BY <1>3, <2>1
    <2> QED
      BY <1>4, <1>5, <2>2, <2>3 DEF Done
  <1>6. ASSUME NEW u \in Threads, u # t PROVE LandOK(u)'
    <2>1. \A b \in 0 .. tables[table].len - 1 : b \in Nat
      BY <1>1, TableIs DEF Typed
    <2>2. nextTable' # Nil => nextTable # Nil /\ \A b \in 0 .. tables[table].len - 1 :
             tables[table].lock[b] = u /\ Done(b)' => Done(b)
      BY <1>4, <1>5, <2>1
    <2> QED
      BY <1>3, <1>4, <1>6, <2>2, LandKept
  <1> QED
    BY <1>2, <1>6 DEF ControlLand

LEMMA PlainRole ==
  ASSUME Typed, NEW t \in Threads, NEW l, Moves(t, l), l.at \in Plain \ {"cas", "help", "register"}
  PROVE  RoleOK(t)' /\ PlaceOK(t)' /\ JoinedOK(t)'
  <1>1. local'[t] = l
    BY MoveIs
  <1> QED
    BY <1>1 DEF RoleOK, PlaceOK, JoinedOK, Joined, Helper, Holder, Plain, Resizing

LEMMA CallStep ==
  ASSUME ControlLand, NEW t \in Threads, NEW l, Moves(t, l), LocksKept(t),
         local[t].at \in Plain, l.at \in Plain \ {"cas", "help", "register"},
         LocalOK(t)', LandOK(t)'
  PROVE  ControlLand'
  <1>1. Typed
    BY DEF ControlLand, Control
  <1>2. local'[t] = l
    BY <1>1, MoveIs
  <1>3. ThreadOK(t)'
    BY <1>1, PlainRole DEF ThreadOK
  <1>4. l.range = {}
    BY <1>2 DEF LocalOK, Plain
  <1> QED
    BY <1>3, <1>4, PlainStep

LEMMA EditKeepsLocks ==
  ASSUME NEW t \in Threads, NEW n, NEW b, NEW c, NEW owner, Edited(n, b, c, owner),
         tables[n].lock[b] \in {Nil, t}
  PROVE  LocksKept(t)
  BY MapSizes DEF Edited, LocksKept

LEMMA SameKeepsLocks ==
  ASSUME NEW t \in Threads, tables' = tables
  PROVE  LocksKept(t)
  BY DEF LocksKept

LEMMA SlotsAre ==
  ASSUME Typed, NEW n \in 1 .. Len(tables), NEW k \in Keys
  PROVE  /\ Slots(n, k) \subseteq DOMAIN Chain(n, k) /\ DOMAIN Chain(n, k) \subseteq Nat
         /\ \A i \in Slots(n, k) :
               /\ Chain(n, k)[i] \in SlotSet /\ Chain(n, k)[i].entry \in Entries
               /\ Chain(n, k)[i].entry.key = k /\ Chain(n, k)[i].entry.value \in Nat
         /\ Slots(n, k) # {} => Min(Slots(n, k)) \in Slots(n, k)
         /\ Value(n, k) \in Values
  <1> DEFINE c == Chain(n, k)
             S == Slots(n, k)
  <1>1. c \in Seq(SlotSet)
    BY HomeIs
  <1>2. DOMAIN c = 1 .. Len(c) /\ DOMAIN c \subseteq Nat
    BY <1>1
  <1>3. S \subseteq DOMAIN c /\ \A i \in S : c[i].entry # Nil /\ c[i].entry.key = k
    BY DEF Slots, Occupied
  <1>4. \A i \in S : c[i] \in SlotSet
    BY <1>1, <1>2, <1>3
  <1>5. \A i \in S : c[i].entry \in Entries /\ c[i].entry.value \in Nat
    BY <1>3, <1>4 DEF SlotSet, Entries
  <1>6. S # {} => Min(S) \in S
    BY <1>2, <1>3, MinIs
  <1>7. Value(n, k) = IF S = {} THEN Nil ELSE c[Min(S)].entry.value
    BY DEF Value
  <1>8. Value(n, k) \in Values
    BY <1>5, <1>6, <1>7 DEF Values
  <1> QED
    BY <1>2, <1>3, <1>4, <1>5, <1>6, <1>8

-----------------------------------------------------------------------------
(* The steps of a call outside the lock *)

(* What holds at the beginning of a step. *)
LEMMA Now ==
  ASSUME ControlLand, NEW t \in Threads
  PROVE  /\ Control /\ Typed /\ ThreadOK(t) /\ LandOK(t) /\ LocalOK(t) /\ RoleOK(t)
         /\ local[t] \in Locals /\ ResizeOK
         /\ table \in Nat /\ table > 0 /\ table <= Len(tables) /\ Len(tables) \in Nat
         /\ seen \in [Threads -> SUBSET Values] /\ calls \in Nat
  BY DEF ControlLand, Control, ThreadOK, Typed

LEMMA IdleIs ==
  /\ Idle \in Locals
  /\ \A at \in Places : [Idle EXCEPT !.at = at] \in Locals
  BY MapSizes, SMTT(30) DEF Idle, Locals, Places, Values

LEMMA CallControl ==
  ASSUME ControlLand, NEW t \in Threads, NEW op \in Ops \ {"clear"}, NEW k \in Keys, Call(t, op, k)
  PROVE  ControlLand'
  <1> DEFINE l == [Idle EXCEPT !.at = FirstStep(op), !.op = op, !.key = k,
                               !.value = calls', !.tab = table, !.pos = 1]
  <1>1. /\ Typed /\ table \in 1 .. Len(tables) /\ table \in Nat /\ calls' \in Nat
        /\ seen \in [Threads -> SUBSET Values] /\ table > 0
    BY Now DEF Call
  <1>2. l \in Locals
    BY <1>1, Zenon DEF Idle, Locals, FirstStep, Places, Values, Ops
  <1>3. l.at \in {"lock", "scan"} /\ l.tab = table /\ l.op = op /\ l.key = k /\ l.value = calls'
        /\ l.hint = Nil /\ l.delta = 0 /\ l.range = {} /\ l.copied = 0
    BY DEF Idle, FirstStep
  <1>4. Value(table, k) \in Values
    BY <1>1, SlotsAre
  <1>5. seen' \in [Threads -> SUBSET Values]
    BY <1>1, <1>4 DEF Call
  <1>6. tables' = tables /\ Shaped /\ LocksKept(t)
    BY <1>1, SameShapes, SameKeepsLocks DEF Call
  <1>7. Moves(t, l)
    BY <1>1, <1>2, <1>5, <1>6 DEF Moves, Call, resizing
  <1>8. local'[t] = l /\ table' = table
    BY <1>1, <1>7, MoveIs, Zenon DEF Moves
  <1> HIDE DEF l
  <1>9. LocalOK(t)'
    BY <1>1, <1>3, <1>8, MapSizes DEF LocalOK, OnKey
  <1>10. LandOK(t)'
    BY <1>3, <1>8 DEF LandOK, Writing
  <1>11. local[t].at \in Plain /\ l.at \in Plain \ {"cas", "help", "register"}
    BY <1>3 DEF Call, At, Plain, Places
  <1> QED
    BY <1>6, <1>7, <1>9, <1>10, <1>11, CallStep

(* l is the same call as m. *)
SameCall(l, m) ==
    /\ l.op = m.op /\ l.key = m.key /\ l.value = m.value /\ l.tab = m.tab /\ l.hint = m.hint
    /\ l.delta = m.delta /\ l.range = m.range /\ l.copied = m.copied

Counted == {"idle", "untagged", "count", "copy"}

LEMMA KeepsLocal ==
  ASSUME ControlLand, NEW t \in Threads, NEW l, local'[t] = l, table' = table,
         local[t].at \notin Counted, l.at \notin Counted, SameCall(l, local[t]),
         l.at \in OnKey => l.hint # "clear",
         l.at \in {"resize", "cas", "prepare"} => l.hint # Nil
  PROVE  LocalOK(t)' /\ l.range = {}
  <1>1. LocalOK(t)
    BY Now
  <1> QED
    BY <1>1 DEF LocalOK, SameCall, Counted

(* The call ends. *)
LEMMA EndStep ==
  ASSUME ControlLand, NEW t \in Threads, Moves(t, Idle), LocksKept(t), local[t].at \in Plain
  PROVE  ControlLand'
  <1>1. local'[t] = Idle
    BY Now, MoveIs
  <1>2. /\ Idle.at = "idle" /\ Idle.delta = 0 /\ Idle.range = {} /\ Idle.copied = 0
        /\ Idle.hint = Nil
    BY DEF Idle
  <1>3. LocalOK(t)'
    BY <1>1, <1>2, MapSizes DEF LocalOK, OnKey, Writing
  <1>4. LandOK(t)'
    BY <1>1, <1>2 DEF LandOK, Writing
  <1>5. "idle" \in Plain \ {"cas", "help", "register"}
    BY DEF Plain, Places
  <1> QED
    BY <1>2, <1>3, <1>4, <1>5, CallStep

(* A step of a call that does not write. *)
LEMMA ReadStep ==
  ASSUME ControlLand, NEW t \in Threads, NEW l, Moves(t, l), LocksKept(t),
         local[t].at \in Plain \ Counted, SameCall(l, local[t]),
         l.at \in Plain \ ({"cas", "help", "register"} \cup Writing \cup Counted),
         l.at \in OnKey => l.hint # "clear",
         l.at = "resize" => l.hint # Nil
  PROVE  ControlLand'
  <1>1. local'[t] = l /\ table' = table
    BY Now, MoveIs, Zenon DEF Moves
  <1>2. LocalOK(t)'
    BY <1>1, KeepsLocal DEF Plain
  <1>3. LandOK(t)'
    BY <1>1 DEF LandOK
  <1> QED
    BY <1>2, <1>3, CallStep

(* What a step leaves alone outside the tables, the calls and what is seen.  *)
Still ==
    /\ hash' = hash /\ calls' = calls /\ wiped' = wiped /\ table' = table
    /\ nextTable' = nextTable /\ resizeSeq' = resizeSeq /\ resizeHelpers' = resizeHelpers
    /\ resizeIdx' = resizeIdx

LEMMA StillMoves ==
  ASSUME ControlLand, NEW t \in Threads, NEW l \in Locals, local' = [local EXCEPT ![t] = l],
         Still, Shaped, seen' = seen
  PROVE  Moves(t, l)
  BY Now DEF Moves, Still

LEMMA EndMoves ==
  ASSUME ControlLand, NEW t \in Threads, local' = [local EXCEPT ![t] = Idle],
         Still, Shaped, seen' = [seen EXCEPT ![t] = {}]
  PROVE  Moves(t, Idle)
  BY Now, IdleIs DEF Moves, Still

(* The same call at another place. *)
LEMMA GoesIs ==
  ASSUME NEW l \in Locals, NEW place \in Places
  PROVE  /\ [l EXCEPT !.at = place] \in Locals /\ [l EXCEPT !.at = place].at = place
         /\ SameCall([l EXCEPT !.at = place], l)
         /\ [l EXCEPT !.at = place].seq = l.seq /\ [l EXCEPT !.at = place].new = l.new
         /\ [l EXCEPT !.at = place].slot = l.slot
  BY DEF Locals, SameCall

LEMMA ReadControl ==
  ASSUME ControlLand, NEW t \in Threads, ReadMeta(t) \/ ReadEntry(t) \/ ReadNext(t)
  PROVE  ControlLand'
  <1>1. tables' = tables /\ Still
    BY DEF ReadMeta, ReadEntry, ReadNext, Still, fixed, resizing
  <1>2. Shaped /\ LocksKept(t)
    BY <1>1, Now, SameShapes, SameKeepsLocks
  <1>3. local[t].at \in {"scan", "entries"}
    BY DEF ReadMeta, ReadEntry, ReadNext, At
  <1>4. local[t].at \in Plain \ Counted /\ local[t].at \in OnKey
    BY <1>3 DEF Plain, Places, Counted, OnKey
  <1>5. local[t].hint # "clear"
    BY <1>4, Now DEF LocalOK
  <1>6. ASSUME NEW l \in Locals, local' = [local EXCEPT ![t] = l], seen' = seen,
               SameCall(l, local[t]), l.at \in {"scan", "entries", "lock"}
        PROVE  ControlLand'
    <2>1. l.at \in Plain \ ({"cas", "help", "register"} \cup Writing \cup Counted)
      BY <1>6 DEF Plain, Places, Counted, Writing
    <2>2. l.hint # "clear" /\ l.at # "resize"
      BY <1>5, <1>6 DEF SameCall
    <2> QED
      BY <1>1, <1>2, <1>4, <1>6, <2>1, <2>2, StillMoves, ReadStep, Zenon
  <1>7. ASSUME Goes(t, "lock") PROVE ControlLand'
    <2>1. "lock" \in Places
      BY DEF Places
    <2> QED
      BY <1>6, <1>7, <2>1, Now, GoesIs, Zenon DEF Goes, Becomes
  <1>8. ASSUME NEW v, Returns(t, v) PROVE ControlLand'
    BY <1>1, <1>2, <1>4, <1>8, EndMoves, EndStep, Zenon DEF Returns
  <1>9. CASE ReadMeta(t)
    <2> DEFINE marks == {i \in Bucket(local[t].pos) :
                 Chain(local[t].tab, local[t].key)[i].tag = hash[local[t].key].h2}
               l == [local[t] EXCEPT !.at = "entries", !.marks = marks]
    <2>1. Bucket(local[t].pos) \subseteq Int
      BY Now, MapSizes DEF Bucket
    <2>2. marks \in SUBSET Int
      BY <2>1
    <2>3. local' = [local EXCEPT ![t] = l] /\ seen' = seen
      BY <1>9 DEF ReadMeta, Becomes
    <2> HIDE DEF marks
    <2>4. l \in Locals /\ SameCall(l, local[t]) /\ l.at = "entries"
      BY <2>2, Now, ZenonT(30) DEF Locals, SameCall, Places
    <2> QED
      BY <1>6, <2>3, <2>4, Zenon
  <1>10. CASE ReadEntry(t)
    <2> DEFINE i == Min(local[t].marks)
               l == [local[t] EXCEPT !.marks = @ \ {i}]
    <2>1. l \in Locals /\ SameCall(l, local[t]) /\ l.at = local[t].at
      <3> HIDE DEF i
      <3> QED BY Now, Zenon DEF Locals, SameCall
    <2>2. \/ \E v : Found(t, v)
          \/ local' = [local EXCEPT ![t] = l] /\ seen' = seen
      BY <1>10 DEF ReadEntry, Becomes
    <2> HIDE DEF l
    <2> QED
      BY <1>3, <1>6, <1>7, <1>8, <2>1, <2>2 DEF Found
  <1>11. CASE ReadNext(t)
    <2> DEFINE l == [local[t] EXCEPT !.at = "scan", !.pos = local[t].pos + 1]
    <2>3. local[t].pos + 1 \in Nat /\ local[t] \in Locals
      BY Now DEF Locals
    <2>1. l \in Locals /\ SameCall(l, local[t]) /\ l.at = "scan"
      BY <2>3, Zenon DEF Locals, SameCall, Places
    <2>2. \/ Missed(t)
          \/ local' = [local EXCEPT ![t] = l] /\ seen' = seen
      BY <1>11 DEF ReadNext, Becomes
    <2> HIDE DEF l
    <2> QED
      BY <1>6, <1>7, <1>8, <2>1, <2>2 DEF Missed
  <1> QED
    BY <1>9, <1>10, <1>11

LEMMA ClearControl ==
  ASSUME ControlLand, NEW t \in Threads, Clear(t)
  PROVE  ControlLand'
  <1> DEFINE l == [Idle EXCEPT !.at = "resize", !.op = "clear", !.hint = "clear", !.tab = table]
  <1>1. l \in Locals
    BY Now, Zenon DEF Idle, Locals, Places, Values, Ops
  <1>2. l.at = "resize" /\ l.tab = table /\ l.op = "clear" /\ l.hint = "clear" /\ l.key = Nil
        /\ l.delta = 0 /\ l.range = {} /\ l.copied = 0
    BY DEF Idle
  <1>3. local' = [local EXCEPT ![t] = l] /\ tables' = tables /\ seen' = seen /\ table' = table
        /\ calls' = calls + 1 /\ local[t].at = "idle"
    BY DEF Clear, Becomes, At
  <1>4. Shaped /\ LocksKept(t)
    BY <1>3, Now, SameShapes, SameKeepsLocks
  <1> HIDE DEF l
  <1>5. Moves(t, l)
    BY <1>1, <1>3, <1>4, Now DEF Moves, Clear, resizing
  <1>6. local'[t] = l
    BY <1>5, Now, MoveIs
  <1>7. LocalOK(t)'
    BY <1>2, <1>3, <1>6, Now, MapSizes DEF LocalOK, OnKey, Writing, Ops
  <1>8. LandOK(t)'
    BY <1>2, <1>6 DEF LandOK, Writing
  <1>9. local[t].at \in Plain /\ l.at \in Plain \ {"cas", "help", "register"}
    BY <1>2, <1>3 DEF Plain, Places
  <1> QED
    BY <1>4, <1>5, <1>7, <1>8, <1>9, CallStep

LEMMA BeginIs ==
  ASSUME NEW op \in Ops, NEW k \in Keys, NEW v \in Nat, NEW n \in Nat
  PROVE  [Idle EXCEPT !.at = FirstStep(op), !.op = op, !.key = k, !.value = v,
                      !.tab = n, !.pos = 1] \in Locals
  BY Zenon DEF Idle, Locals, FirstStep, Places, Values

LEMMA AttemptControl ==
  ASSUME ControlLand, NEW t \in Threads, Attempt(t)
  PROVE  ControlLand'
  <1> DEFINE m == local[t]
             l == [Idle EXCEPT !.at = FirstStep(m.op), !.op = m.op, !.key = m.key,
                               !.value = m.value, !.tab = table, !.pos = 1]
  <1>1. /\ local[t].at = "attempt" /\ local' = [local EXCEPT ![t] = l] /\ tables' = tables
        /\ seen' = seen /\ Still
    BY DEF Attempt, Becomes, At, Still, fixed, resizing
  <1>2. m \in Locals /\ LocalOK(t) /\ Typed
    BY Now
  <1>3. m.op \in Ops /\ m.key \in Keys /\ m.value \in Nat
    BY <1>1, <1>2 DEF LocalOK, OnKey
  <1> HIDE DEF m
  <1>4. l \in Locals
    BY <1>3, Now, BeginIs, Zenon
  <1>5. l.at \in {"lock", "scan"} /\ l.tab = table /\ l.op = m.op /\ l.key = m.key
        /\ l.value = m.value /\ l.hint = Nil /\ l.delta = 0 /\ l.range = {} /\ l.copied = 0
    BY DEF Idle, FirstStep
  <1> HIDE DEF l
  <1>6. Shaped /\ LocksKept(t)
    BY <1>1, <1>2, SameShapes, SameKeepsLocks
  <1>7. Moves(t, l)
    BY <1>1, <1>4, <1>6, StillMoves, Zenon
  <1>8. local'[t] = l /\ table' = table
    BY <1>2, <1>7, MoveIs, Zenon DEF Moves
  <1>9. LocalOK(t)'
    BY <1>3, <1>5, <1>8, Now, MapSizes DEF LocalOK, OnKey
  <1>10. LandOK(t)'
    BY <1>5, <1>8 DEF LandOK, Writing
  <1>11. local[t].at \in Plain /\ l.at \in Plain \ {"cas", "help", "register"}
    BY <1>1, <1>5 DEF Plain, Places
  <1> QED
    BY <1>6, <1>7, <1>9, <1>10, <1>11, CallStep

-----------------------------------------------------------------------------
(* The steps of a call under the lock *)

LEMMA DoneKept ==
  ASSUME ControlLand, NEW t \in Threads, NEW l, Moves(t, l), local[t].at \in Plain,
         nextTable # Nil, NEW b \in Nat, Done(b)'
  PROVE  Done(b)
  <1>1. Control /\ Typed /\ ResizeOK /\ LocalOK(t)
    BY Now
  <1>2. /\ local'[t] = l /\ \A u \in Threads : u # t => local'[u] = local[u]
    BY <1>1, MoveIs
  <1>3. Shaped /\ table' = table /\ resizeIdx' = resizeIdx
    BY DEF Moves
  <1>4. local[t].range = {}
    BY <1>1 DEF LocalOK, Plain
  <1>5. Base(table)' = Base(table)
    <2>1. table \in 1 .. Len(tables) /\ table + 1 \in 1 .. Len(tables)
      BY <1>1 DEF ResizeOK, Typed
    <2>2. tables'[table].len = tables[table].len /\ tables'[table + 1].len = tables[table + 1].len
      BY <1>3, <2>1 DEF Shaped
    <2> QED
      BY <1>3, <2>2 DEF Base
  <1>6. \A u \in Threads : b \notin local'[u].range => b \notin local[u].range
    BY <1>2, <1>4
  <1> QED
    BY <1>3, <1>5, <1>6 DEF Done

(* The holder of a lock goes on with it. *)
LEMMA HoldStep ==
  ASSUME ControlLand, NEW t \in Threads, NEW l, Moves(t, l), LocksKept(t),
         local[t].at \in Writing, l.at \in Writing, l.tab = local[t].tab, l.key = local[t].key,
         tables'[local[t].tab].lock[Root(t)] = t, LocalOK(t)',
         l.at # "locked" => l.tab = table \/ l.tab \in wiped
  PROVE  ControlLand'
  <1>1. local'[t] = l /\ Shaped /\ hash' = hash /\ table' = table /\ wiped' = wiped
        /\ nextTable' = nextTable
    BY Now, MoveIs, Zenon DEF Moves
  <1>2. OnTable(t) /\ LandOK(t) /\ Typed
    <2>1. local[t].at \in OnKey
      BY DEF OnKey
    <2> QED
      BY <2>1, Now, OnTableIs
  <1>3. Root(t) \in 0 .. tables[local[t].tab].len - 1
    BY <1>2, RootIs
  <1>4. tables[local[t].tab] \in TableSet
    BY <1>2 DEF Typed, OnTable
  <1>5. PICK b \in Nat : b = Root(t)
    BY <1>3, <1>4, TableIs
  <1>6. Root(t)' = b
    <2>1. tables'[local[t].tab].len = tables[local[t].tab].len
      BY <1>1, <1>2 DEF Shaped, OnTable
    <2> QED
      BY <1>1, <1>5, <2>1 DEF Root, Home
  <1>7. local[t].at \in Plain /\ l.at \in Plain \ {"cas", "help", "register"}
    BY DEF Writing, Plain, Places
  <1>8. l.tab = table /\ nextTable # Nil => ~Done(b)'
    BY <1>2, <1>5, <1>7, DoneKept DEF LandOK
  <1>9. Done(Root(t))' => Done(b)'
    BY <1>6 DEF Done
  <1>10. LandOK(t)'
    BY <1>1, <1>5, <1>6, <1>8, <1>9 DEF LandOK
  <1> QED
    BY <1>7, <1>10, CallStep

LEMMA HolderIs ==
  ASSUME ControlLand, NEW t \in Threads, local[t].at \in Writing
  PROVE  /\ OnTable(t) /\ Root(t) \in 0 .. tables[local[t].tab].len - 1
         /\ tables[local[t].tab].lock[Root(t)] = t /\ local[t].hint # "clear"
         /\ local[t] \in Locals /\ local[t].at \in Plain
         /\ local[t].op \in Ops /\ local[t].value \in Nat
         /\ Chain(local[t].tab, local[t].key) \in Seq(SlotSet)
         /\ hash[local[t].key].h2 \in Nat
         /\ local[t].range = {} /\ local[t].copied = 0
         /\ local[t].tab <= table
  <1>1. local[t].at \in OnKey /\ local[t].at \in Plain
    BY DEF Writing, OnKey, Plain, Places
  <1>2. OnTable(t) /\ local[t].op \in Ops /\ local[t].value \in Nat /\ local[t].tab <= table
    BY <1>1, Now, OnTableIs
  <1>3. hash[local[t].key].h2 \in Nat
    BY <1>2, Now DEF OnTable, Typed
  <1>4. local[t].range = {} /\ local[t].copied = 0
    BY Now DEF LocalOK, Writing
  <1> QED
    BY <1>1, <1>2, <1>3, <1>4, Now, RootIs DEF LandOK, LocalOK

(* The store under the lock, which may release it. *)
LEMMA WriteKeeps ==
  ASSUME ControlLand, NEW t \in Threads, local[t].at \in Writing, NEW c, NEW owner \in {Nil, t},
         Edited(local[t].tab, Root(t), c, owner)
  PROVE  Shaped /\ LocksKept(t) /\ tables'[local[t].tab].lock[Root(t)] = owner
  <1>1. /\ OnTable(t) /\ Root(t) \in 0 .. tables[local[t].tab].len - 1
        /\ tables[local[t].tab].lock[Root(t)] = t
    BY HolderIs
  <1>2. Shaped
    BY EditShapes
  <1>3. LocksKept(t)
    BY <1>1, EditKeepsLocks
  <1>4. tables'[local[t].tab].lock[Root(t)] = owner
    BY <1>1 DEF Edited, OnTable
  <1> QED
    BY <1>2, <1>3, <1>4

(* The call goes on without the lock. *)
LEMMA FreeStep ==
  ASSUME ControlLand, NEW t \in Threads, NEW l, Moves(t, l), LocksKept(t),
         local[t].at \in Writing, l.at \in {"attempt", "resize", "count"},
         l.hint # "clear", l.at = "resize" => l.hint # Nil,
         l.tab = local[t].tab, l.op = local[t].op, l.key = local[t].key, l.value = local[t].value,
         l.range = {}, l.copied = 0, l.delta # 0 <=> l.at = "count"
  PROVE  ControlLand'
  <1>1. local'[t] = l /\ table' = table
    BY Now, MoveIs, Zenon DEF Moves
  <1>2. LocalOK(t) /\ local[t].at # "idle" /\ local[t].hint # "clear"
    BY Now, HolderIs DEF Writing
  <1>3. LocalOK(t)'
    BY <1>1, <1>2, HolderIs DEF LocalOK, OnKey, Writing, OnTable
  <1>4. LandOK(t)'
    BY <1>1 DEF LandOK, Writing
  <1>5. local[t].at \in Plain /\ l.at \in Plain \ {"cas", "help", "register"}
    BY DEF Writing, Plain, Places
  <1> QED
    BY <1>3, <1>4, <1>5, CallStep

LEMMA LockControl ==
  ASSUME ControlLand, NEW t \in Threads, Lock(t)
  PROVE  ControlLand'
  <1>1. local[t].at = "lock" /\ Still /\ seen' = seen
    BY DEF Lock, At, Still, Becomes, Goes, fixed, resizing
  <1>2. local[t].at \in OnKey /\ local[t].at \in Plain \ Counted
    BY <1>1 DEF OnKey, Plain, Places, Counted
  <1>3. OnTable(t) /\ local[t].hint # "clear"
    BY <1>2, Now, OnTableIs DEF LocalOK
  <1>4. CASE resizeSeq % 2 = 1
    <2> DEFINE l == [local[t] EXCEPT !.at = "help", !.seq = resizeSeq]
    <2>1. resizeSeq \in Nat
      BY Now DEF Typed
    <2>2. l \in Locals /\ SameCall(l, local[t]) /\ l.at = "help" /\ l.seq = resizeSeq
      BY <2>1, Now, ZenonT(30) DEF Locals, SameCall, Places
    <2>3. local' = [local EXCEPT ![t] = l] /\ tables' = tables
      BY <1>4 DEF Lock, Becomes
    <2> HIDE DEF l
    <2>4. Shaped /\ LocksKept(t)
      BY <2>3, Now, SameShapes, SameKeepsLocks
    <2>5. Moves(t, l)
      BY <1>1, <2>2, <2>3, <2>4, StillMoves, Zenon
    <2>6. local'[t] = l /\ table' = table /\ resizeSeq' = resizeSeq
      BY <2>5, Now, MoveIs, Zenon DEF Moves
    <2>7. l.at \in Plain /\ l.at \notin Counted \cup OnKey \cup {"resize", "cas", "prepare"}
      BY <2>2 DEF Plain, Places, Counted, OnKey, Writing
    <2>8. LocalOK(t)' /\ l.range = {}
      BY <1>2, <2>2, <2>6, <2>7, KeepsLocal
    <2>9. RoleOK(t)' /\ PlaceOK(t)' /\ JoinedOK(t)'
      BY <1>4, <2>1, <2>2, <2>6 DEF RoleOK, PlaceOK, JoinedOK, Joined, Helper, Holder, Resizing
    <2>10. LandOK(t)'
      BY <2>2, <2>6 DEF LandOK, Writing
    <2> QED
      BY <1>2, <2>4, <2>5, <2>7, <2>8, <2>9, <2>10, PlainStep DEF ThreadOK
  <1>5. CASE resizeSeq % 2 # 1
    <2> DEFINE l == [local[t] EXCEPT !.at = "locked"]
    <2>0. "locked" \in Places /\ local[t] \in Locals
      BY Now DEF Places
    <2>1. l \in Locals /\ SameCall(l, local[t]) /\ l.at = "locked"
      BY <2>0, GoesIs
    <2>2. local' = [local EXCEPT ![t] = l] /\ tables' = LockIs(t, t)
          /\ tables[local[t].tab].lock[Root(t)] = Nil
      BY <1>5 DEF Lock, Becomes, Goes
    <2> HIDE DEF l
    <2>3. t \in Owners
      BY DEF Owners
    <2>4. PICK c : Edited(local[t].tab, Root(t), c, t)
      BY <1>3, <2>2, <2>3, Now, LockEdits
    <2>5. Shaped /\ LocksKept(t)
      BY <2>2, <2>4, EditShapes, EditKeepsLocks
    <2>6. Moves(t, l)
      BY <1>1, <2>1, <2>2, <2>5, StillMoves, Zenon
    <2>7. local'[t] = l /\ table' = table /\ nextTable' = nextTable /\ hash' = hash
      BY <2>6, Now, MoveIs, Zenon DEF Moves
    <2>8. l.at \in Plain \ {"cas", "help", "register"}
          /\ l.at \notin Counted \cup {"resize", "cas", "prepare"}
      BY <2>1 DEF Plain, Places, Counted
    <2>9. LocalOK(t)'
      BY <1>2, <1>3, <2>1, <2>7, <2>8, KeepsLocal DEF SameCall
    <2>10. Root(t) \in 0 .. tables[local[t].tab].len - 1 /\ Typed
      BY <1>3, Now, RootIs
    <2>11. Root(t)' = Root(t)
      <3>1. tables'[local[t].tab].len = tables[local[t].tab].len
        BY <1>3, <2>5 DEF Shaped, OnTable
      <3> QED
        BY <2>1, <2>7, <3>1 DEF Root, Home, SameCall
    <2>12. tables'[local[t].tab].lock[Root(t)] = t
      BY <1>3, <2>4, <2>10 DEF Edited, OnTable
    <2>13. nextTable = Nil
      BY <1>5, Now DEF ResizeOK
    <2>14. LandOK(t)'
      BY <2>1, <2>7, <2>11, <2>12, <2>13 DEF LandOK, SameCall
    <2> QED
      BY <1>2, <2>5, <2>6, <2>8, <2>9, <2>14, CallStep
  <1> QED
    BY <1>4, <1>5

LEMMA CheckControl ==
  ASSUME ControlLand, NEW t \in Threads, Check(t)
  PROVE  ControlLand'
  <1>1. local[t].at = "locked" /\ Still /\ seen' = seen
    BY DEF Check, At, Still, Becomes, Goes, fixed, resizing
  <1>2. local[t].at \in Writing /\ local[t].at \notin Counted
    BY <1>1 DEF Writing, Counted
  <1>3. /\ OnTable(t) /\ local[t].hint # "clear" /\ tables[local[t].tab].lock[Root(t)] = t
        /\ local[t].range = {} /\ local[t].copied = 0
    BY <1>2, HolderIs
  <1>4. local[t].delta = 0
    BY <1>1, Now DEF LocalOK
  <1>5. CASE local[t].tab # table
    <2> DEFINE l == [local[t] EXCEPT !.at = "attempt"]
    <2>0. "attempt" \in Places /\ local[t] \in Locals
      BY Now DEF Places
    <2>1. l \in Locals /\ SameCall(l, local[t]) /\ l.at = "attempt"
      BY <2>0, GoesIs
    <2>2. local' = [local EXCEPT ![t] = l] /\ tables' = LockIs(t, Nil)
      BY <1>5 DEF Check, Becomes, Goes
    <2> HIDE DEF l
    <2>3. PICK c : Edited(local[t].tab, Root(t), c, Nil)
      <3>1. Nil \in Owners
        BY DEF Owners
      <3> QED
        BY <1>3, <2>2, <3>1, Now, LockEdits
    <2>4. Shaped /\ LocksKept(t)
      BY <1>2, <2>3, WriteKeeps
    <2>5. Moves(t, l)
      BY <1>1, <2>1, <2>2, <2>4, StillMoves, Zenon
    <2> QED
      BY <1>2, <1>3, <1>4, <2>1, <2>4, <2>5, FreeStep DEF SameCall
  <1>6. CASE local[t].tab = table
    <2> DEFINE l == [local[t] EXCEPT !.at = "apply"]
    <2>0. "apply" \in Places /\ local[t] \in Locals
      BY Now DEF Places
    <2>1. l \in Locals /\ SameCall(l, local[t]) /\ l.at = "apply"
      BY <2>0, GoesIs
    <2>2. local' = [local EXCEPT ![t] = l] /\ tables' = tables
      BY <1>6 DEF Check, Becomes, Goes
    <2> HIDE DEF l
    <2>3. Shaped /\ LocksKept(t)
      BY <2>2, Now, SameShapes, SameKeepsLocks
    <2>4. Moves(t, l)
      BY <1>1, <2>1, <2>2, <2>3, StillMoves, Zenon
    <2>5. local'[t] = l /\ table' = table
      BY <2>4, Now, MoveIs, Zenon DEF Moves
    <2>6. l.at \in Writing /\ l.at \notin Counted \cup {"resize", "cas", "prepare"}
      BY <2>1 DEF Writing, Counted
    <2>7. LocalOK(t)'
      BY <1>2, <1>3, <2>1, <2>5, <2>6, KeepsLocal, Zenon DEF SameCall
    <2>8. l.tab = local[t].tab /\ l.key = local[t].key
      BY <2>1 DEF SameCall
    <2>9. tables'[local[t].tab].lock[Root(t)] = t
      BY <1>3, <2>2
    <2> QED
      BY <1>2, <1>6, <2>3, <2>4, <2>6, <2>7, <2>8, <2>9, HoldStep
  <1> QED
    BY <1>5, <1>6

LEMMA ShowsTyped ==
  ASSUME ControlLand, NEW t \in Threads, NEW v \in Values, Shows(t, v)
  PROVE  seen' \in [Threads -> SUBSET Values]
  BY Now DEF Shows

(* The changes of the variables of a call, as one record. *)
LEMMA AsRecord ==
  ASSUME Typed, NEW t \in Threads, NEW at, NEW slot, NEW delta, NEW hint
  PROVE  /\ [local EXCEPT ![t].at = at, ![t].delta = delta]
            = [local EXCEPT ![t] = [local[t] EXCEPT !.at = at, !.delta = delta]]
         /\ [local EXCEPT ![t].at = at, ![t].slot = slot, ![t].delta = delta, ![t].hint = hint]
            = [local EXCEPT ![t] = [local[t] EXCEPT !.at = at, !.slot = slot, !.delta = delta,
                                                     !.hint = hint]]
  <1>1. local \in [Threads -> Locals] /\ local[t] \in Locals
    BY DEF Typed
  <1> QED
    BY <1>1, Zenon DEF Locals

LEMMA SlotsNat ==
  ASSUME ControlLand, NEW t \in Threads, OnTable(t), NEW i \in Slots(local[t].tab, local[t].key)
  PROVE  /\ i \in Nat /\ i \in DOMAIN Chain(local[t].tab, local[t].key)
         /\ Chain(local[t].tab, local[t].key)[i] \in SlotSet
         /\ Chain(local[t].tab, local[t].key)[i].entry \in Entries
  BY Now, SlotsAre DEF OnTable

LEMMA ReplaceControl ==
  ASSUME ControlLand, NEW t \in Threads, local[t].at = "apply", Still, NEW i \in Nat,
         NEW slot \in SlotSet, slot.entry \in Entries, Replace(t, i, slot)
  PROVE  ControlLand'
  <1>1. local[t].at \in Writing
    BY DEF Writing
  <1>2. OnTable(t) /\ local[t].value \in Nat /\ local[t].at \in Plain
    BY <1>1, HolderIs
  <1> DEFINE new == [slot EXCEPT !.entry.value = local[t].value]
  <1>3. new \in SlotSet
    BY <1>2 DEF SlotSet, Entries
  <1>4. tables' = Put(t, i, new, Nil) /\ local' = [local EXCEPT ![t] = Idle]
        /\ Shows(t, local[t].value)
    BY DEF Replace
  <1> HIDE DEF new
  <1>5. PICK c : Edited(local[t].tab, Root(t), c, Nil)
    <2>1. Nil \in Owners
      BY DEF Owners
    <2> QED
      BY <1>2, <1>3, <1>4, <2>1, Now, PutEdits, Zenon
  <1>6. Shaped /\ LocksKept(t)
    BY <1>1, <1>5, WriteKeeps
  <1>7. seen' \in [Threads -> SUBSET Values]
    <2>1. local[t].value \in Values
      BY <1>2 DEF Values
    <2> QED
      BY <1>4, <2>1, ShowsTyped
  <1>8. Moves(t, Idle)
    BY <1>4, <1>6, <1>7, Now, IdleIs DEF Moves, Still
  <1> QED
    BY <1>2, <1>6, <1>8, EndStep

LEMMA UntagControl ==
  ASSUME ControlLand, NEW t \in Threads, local[t].at = "apply", Still, NEW i \in Nat,
         NEW slot \in SlotSet, slot.entry \in Entries, Untag(t, i, slot)
  PROVE  ControlLand'
  <1>1. local[t].at \in Writing
    BY DEF Writing
  <1>2. OnTable(t) /\ local[t].at \in Plain /\ local[t] \in Locals
        /\ local[t].range = {} /\ local[t].copied = 0 /\ local[t].hint # "clear"
    BY <1>1, HolderIs
  <1> DEFINE new == [slot EXCEPT !.tag = 0]
             empty == \A j \in Bucket(BucketOf(i)) \ {i} :
                          Chain(local[t].tab, local[t].key)[j].tag = 0
  <1>3. new \in SlotSet
    BY DEF SlotSet
  <1>4. PICK hint \in {"shrink", Nil} :
            local' = [local EXCEPT ![t].at = "untagged", ![t].slot = i, ![t].delta = -1,
                                   ![t].hint = hint]
    <2>1. local' = [local EXCEPT ![t].at = "untagged", ![t].slot = i, ![t].delta = -1,
                                 ![t].hint = IF empty THEN "shrink" ELSE Nil]
      BY DEF Untag
    <2> HIDE DEF empty
    <2>2. CASE empty
      BY <2>1, <2>2
    <2>3. CASE ~empty
      BY <2>1, <2>3
    <2> QED
      BY <2>2, <2>3
  <1>5. tables' = Put(t, i, new, t) /\ Shows(t, Nil)
    BY DEF Untag
  <1> HIDE DEF new
  <1> DEFINE l == [local[t] EXCEPT !.at = "untagged", !.slot = i, !.delta = -1, !.hint = hint]
  <1>6. local' = [local EXCEPT ![t] = l]
    BY <1>4, AsRecord, Now, Zenon
  <1>7. /\ l \in Locals /\ l.at = "untagged" /\ l.delta = -1 /\ l.hint \in {"shrink", Nil}
        /\ l.op = local[t].op /\ l.key = local[t].key /\ l.value = local[t].value
        /\ l.tab = local[t].tab /\ l.range = local[t].range /\ l.copied = local[t].copied
    BY <1>2, ZenonT(30) DEF Locals, Places
  <1> HIDE DEF l
  <1>8. PICK c : Edited(local[t].tab, Root(t), c, t)
    <2>1. t \in Owners
      BY DEF Owners
    <2> QED
      BY <1>2, <1>3, <1>5, <2>1, Now, PutEdits, Zenon
  <1>9. Shaped /\ LocksKept(t) /\ tables'[local[t].tab].lock[Root(t)] = t
    BY <1>1, <1>8, WriteKeeps
  <1>10. seen' \in [Threads -> SUBSET Values]
    BY <1>5, ShowsTyped, Zenon DEF Values
  <1>11. Moves(t, l)
    BY <1>6, <1>7, <1>9, <1>10, Now DEF Moves, Still
  <1>12. local'[t] = l /\ table' = table
    BY <1>11, Now, MoveIs, Zenon DEF Moves
  <1>13. LocalOK(t)'
    BY <1>2, <1>7, <1>12, Now, MapSizes DEF LocalOK, OnKey, Writing
  <1>14. l.at \in Writing
    BY <1>7 DEF Writing
  <1>15. l.tab = table \/ l.tab \in wiped
    BY <1>7, Now DEF LandOK, Writing
  <1> QED
    BY <1>1, <1>7, <1>9, <1>11, <1>13, <1>14, <1>15, HoldStep

LEMMA KeepControl ==
  ASSUME ControlLand, NEW t \in Threads, local[t].at = "apply", Still,
         NEW v, Returns(t, v), tables' = LockIs(t, Nil)
  PROVE  ControlLand'
  <1>1. local[t].at \in Writing
    BY DEF Writing
  <1>2. OnTable(t) /\ local[t].at \in Plain
    BY <1>1, HolderIs
  <1>3. PICK c : Edited(local[t].tab, Root(t), c, Nil)
    <2>1. Nil \in Owners
      BY DEF Owners
    <2> QED
      BY <1>2, <2>1, Now, LockEdits
  <1>4. Shaped /\ LocksKept(t)
    BY <1>1, <1>3, WriteKeeps
  <1> QED
    BY <1>2, <1>4, EndMoves, EndStep, Zenon DEF Returns

LEMMA GrowControl ==
  ASSUME ControlLand, NEW t \in Threads, local[t].at = "apply", Still, Grow(t)
  PROVE  ControlLand'
  <1>1. local[t].at \in Writing
    BY DEF Writing
  <1>2. OnTable(t) /\ local[t] \in Locals /\ local[t].range = {} /\ local[t].copied = 0
    BY <1>1, HolderIs
  <1>3. local[t].delta = 0
    BY Now DEF LocalOK
  <1> DEFINE l == [local[t] EXCEPT !.at = "resize", !.hint = "grow"]
  <1>4. local' = [local EXCEPT ![t] = l] /\ tables' = LockIs(t, Nil) /\ seen' = seen
    BY DEF Grow, Becomes
  <1>5. /\ l \in Locals /\ l.at = "resize" /\ l.hint = "grow" /\ l.delta = local[t].delta
        /\ l.op = local[t].op /\ l.key = local[t].key /\ l.value = local[t].value
        /\ l.tab = local[t].tab /\ l.range = local[t].range /\ l.copied = local[t].copied
    BY <1>2, ZenonT(30) DEF Locals, Places
  <1> HIDE DEF l
  <1>6. PICK c : Edited(local[t].tab, Root(t), c, Nil)
    <2>1. Nil \in Owners
      BY DEF Owners
    <2> QED
      BY <1>2, <1>4, <2>1, Now, LockEdits
  <1>7. Shaped /\ LocksKept(t)
    BY <1>1, <1>6, WriteKeeps
  <1>8. Moves(t, l)
    BY <1>4, <1>5, <1>7, StillMoves, Zenon
  <1>9. l.hint # "clear" /\ l.hint # Nil /\ l.at \in {"attempt", "resize", "count"}
        /\ l.at # "count"
    BY <1>5, MapSizes
  <1> QED
    BY <1>1, <1>2, <1>3, <1>5, <1>7, <1>8, <1>9, FreeStep

LEMMA TagControl ==
  ASSUME ControlLand, NEW t \in Threads, local[t].at = "apply", Still, NEW i \in Nat, Tag(t, i)
  PROVE  ControlLand'
  <1>1. local[t].at \in Writing
    BY DEF Writing
  <1>2. OnTable(t) /\ local[t] \in Locals /\ local[t].range = {} /\ local[t].copied = 0
        /\ hash[local[t].key].h2 \in Nat
    BY <1>1, HolderIs
  <1> DEFINE l == [local[t] EXCEPT !.at = "tagged", !.slot = i]
             slot == [tag |-> hash[local[t].key].h2, entry |-> Nil]
  <1>3. slot \in SlotSet
    BY <1>2 DEF SlotSet
  <1>4. local' = [local EXCEPT ![t] = l] /\ tables' = Put(t, i, slot, t) /\ seen' = seen
    BY DEF Tag, Becomes
  <1>5. l \in Locals /\ l.at = "tagged" /\ SameCall(l, local[t])
    BY <1>2, ZenonT(30) DEF Locals, Places, SameCall
  <1> HIDE DEF l, slot
  <1>6. PICK c : Edited(local[t].tab, Root(t), c, t)
    <2>1. t \in Owners
      BY DEF Owners
    <2> QED
      BY <1>2, <1>3, <1>4, <2>1, Now, PutEdits, Zenon
  <1>7. Shaped /\ LocksKept(t) /\ tables'[local[t].tab].lock[Root(t)] = t
    BY <1>1, <1>6, WriteKeeps
  <1>8. Moves(t, l)
    BY <1>4, <1>5, <1>7, StillMoves, Zenon
  <1>9. local'[t] = l /\ table' = table
    BY <1>8, Now, MoveIs, Zenon DEF Moves
  <1>10. l.at \in Writing /\ l.at \notin Counted \cup {"resize", "cas", "prepare"}
         /\ local[t].at \notin Counted
    BY <1>5 DEF Writing, Counted
  <1>11. l.hint # "clear"
    BY <1>1, <1>5, HolderIs DEF SameCall
  <1>12. LocalOK(t)'
    BY <1>5, <1>9, <1>10, <1>11, KeepsLocal
  <1>13. l.tab = local[t].tab /\ l.key = local[t].key
    BY <1>5 DEF SameCall
  <1>14. l.tab = table \/ l.tab \in wiped
    BY <1>13, Now DEF LandOK, Writing
  <1> QED
    BY <1>1, <1>7, <1>8, <1>10, <1>12, <1>13, <1>14, HoldStep

LEMMA ExtendEdits ==
  ASSUME Typed, NEW t \in Threads, OnTable(t), NEW tag \in Nat, NEW e \in Entries,
         tables' = [LockIs(t, Nil) EXCEPT ![local[t].tab].chain[Root(t)] =
                       appendToBucket(@, tag, e)]
  PROVE  Edited(local[t].tab, Root(t),
                appendToBucket(Chain(local[t].tab, local[t].key), tag, e), Nil)
  <1> DEFINE n == local[t].tab
             b == Root(t)
             c == Chain(n, local[t].key)
             d == appendToBucket(c, tag, e)
             tb == tables[n]
  <1>1. /\ n \in 1 .. Len(tables) /\ b \in 0 .. tb.len - 1 /\ c \in Seq(SlotSet)
        /\ c = tb.chain[b] /\ tables \in Seq(TableSet)
    BY RootIs DEF OnTable, Typed
  <1>2. tb \in TableSet
    BY <1>1
  <1>3. tb \in TablesOf(tb.len) /\ tb.chain \in [0 .. tb.len - 1 -> Seq(SlotSet)]
        /\ tb.lock \in [0 .. tb.len - 1 -> Owners]
    BY <1>2, TableIs
  <1>4. d \in Seq(SlotSet)
    BY <1>1, AppendIs, Zenon DEF AppendsAt
  <1> DEFINE tl == [tb EXCEPT !.lock = [tb.lock EXCEPT ![b] = Nil]]
  <1>5. LockIs(t, Nil) = [tables EXCEPT ![n] = tl]
    BY DEF LockIs
  <1>6. tl.chain = tb.chain
    BY <1>3 DEF TablesOf
  <1> HIDE DEF b, tl
  <1>7. LockIs(t, Nil)[n] = tl
    BY <1>1, <1>5
  <1> HIDE DEF n
  <1>8. tables' = [LockIs(t, Nil) EXCEPT ![n] = [tl EXCEPT !.chain =
                      [tl.chain EXCEPT ![b] = appendToBucket(tl.chain[b], tag, e)]]]
    BY <1>7 DEF n, b
  <1>9. appendToBucket(tl.chain[b], tag, e) = d
    BY <1>1, <1>6
  <1> HIDE DEF d, c
  <1>10. tables' = [tables EXCEPT ![n] = [tl EXCEPT !.chain = [tb.chain EXCEPT ![b] = d]]]
    BY <1>1, <1>5, <1>6, <1>8, <1>9, Zenon
  <1>11. [tl EXCEPT !.chain = [tb.chain EXCEPT ![b] = d]]
         = [tb EXCEPT !.chain = [tb.chain EXCEPT ![b] = d], !.lock = [tb.lock EXCEPT ![b] = Nil]]
    BY <1>3, Zenon DEF TablesOf, tl
  <1>12. Nil \in Owners
    BY DEF Owners
  <1>13. tables' = [tables EXCEPT ![n] = [tables[n] EXCEPT
                       !.chain = [tables[n].chain EXCEPT ![b] = d],
                       !.lock = [tables[n].lock EXCEPT ![b] = Nil]]]
    BY <1>10, <1>11, Zenon
  <1>14. Edited(n, b, d, Nil)
    BY <1>1, <1>4, <1>12, <1>13, EditIs, Zenon
  <1> QED
    BY <1>14 DEF n, b, c, d

(* The entry is in its place, and to be counted. *)
LEMMA StoredControl ==
  ASSUME ControlLand, NEW t \in Threads, local[t].at \in Writing, Still, NEW c,
         Edited(local[t].tab, Root(t), c, Nil), seen' \in [Threads -> SUBSET Values],
         NEW d \in {-1, 1}, local' = [local EXCEPT ![t] = [local[t] EXCEPT !.at = "count", !.delta = d]]
  PROVE  ControlLand'
  <1> DEFINE l == [local[t] EXCEPT !.at = "count", !.delta = d]
  <1>1. local[t] \in Locals /\ local[t].range = {} /\ local[t].copied = 0
        /\ local[t].hint # "clear"
    BY HolderIs
  <1>2. /\ l \in Locals /\ l.at = "count" /\ l.delta = d /\ l.hint = local[t].hint
        /\ l.op = local[t].op /\ l.key = local[t].key /\ l.value = local[t].value
        /\ l.tab = local[t].tab /\ l.range = local[t].range /\ l.copied = local[t].copied
    BY <1>1, ZenonT(30) DEF Locals, Places
  <1>3. local' = [local EXCEPT ![t] = l]
    OBVIOUS
  <1> HIDE DEF l
  <1>4. Shaped /\ LocksKept(t)
    BY WriteKeeps
  <1>5. Moves(t, l)
    BY <1>2, <1>3, <1>4, Now, Zenon DEF Moves, Still
  <1> QED
    BY <1>1, <1>2, <1>4, <1>5, FreeStep

LEMMA ExtendControl ==
  ASSUME ControlLand, NEW t \in Threads, local[t].at = "apply", Still, Extend(t)
  PROVE  ControlLand'
  <1>1. local[t].at \in Writing
    BY DEF Writing
  <1>2. OnTable(t) /\ hash[local[t].key].h2 \in Nat /\ local[t].value \in Nat
    BY <1>1, HolderIs
  <1>3. [key |-> local[t].key, value |-> local[t].value] \in Entries
    BY <1>2 DEF Entries, OnTable
  <1>4. \E c : Edited(local[t].tab, Root(t), c, Nil)
    BY <1>2, <1>3, Now, ExtendEdits, Zenon DEF Extend
  <1>5. seen' \in [Threads -> SUBSET Values]
    BY <1>2, ShowsTyped DEF Extend, Values
  <1>6. local' = [local EXCEPT ![t] = [local[t] EXCEPT !.at = "count", !.delta = 1]]
    BY AsRecord, Now, ZenonT(30) DEF Extend
  <1> QED
    BY <1>1, <1>4, <1>5, <1>6, StoredControl, Zenon

LEMMA ApplyControl ==
  ASSUME ControlLand, NEW t \in Threads, Apply(t)
  PROVE  ControlLand'
  <1> DEFINE n == local[t].tab
             k == local[t].key
             S == Slots(n, k)
             i == Min(S)
             c == Chain(n, k)
  <1>1. local[t].at = "apply" /\ Still
    BY DEF Apply, At, Still, fixed, resizing
  <1>2. OnTable(t) /\ c \in Seq(SlotSet)
    BY <1>1, HolderIs DEF Writing
  <1>3. CASE S # {} /\ (Replace(t, i, c[i]) \/ Untag(t, i, c[i]) \/ Keep(t, c[i]))
    <2>1. i \in S
      BY <1>2, <1>3, Now, SlotsAre DEF OnTable
    <2>2. i \in Nat /\ c[i] \in SlotSet /\ c[i].entry \in Entries
      BY <1>2, <2>1, SlotsNat
    <2> HIDE DEF i, c
    <2>3. Keep(t, c[i]) => ControlLand'
      BY <1>1, KeepControl DEF Keep
    <2> QED
      BY <1>1, <1>3, <2>2, <2>3, ReplaceControl, UntagControl
  <1>4. CASE Insert(t)
    <2> DEFINE free == {j \in DOMAIN c : c[j].tag = 0}
    <2>1. \/ Grow(t)
          \/ tables' = LockIs(t, Nil) /\ Returns(t, Nil)
          \/ free # {} /\ Tag(t, Min(free))
          \/ Extend(t)
      BY <1>4 DEF Insert
    <2>2. free # {} => Min(free) \in Nat
      <3>1. free \subseteq Nat
        BY <1>2
      <3> HIDE DEF free
      <3> QED
        BY <3>1, MinIs, Zenon
    <2> HIDE DEF free
    <2> QED
      BY <1>1, <2>1, <2>2, GrowControl, KeepControl, TagControl, ExtendControl
  <1> QED
    BY <1>3, <1>4 DEF Apply

LEMMA StoreEntryControl ==
  ASSUME ControlLand, NEW t \in Threads, StoreEntry(t)
  PROVE  ControlLand'
  <1> DEFINE e == [key |-> local[t].key, value |-> local[t].value]
             slot == [tag |-> hash[e.key].h2, entry |-> e]
             i == local[t].slot
  <1>1. local[t].at = "tagged" /\ Still
    BY DEF StoreEntry, At, Still, fixed, resizing
  <1>2. local[t].at \in Writing
    BY <1>1 DEF Writing
  <1>3. OnTable(t) /\ local[t].value \in Nat /\ hash[e.key].h2 \in Nat /\ local[t] \in Locals
    BY <1>2, HolderIs
  <1>4. slot \in SlotSet /\ i \in Nat /\ e.value = local[t].value
    BY <1>3 DEF SlotSet, Entries, OnTable, Locals
  <1>5. tables' = Put(t, i, slot, Nil) /\ Shows(t, e.value)
    BY DEF StoreEntry
  <1>6. local' = [local EXCEPT ![t] = [local[t] EXCEPT !.at = "count", !.delta = 1]]
    BY AsRecord, Now, Zenon DEF StoreEntry
  <1> HIDE DEF slot, i
  <1>7. \E c : Edited(local[t].tab, Root(t), c, Nil)
    <2>1. Nil \in Owners
      BY DEF Owners
    <2> QED
      BY <1>3, <1>4, <1>5, <2>1, Now, PutEdits, Zenon
  <1>8. seen' \in [Threads -> SUBSET Values]
    <2>1. e.value \in Values
      BY <1>3, <1>4 DEF Values
    <2> QED
      BY <1>5, <2>1, ShowsTyped
  <1> QED
    BY <1>1, <1>2, <1>6, <1>7, <1>8, StoredControl, Zenon

LEMMA ClearEntryControl ==
  ASSUME ControlLand, NEW t \in Threads, ClearEntry(t)
  PROVE  ControlLand'
  <1>1. local[t].at = "untagged" /\ Still /\ seen' = seen
        /\ local' = [local EXCEPT ![t] = [local[t] EXCEPT !.at = "count"]]
    BY DEF ClearEntry, Goes, Becomes, At, Still, fixed, resizing
  <1>2. local[t].at \in Writing
    BY <1>1 DEF Writing
  <1>3. OnTable(t) /\ local[t] \in Locals
    BY <1>2, HolderIs
  <1>4. local[t].delta = -1
    BY <1>1, Now DEF LocalOK
  <1>5. [local[t] EXCEPT !.at = "count"] = [local[t] EXCEPT !.at = "count", !.delta = -1]
    BY <1>3, <1>4, Zenon DEF Locals
  <1>6. Empty \in SlotSet /\ local[t].slot \in Nat
    BY <1>3 DEF SlotSet, Empty, Locals
  <1>7. \E c : Edited(local[t].tab, Root(t), c, Nil)
    <2>1. Nil \in Owners
      BY DEF Owners
    <2> QED
      BY <1>3, <1>6, <2>1, Now, PutEdits, Zenon DEF ClearEntry
  <1> QED
    BY <1>1, <1>2, <1>5, <1>7, Now, StoredControl, Zenon

-----------------------------------------------------------------------------
(* Counting, and the gate of a resize *)

(* A table's counter changes. *)
Resized(n, d) ==
    /\ tables' \in Seq(TableSet) /\ Len(tables') = Len(tables)
    /\ \A m \in 1 .. Len(tables) :
          /\ tables'[m].len = tables[m].len /\ tables'[m].chain = tables[m].chain
          /\ tables'[m].lock = tables[m].lock
          /\ tables'[m].size = IF m = n THEN tables[m].size + d ELSE tables[m].size

LEMMA SizeEdits ==
  ASSUME Typed, NEW n \in 1 .. Len(tables), NEW d \in Int,
         tables' = [tables EXCEPT ![n].size = @ + d]
  PROVE  Resized(n, d)
  <1> DEFINE tb == tables[n]
             size == tb.size + d
             new == [tb EXCEPT !.size = size]
  <1>1. tb \in TableSet /\ tables \in Seq(TableSet)
    BY DEF Typed
  <1>2. tb \in TablesOf(tb.len) /\ tb.size \in Int /\ tb.len \in Nat /\ tb.len > 0
    BY <1>1, TableIs
  <1>3. tables' = [tables EXCEPT ![n] = new]
    OBVIOUS
  <1>4. size \in Int
    BY <1>2
  <1> HIDE DEF tb, size
  <1>5. /\ new \in TablesOf(tb.len) /\ new.len = tb.len /\ new.chain = tb.chain
        /\ new.lock = tb.lock /\ new.size = size
    BY <1>2, <1>4, Zenon DEF TablesOf
  <1>6. new \in TableSet
    BY <1>2, <1>5, IsTable
  <1> HIDE DEF new
  <1>7. /\ tables' \in Seq(TableSet) /\ Len(tables') = Len(tables) /\ tables'[n] = new
        /\ \A m \in 1 .. Len(tables) : m # n => tables'[m] = tables[m]
    BY <1>1, <1>3, <1>6, Exchange
  <1> QED
    BY <1>5, <1>7 DEF Resized, tb, size

LEMMA ResizedKeeps ==
  ASSUME NEW n, NEW d, Resized(n, d), NEW t \in Threads
  PROVE  Shaped /\ LocksKept(t)
  BY DEF Resized, Shaped, LocksKept

LEMMA CountControl ==
  ASSUME ControlLand, NEW t \in Threads, Count(t)
  PROVE  ControlLand'
  <1> DEFINE l == [local[t] EXCEPT !.at = "resize", !.delta = 0]
  <1>1. local[t].at = "count" /\ Still
    BY DEF Count, CountIn, At, Still, fixed, resizing
  <1>2. local[t].at \in Plain /\ local[t].at \in OnKey
    BY <1>1 DEF Plain, Places, OnKey
  <1>3. /\ OnTable(t) /\ local[t] \in Locals /\ local[t].hint # "clear"
        /\ local[t].value \in Nat /\ local[t].op \in Ops /\ local[t].tab <= table
    BY <1>2, Now, OnTableIs DEF LocalOK
  <1>4. local[t].delta \in Int /\ local[t].range = {} /\ local[t].copied = 0
    BY <1>1, <1>3, Now DEF LocalOK, Locals
  <1>5. Resized(local[t].tab, local[t].delta)
    BY <1>3, <1>4, Now, SizeEdits, Zenon DEF Count, CountIn, OnTable
  <1>6. Shaped /\ LocksKept(t)
    BY <1>5, ResizedKeeps
  <1>7. CASE Ends(t)
    BY <1>1, <1>2, <1>6, <1>7, EndMoves, EndStep, Zenon DEF Ends
  <1>8. CASE local[t].hint = "shrink" /\ Becomes(t, l)
    <2>1. /\ l \in Locals /\ l.at = "resize" /\ l.delta = 0 /\ l.hint = local[t].hint
          /\ l.op = local[t].op /\ l.key = local[t].key /\ l.value = local[t].value
          /\ l.tab = local[t].tab /\ l.range = local[t].range /\ l.copied = local[t].copied
      BY <1>3, Zenon DEF Locals, Places
    <2>2. local' = [local EXCEPT ![t] = l] /\ seen' = seen
      BY <1>8 DEF Becomes
    <2> HIDE DEF l
    <2>3. Moves(t, l)
      BY <1>1, <1>6, <2>1, <2>2, StillMoves, Zenon
    <2>4. local'[t] = l /\ table' = table
      BY <2>3, Now, MoveIs, Zenon DEF Moves
    <2>5. LocalOK(t)'
      BY <1>3, <1>4, <1>8, <2>1, <2>4, Now, MapSizes DEF LocalOK, OnKey, Writing, OnTable
    <2>6. LandOK(t)'
      BY <2>1, <2>4 DEF LandOK, Writing
    <2>7. l.at \in Plain \ {"cas", "help", "register"}
      BY <2>1 DEF Plain, Places
    <2> QED
      BY <1>2, <1>6, <2>3, <2>5, <2>6, <2>7, CallStep
  <1> QED
    BY <1>7, <1>8 DEF Count, CountIn

(* Back from a resize, or from one that was met. *)
LEMMA AfterControl ==
  ASSUME ControlLand, NEW t \in Threads, local[t].at \in {"help", "wait"}, Still,
         tables' = tables, AfterResize(t)
  PROVE  ControlLand'
  <1>1. local[t].at \in Plain \ Counted
    BY DEF Plain, Places, Counted
  <1>2. Shaped /\ LocksKept(t)
    BY Now, SameShapes, SameKeepsLocks
  <1>3. CASE Ends(t)
    BY <1>1, <1>2, <1>3, EndMoves, EndStep, Zenon DEF Ends
  <1>4. CASE local[t].hint # "clear" /\ Goes(t, "attempt")
    <2> DEFINE l == [local[t] EXCEPT !.at = "attempt"]
    <2>1. "attempt" \in Places /\ local[t] \in Locals
      BY Now DEF Places
    <2>2. l \in Locals /\ SameCall(l, local[t]) /\ l.at = "attempt"
      BY <2>1, GoesIs
    <2>3. local' = [local EXCEPT ![t] = l] /\ seen' = seen
      BY <1>4 DEF Goes, Becomes
    <2> HIDE DEF l
    <2>4. Moves(t, l)
      BY <1>2, <2>2, <2>3, StillMoves, Zenon
    <2>5. l.at \in Plain \ ({"cas", "help", "register"} \cup Writing \cup Counted)
          /\ l.at # "resize" /\ l.hint # "clear"
      BY <1>4, <2>2 DEF Plain, Places, Writing, Counted, SameCall
    <2> QED
      BY <1>1, <1>2, <2>2, <2>4, <2>5, ReadStep
  <1> QED
    BY <1>3, <1>4 DEF AfterResize

(* To a place at the gate. *)
LEMMA GateStep ==
  ASSUME ControlLand, NEW t \in Threads, NEW l \in Locals,
         local[t].at \in {"resize", "cas", "help", "register", "wait"}, Still, tables' = tables,
         local' = [local EXCEPT ![t] = l], seen' = seen,
         l.op = local[t].op, l.key = local[t].key, l.value = local[t].value,
         l.hint = local[t].hint, l.delta = local[t].delta, l.range = local[t].range,
         l.copied = local[t].copied, l.tab \in 1 .. table,
         l.at \in {"cas", "help", "register", "wait"}, l.at = "cas" => l.hint # Nil,
         RoleOK(t)' /\ JoinedOK(t)'
  PROVE  ControlLand'
  <1>1. local[t].at \in Plain /\ l.at \in Plain
    BY DEF Plain, Places
  <1>2. Shaped /\ LocksKept(t)
    BY Now, SameShapes, SameKeepsLocks
  <1>3. Moves(t, l)
    BY <1>2, StillMoves, Zenon
  <1>4. local'[t] = l /\ table' = table
    BY <1>3, Now, MoveIs, Zenon DEF Moves
  <1>5. LocalOK(t) /\ table \in Nat
    BY Now
  <1>6. LocalOK(t)' /\ l.range = {}
    BY <1>4, <1>5 DEF LocalOK, OnKey, Writing
  <1>7. PlaceOK(t)'
    BY <1>4 DEF PlaceOK
  <1>8. LandOK(t)'
    BY <1>4 DEF LandOK, Writing
  <1> QED
    BY <1>1, <1>2, <1>3, <1>6, <1>7, <1>8, PlainStep DEF ThreadOK

LEMMA ResizeControl ==
  ASSUME ControlLand, NEW t \in Threads, Resize(t)
  PROVE  ControlLand'
  <1> DEFINE at == IF resizeSeq % 2 = 1 THEN "help" ELSE "cas"
             l == [local[t] EXCEPT !.seq = resizeSeq, !.at = at]
  <1>1. local[t].at = "resize" /\ Still /\ tables' = tables
    BY DEF Resize, At, Still, fixed, resizing
  <1>2. CASE Ends(t)
    <2>1. Shaped /\ LocksKept(t) /\ local[t].at \in Plain
      BY <1>1, Now, SameShapes, SameKeepsLocks DEF Plain, Places
    <2> QED
      BY <1>1, <1>2, <2>1, EndMoves, EndStep, Zenon DEF Ends
  <1>3. CASE Becomes(t, l)
    <2>1. /\ at \in {"cas", "help"} /\ at \in Places /\ resizeSeq \in Nat
          /\ (at = "help" => resizeSeq % 2 = 1) /\ (at = "cas" => resizeSeq % 2 = 0)
      BY Now DEF Typed, Places
    <2> HIDE DEF at
    <2>2. /\ l \in Locals /\ l.at = at /\ SameCall(l, local[t]) /\ l.seq = resizeSeq
      BY <2>1, Now, Zenon DEF Locals, SameCall
    <2>3. local' = [local EXCEPT ![t] = l] /\ seen' = seen
      BY <1>3 DEF Becomes
    <2> HIDE DEF l
    <2>4. local'[t] = l /\ resizeSeq' = resizeSeq
      BY <1>1, <2>3, Now DEF Still, Typed
    <2>5. local[t].hint # Nil /\ local[t].tab \in 1 .. table
      BY <1>1, Now DEF LocalOK
    <2>6. RoleOK(t)' /\ JoinedOK(t)'
      BY <2>1, <2>2, <2>4 DEF RoleOK, JoinedOK, Joined, Helper, Holder, Resizing
    <2> QED
      BY <1>1, <2>1, <2>2, <2>3, <2>5, <2>6, GateStep, Zenon DEF SameCall
  <1> QED
    BY <1>2, <1>3 DEF Resize

LEMMA WaitControl ==
  ASSUME ControlLand, NEW t \in Threads, Wait(t)
  PROVE  ControlLand'
  <1>1. local[t].at = "wait" /\ Still /\ tables' = tables /\ AfterResize(t)
    BY DEF Wait, At, Still, fixed, resizing
  <1> QED
    BY <1>1, AfterControl

LEMMA CasLost ==
  ASSUME ControlLand, NEW t \in Threads, Cas(t), resizeSeq # local[t].seq
  PROVE  ControlLand'
  <1> DEFINE l == [local[t] EXCEPT !.at = "help"]
  <1>1. local[t].at = "cas" /\ Still /\ tables' = tables
        /\ local' = [local EXCEPT ![t] = l] /\ seen' = seen
    BY DEF Cas, Goes, Becomes, At, Still, fixed
  <1>2. "help" \in Places /\ local[t] \in Locals /\ resizeSeq \in Nat
    BY Now DEF Places, Typed
  <1>3. l \in Locals /\ SameCall(l, local[t]) /\ l.at = "help" /\ l.seq = local[t].seq
    BY <1>2, GoesIs
  <1> HIDE DEF l
  <1>4. local'[t] = l /\ resizeSeq' = resizeSeq
    BY <1>1, Now DEF Still, Typed
  <1>5. local[t].tab \in 1 .. table /\ RoleOK(t)
    BY <1>1, Now DEF LocalOK
  <1>6. local[t].seq \in Nat /\ local[t].seq <= resizeSeq
    BY <1>1, <1>2, <1>5 DEF RoleOK, Locals
  <1>7. RoleOK(t)' /\ JoinedOK(t)'
    BY <1>2, <1>3, <1>4, <1>6 DEF RoleOK, JoinedOK, Joined, Helper, Holder, Resizing
  <1> QED
    BY <1>1, <1>3, <1>5, <1>7, GateStep, Zenon DEF SameCall

LEMMA HelpControl ==
  ASSUME ControlLand, NEW t \in Threads, Help(t)
  PROVE  ControlLand'
  <1> DEFINE l == [local[t] EXCEPT !.at = "register", !.tab = table, !.new = nextTable]
  <1>1. local[t].at = "help" /\ Still /\ tables' = tables
    BY DEF Help, At, Still, fixed, resizing
  <1>2. CASE AfterResize(t)
    BY <1>1, <1>2, AfterControl
  <1>3. CASE resizeSeq = local[t].seq /\ nextTable # Nil /\ Becomes(t, l)
    <2>1. /\ nextTable = table + 1 /\ Len(tables) = table + 1 /\ table \in Nat /\ table > 0
          /\ resizeSeq \in Nat
      BY <1>3, Now DEF ResizeOK, Typed
    <2>2. /\ l \in Locals /\ l.at = "register" /\ l.tab = table /\ l.new = table + 1
          /\ l.seq = local[t].seq
          /\ l.op = local[t].op /\ l.key = local[t].key /\ l.value = local[t].value
          /\ l.hint = local[t].hint /\ l.delta = local[t].delta /\ l.range = local[t].range
          /\ l.copied = local[t].copied
      BY <2>1, Now, ZenonT(30) DEF Locals, Places
    <2>3. local' = [local EXCEPT ![t] = l] /\ seen' = seen
      BY <1>3 DEF Becomes
    <2> HIDE DEF l
    <2>4. local'[t] = l /\ resizeSeq' = resizeSeq /\ nextTable' = nextTable /\ tables' = tables
          /\ \A u \in Threads : u # t => local'[u] = local[u]
      BY <1>1, <2>3, Now DEF Still, Typed
    <2>5. RoleOK(t)'
      <3>1. l.seq % 2 = 1 /\ l.seq <= resizeSeq
        BY <1>1, <1>3, <2>1, <2>2, Now DEF RoleOK
      <3> QED
        BY <2>2, <2>4, <3>1 DEF RoleOK, Helper, Holder, Resizing
    <2>6. ASSUME NEW o \in Threads, Holder(o)'
          PROVE  local'[o].at # "prepare" /\ local'[o].hint # "clear"
      <3>1. o # t
        BY <2>2, <2>4, <2>6 DEF Holder, Resizing
      <3>2. local'[o] = local[o] /\ Holder(o)
        BY <2>4, <2>6, <3>1 DEF Holder, Owner
      <3>3. PlaceOK(o)
        BY Now DEF Control, ThreadOK
      <3>4. local[o].at # "prepare" /\ local[o].at # "finish"
            /\ (local[o].at = "publish" => local[o].hint # "clear")
        BY <1>3, <3>3 DEF PlaceOK
      <3>5. local[o].at \in {"claim", "copy"} => local[o].hint # "clear"
        BY <3>2, <3>3 DEF PlaceOK, Holder
      <3> QED
        BY <3>2, <3>4, <3>5 DEF Holder, Resizing
    <2>7. JoinedOK(t)'
      BY <1>3, <2>1, <2>2, <2>4, <2>6 DEF JoinedOK
    <2>8. l.tab \in 1 .. table
      BY <2>1, <2>2
    <2> QED
      BY <1>1, <2>2, <2>3, <2>5, <2>7, <2>8, GateStep, Zenon
  <1> QED
    BY <1>2, <1>3 DEF Help

LEMMA RegisterMissed ==
  ASSUME ControlLand, NEW t \in Threads, Register(t), Goes(t, "wait"), resizeHelpers' = resizeHelpers
  PROVE  ControlLand'
  <1> DEFINE l == [local[t] EXCEPT !.at = "wait"]
  <1>1. local[t].at = "register" /\ Still /\ tables' = tables
        /\ local' = [local EXCEPT ![t] = l] /\ seen' = seen
    BY DEF Register, Goes, Becomes, At, Still, fixed
  <1>2. "wait" \in Places /\ local[t] \in Locals
    BY Now DEF Places
  <1>3. l \in Locals /\ SameCall(l, local[t]) /\ l.at = "wait"
    BY <1>2, GoesIs
  <1> HIDE DEF l
  <1>4. local'[t] = l
    BY <1>1, Now DEF Typed
  <1>5. local[t].tab \in 1 .. table
    BY <1>1, Now DEF LocalOK
  <1>6. RoleOK(t)' /\ JoinedOK(t)'
    BY <1>3, <1>4 DEF RoleOK, JoinedOK, Joined, Helper, Holder, Resizing
  <1> QED
    BY <1>1, <1>3, <1>5, <1>6, GateStep, Zenon DEF SameCall

LEMMA OtherLand ==
  ASSUME ControlLand, NEW t \in Threads, Shaped, LocksKept(t), hash' = hash, table' = table,
         wiped' = wiped, \A u \in Threads : u # t => local'[u] = local[u],
         nextTable' # Nil => nextTable # Nil /\ \A b \in 0 .. tables[table].len - 1 :
             tables[table].lock[b] # Nil /\ Done(b)' => Done(b)
  PROVE  \A u \in Threads : u # t => LandOK(u)'
  BY LandKept, MapSizes

-----------------------------------------------------------------------------
(* The steps of a resize *)

(* A step of t among those who copy, or to or from them: the resize goes on. *)
Works(t, l) ==
    /\ l \in Locals /\ local' = [local EXCEPT ![t] = l] /\ seen' = seen /\ Shaped
    /\ hash' = hash /\ calls' = calls /\ wiped' = wiped /\ table' = table
    /\ nextTable' = nextTable /\ resizeSeq' = resizeSeq
    /\ resizeHelpers' \in Nat /\ resizeIdx' \in Nat /\ resizeIdx' >= resizeIdx

LEMMA WorkIs ==
  ASSUME Typed, NEW t \in Threads, NEW l, Works(t, l)
  PROVE  /\ Typed' /\ local'[t] = l /\ \A u \in Threads : u # t => local'[u] = local[u]
  BY DEF Typed, Works, Shaped

LEMMA BaseStays ==
  ASSUME Typed, Shaped, table' = table, Len(tables) = table + 1
  PROVE  Base(table)' = Base(table)
  <1>1. table \in 1 .. Len(tables) /\ table + 1 \in 1 .. Len(tables)
    BY DEF Typed
  <1>2. tables'[table].len = tables[table].len /\ tables'[table + 1].len = tables[table + 1].len
    BY <1>1 DEF Shaped
  <1> QED
    BY <1>2 DEF Base

LEMMA WorkOthers ==
  ASSUME ControlLand, NEW t \in Threads, NEW l, Works(t, l),
         local[t].at \in {"register", "claim", "copy", "leave"},
         l.at \in {"claim", "copy", "publish", "leave", "wait"},
         l.seq = local[t].seq, l.hint = local[t].hint, Holder(t)' <=> Holder(t)
  PROVE  Typed' /\ ResizeOK' /\ \A u \in Threads : u # t => ThreadOK(u)'
  <1>1. /\ Typed /\ ResizeOK /\ HelpersOK /\ RangeOK /\ \A u \in Threads : ThreadOK(u)
    BY DEF ControlLand, Control
  <1>2. /\ Typed' /\ local'[t] = l /\ \A u \in Threads : u # t => local'[u] = local[u]
    BY <1>1, WorkIs
  <1>3. /\ hash' = hash /\ table' = table /\ nextTable' = nextTable /\ resizeSeq' = resizeSeq
        /\ wiped' = wiped /\ resizeIdx' \in Nat /\ resizeIdx' >= resizeIdx /\ resizeIdx \in Nat
        /\ Len(tables') = Len(tables) /\ Shaped
    BY <1>1 DEF Works, Shaped, Typed
  <1>4. \A u \in Threads : Holder(u)' <=> Holder(u)
    BY <1>2 DEF Holder, Owner
  <1>5. Holder(t) => l.at \in {"claim", "copy", "publish"} /\ l.hint # "clear"
    <2>1. Holder(t) => local[t].at \in {"claim", "copy"} /\ Owner(t)
      BY DEF Holder, Resizing
    <2>2. Holder(t) => l.hint # "clear"
      BY <1>1, <2>1 DEF ThreadOK, PlaceOK
    <2>3. Holder(t)' => l.at \in {"claim", "copy", "publish"}
      BY <1>2 DEF Holder, Resizing
    <2> QED
      BY <1>4, <2>2, <2>3
  <1>6. table \in Nat /\ table > 0 /\ Len(tables) \in Nat
    BY <1>1 DEF Typed
  <1>7. Len(tables) = table + 1 => /\ Base(table)' = Base(table) /\ Base(table) \in Nat
                                   /\ resizeIdx >= Base(table) => resizeIdx' >= Base(table)
    <2>1. ASSUME Len(tables) = table + 1
          PROVE  /\ Base(table)' = Base(table) /\ Base(table) \in Nat
                 /\ resizeIdx >= Base(table) => resizeIdx' >= Base(table)
      <3>1. Base(table) \in Nat
        BY <1>1, <1>6, <2>1, BaseIs
      <3>2. Base(table)' = Base(table)
        BY <1>1, <1>3, <2>1, BaseStays
      <3> QED
        BY <1>3, <3>1, <3>2
    <2> QED
      BY <2>1
  <1>8. ASSUME NEW u \in Threads, u # t PROVE ThreadOK(u)'
    <2>1. local'[u] = local[u]
      BY <1>2, <1>8
    <2>2. LocalOK(u)'
      BY <1>1, <1>3, <2>1 DEF ThreadOK, LocalOK
    <2>3. RoleOK(u)'
      BY <1>1, <1>3, <1>4, <2>1 DEF ThreadOK, RoleOK, Owner, Helper
    <2>4. PlaceOK(u)'
      BY <1>1, <1>3, <1>7, <2>1 DEF ThreadOK, PlaceOK, Owner
    <2>5. JoinedOK(u)'
      <3>1. Joined(u)' <=> Joined(u)
        BY <1>3, <2>1 DEF Joined, Helper, Owner
      <3>2. \A o \in Threads : Holder(o) => \/ local'[o] = local[o]
                                            \/ local'[o].at # "prepare" /\ local'[o].hint # "clear"
        BY <1>2, <1>5
      <3>3. ASSUME Joined(u), nextTable = Nil
            PROVE  /\ Base(local[u].tab)' = Base(local[u].tab)
                   /\ resizeIdx' >= Base(local[u].tab)
        <4> DEFINE n == local[u].tab
        <4>1. local[u].at # "idle"
          BY <3>3 DEF Joined, Helper
        <4>2. n \in Nat /\ n > 0 /\ n + 1 <= Len(tables) /\ resizeIdx >= Base(n)
          BY <1>1, <1>6, <3>3, <4>1 DEF ThreadOK, JoinedOK, LocalOK
        <4>3. local'[u].tab = n
          BY <2>1
        <4> HIDE DEF n
        <4>4. n \in 1 .. Len(tables) /\ n + 1 \in 1 .. Len(tables) /\ Base(n) \in Nat
          BY <1>1, <1>6, <4>2, BaseIs
        <4>5. tables'[n].len = tables[n].len /\ tables'[n + 1].len = tables[n + 1].len
          BY <1>3, <4>4 DEF Shaped
        <4>6. resizeIdx' >= Base(n)
          BY <1>3, <4>2, <4>4
        <4> QED
          BY <4>3, <4>5, <4>6 DEF Base, n
      <3> QED
        BY <1>1, <1>3, <1>4, <2>1, <3>1, <3>2, <3>3 DEF ThreadOK, JoinedOK
    <2> QED
      BY <2>2, <2>3, <2>4, <2>5 DEF ThreadOK
  <1>9. ResizeOK'
    <2>1. \A o \in Threads : Holder(o) /\ local[o].at \in {"claim", "copy", "publish"}
                             => local'[o].at \in {"claim", "copy", "publish"}
      BY <1>2, <1>5
    <2> QED
      BY <1>1, <1>3, <1>4, <2>1 DEF ResizeOK
  <1> QED
    BY <1>2, <1>8, <1>9

LEMMA WorkStep ==
  ASSUME ControlLand, NEW t \in Threads, NEW l, Works(t, l), LocksKept(t),
         local[t].at \in {"register", "claim", "copy", "leave"},
         l.at \in {"claim", "copy", "publish", "leave", "wait"},
         l.seq = local[t].seq, l.hint = local[t].hint, Holder(t)' <=> Holder(t),
         ThreadOK(t)', HelpersOK', RangeOK',
         nextTable # Nil => \A b \in 0 .. tables[table].len - 1 :
             tables[table].lock[b] # Nil /\ Done(b)' => Done(b)
  PROVE  ControlLand'
  <1>1. Typed' /\ ResizeOK' /\ \A u \in Threads : u # t => ThreadOK(u)'
    BY WorkOthers
  <1>2. Control'
    BY <1>1 DEF Control
  <1>3. local'[t] = l /\ \A u \in Threads : u # t => local'[u] = local[u]
    BY Now, WorkIs
  <1>4. LandOK(t)'
    BY <1>3 DEF LandOK, Writing
  <1>5. \A u \in Threads : u # t => LandOK(u)'
    BY <1>3, OtherLand DEF Works
  <1> QED
    BY <1>2, <1>4, <1>5 DEF ControlLand

(* The call of a worker stays the same, but for its range. *)
LEMMA WorkLocal ==
  ASSUME ControlLand, NEW t \in Threads, NEW l, Works(t, l),
         local[t].at \in {"register", "claim", "copy", "leave"},
         l.at \in {"claim", "copy", "publish", "leave", "wait"},
         l.op = local[t].op, l.key = local[t].key, l.value = local[t].value,
         l.tab = local[t].tab, l.hint = local[t].hint, l.delta = local[t].delta,
         l.at # "copy" => l.range = {} /\ l.copied = 0
  PROVE  LocalOK(t)'
  <1>1. local'[t] = l /\ table' = table
    BY Now, WorkIs, Zenon DEF Works
  <1> QED
    BY <1>1, Now DEF LocalOK, OnKey, Writing

(* Those who copy have the last two tables. *)
LEMMA WorkerIs ==
  ASSUME ControlLand, NEW t \in Threads, local[t].at \in {"claim", "copy"}
  PROVE  /\ local[t].tab \in Nat /\ local[t].tab > 0 /\ local[t].new = local[t].tab + 1
         /\ Len(tables) = local[t].new
         /\ nextTable # Nil => local[t].tab = table
         /\ nextTable = Nil => ~Owner(t) /\ resizeIdx >= Base(local[t].tab) /\ local[t].at # "copy"
         /\ Owner(t) <=> ~Helper(t)
         /\ Base(local[t].tab) \in Nat /\ Base(local[t].tab) > 0
         /\ Owner(t) => Holder(t) /\ nextTable # Nil
  <1>1. /\ ResizeOK /\ LocalOK(t) /\ RoleOK(t) /\ PlaceOK(t) /\ JoinedOK(t) /\ Typed
        /\ table \in Nat /\ table > 0 /\ Len(tables) \in Nat
    BY Now DEF ThreadOK
  <1>2. local[t].tab \in 1 .. table
    BY <1>1 DEF LocalOK
  <1>3. Owner(t) <=> ~Helper(t)
    BY DEF Helper
  <1>4. CASE Owner(t)
    <2>1. nextTable = table + 1 /\ local[t].tab = table /\ local[t].new = table + 1
      BY <1>1, <1>4 DEF PlaceOK
    <2>2. nextTable # Nil
      BY <1>1, <2>1, MapSizes
    <2>3. Len(tables) = table + 1
      BY <1>1, <2>2 DEF ResizeOK
    <2>4. Base(table) \in Nat /\ Base(table) > 0
      BY <1>1, <2>3, BaseIs
    <2>5. Holder(t)
      BY <1>4 DEF Holder, Resizing
    <2> QED
      BY <1>1, <1>3, <1>4, <2>1, <2>2, <2>3, <2>4, <2>5
  <1>5. CASE ~Owner(t)
    <2>1. Joined(t)
      BY <1>3, <1>5 DEF Joined
    <2>2. local[t].new = Len(tables) /\ local[t].tab = local[t].new - 1
          /\ (nextTable = Nil => resizeIdx >= Base(local[t].tab) /\ local[t].at # "copy")
      BY <1>1, <2>1 DEF JoinedOK
    <2>3. local[t].tab + 1 = Len(tables) /\ local[t].tab \in Nat /\ local[t].tab > 0
      BY <1>1, <1>2, <2>2
    <2>4. Base(local[t].tab) \in Nat /\ Base(local[t].tab) > 0
      BY <1>1, <2>3, BaseIs
    <2>5. nextTable # Nil => local[t].tab = table
      BY <1>1, <2>3 DEF ResizeOK
    <2> QED
      BY <1>3, <1>5, <2>2, <2>3, <2>4, <2>5
  <1> QED
    BY <1>4, <1>5

LEMMA HelpersFinite ==
  IsFiniteSet({u \in Threads : Helper(u)}) /\ IsFiniteSet({u \in Threads : Helper(u)})'
  <1>1. IsFiniteSet(Threads)
    BY MapSizes
  <1> DEFINE H == {u \in Threads : Helper(u)}
             G == {u \in Threads : Helper(u)'}
  <1>2. H \subseteq Threads /\ G \subseteq Threads
    OBVIOUS
  <1>3. IsFiniteSet(H) /\ IsFiniteSet(G)
    <2> HIDE DEF H, G
    <2> QED
      BY <1>1, <1>2, FS_Subset
  <1> QED
    BY <1>3

(* The helpers are the same, one more, or one less. *)
LEMMA SameHelpers ==
  ASSUME HelpersOK, NEW t \in Threads, resizeHelpers' = resizeHelpers,
         Helper(t)' <=> Helper(t), \A u \in Threads : u # t => local'[u] = local[u]
  PROVE  HelpersOK'
  <1>1. \A u \in Threads : Helper(u)' <=> Helper(u)
    BY DEF Helper, Owner
  <1>2. {u \in Threads : Helper(u)}' = {u \in Threads : Helper(u)}
    BY <1>1
  <1> QED
    BY <1>2 DEF HelpersOK

LEMMA OneMoreHelper ==
  ASSUME HelpersOK, NEW t \in Threads, resizeHelpers' = resizeHelpers + 1,
         ~Helper(t), Helper(t)', \A u \in Threads : u # t => local'[u] = local[u]
  PROVE  HelpersOK'
  <1> DEFINE H == {u \in Threads : Helper(u)}
             G == {u \in Threads : Helper(u)'}
  <1>1. \A u \in Threads : u # t => (Helper(u)' <=> Helper(u))
    BY DEF Helper, Owner
  <1>2. G = H \cup {t} /\ t \notin H
    BY <1>1
  <1>3. IsFiniteSet(H)
    BY HelpersFinite
  <1> HIDE DEF H, G
  <1>4. Cardinality(G) = Cardinality(H) + 1
    BY <1>2, <1>3, FS_AddElement
  <1>5. Cardinality(G) = resizeHelpers'
    BY <1>4 DEF HelpersOK, H
  <1> QED
    BY <1>5 DEF HelpersOK, G

LEMMA OneLessHelper ==
  ASSUME HelpersOK, NEW t \in Threads, resizeHelpers' = resizeHelpers - 1,
         Helper(t), ~Helper(t)', \A u \in Threads : u # t => local'[u] = local[u]
  PROVE  HelpersOK' /\ resizeHelpers' \in Nat
  <1> DEFINE H == {u \in Threads : Helper(u)}
             G == {u \in Threads : Helper(u)'}
  <1>1. \A u \in Threads : u # t => (Helper(u)' <=> Helper(u))
    BY DEF Helper, Owner
  <1>2. G = H \ {t} /\ t \in H
    BY <1>1
  <1>3. IsFiniteSet(H) /\ IsFiniteSet(G)
    BY HelpersFinite
  <1> HIDE DEF H, G
  <1>4. Cardinality(G) = Cardinality(H) - 1
    BY <1>2, <1>3, FS_RemoveElement
  <1>5. Cardinality(G) \in Nat
    BY <1>3, FS_CardinalityType
  <1>6. Cardinality(G) = resizeHelpers'
    BY <1>4 DEF HelpersOK, H
  <1> QED
    BY <1>5, <1>6 DEF HelpersOK, G

(* Nobody's range grows, and what is done stays so. *)
LEMMA SameRanges ==
  ASSUME ControlLand, NEW t \in Threads, NEW l, Works(t, l), l.range \subseteq local[t].range,
         resizeIdx' = resizeIdx
  PROVE  RangeOK'
  <1>1. /\ local'[t] = l /\ \A u \in Threads : u # t => local'[u] = local[u]
    BY Now, WorkIs
  <1>2. \A u \in Threads : local'[u].range \subseteq local[u].range
    BY <1>1
  <1>3. Shaped /\ table' = table /\ nextTable' = nextTable
    BY DEF Works
  <1>4. nextTable # Nil => Len(tables) = table + 1
    BY Now DEF ResizeOK
  <1>5. nextTable # Nil => Base(table)' = Base(table)
    BY <1>3, <1>4, Now, BaseStays
  <1>6. tables'[table].len = tables[table].len
    BY <1>3, Now DEF Shaped, Typed
  <1>7. RangeOK
    BY DEF ControlLand, Control
  <1> QED
    BY <1>2, <1>3, <1>5, <1>6, <1>7 DEF RangeOK

LEMMA SameDone ==
  ASSUME ControlLand, NEW t \in Threads, NEW l, Works(t, l), resizeIdx' = resizeIdx,
         nextTable # Nil, NEW b, b \notin local[t].range \ l.range, Done(b)'
  PROVE  Done(b)
  <1>1. /\ local'[t] = l /\ \A u \in Threads : u # t => local'[u] = local[u]
    BY Now, WorkIs
  <1>2. Shaped /\ table' = table
    BY DEF Works
  <1>3. Len(tables) = table + 1
    BY Now DEF ResizeOK
  <1>4. Base(table)' = Base(table)
    BY <1>2, <1>3, Now, BaseStays
  <1>5. \A u \in Threads : b \notin local'[u].range => b \notin local[u].range
    BY <1>1
  <1> QED
    BY <1>2, <1>4, <1>5 DEF Done

LEMMA RegisterControl ==
  ASSUME ControlLand, NEW t \in Threads, Register(t)
  PROVE  ControlLand'
  <1>1. CASE resizeHelpers' = resizeHelpers /\ Goes(t, "wait")
    BY <1>1, RegisterMissed
  <1>2. CASE resizeSeq = local[t].seq /\ resizeHelpers' = resizeHelpers + 1 /\ Goes(t, "claim")
    <2> DEFINE l == [local[t] EXCEPT !.at = "claim"]
    <2>1. /\ local[t].at = "register" /\ tables' = tables
          /\ local' = [local EXCEPT ![t] = l] /\ seen' = seen
          /\ hash' = hash /\ calls' = calls /\ wiped' = wiped /\ table' = table
          /\ nextTable' = nextTable /\ resizeSeq' = resizeSeq /\ resizeIdx' = resizeIdx
      BY <1>2 DEF Register, Goes, Becomes, At, fixed
    <2>2. "claim" \in Places /\ local[t] \in Locals /\ resizeSeq \in Nat /\ resizeIdx \in Nat
          /\ resizeHelpers \in Nat
      BY Now DEF Places, Typed
    <2>3. l \in Locals /\ SameCall(l, local[t]) /\ l.at = "claim" /\ l.seq = local[t].seq
          /\ l.new = local[t].new
      BY <2>2, GoesIs
    <2> HIDE DEF l
    <2>4. Shaped /\ LocksKept(t)
      BY <2>1, Now, SameShapes, SameKeepsLocks
    <2>5. Works(t, l)
      BY <1>2, <2>1, <2>2, <2>3, <2>4 DEF Works
    <2>6. /\ local'[t] = l /\ \A u \in Threads : u # t => local'[u] = local[u]
      BY <2>5, Now, WorkIs
    <2>7. /\ RoleOK(t) /\ JoinedOK(t) /\ LocalOK(t)
          /\ \A o, p \in Threads : Holder(o) /\ Holder(p) => o = p
      BY Now DEF ThreadOK, ResizeOK
    <2>8. l.range = {} /\ l.copied = 0
      BY <2>1, <2>3, <2>7 DEF LocalOK, SameCall
    <2>9. l.seq = resizeSeq /\ l.seq % 2 = 1
      BY <1>2, <2>1, <2>3, <2>7 DEF RoleOK
    <2>10. ~Holder(t) /\ ~Holder(t)' /\ ~Helper(t) /\ Helper(t)'
      BY <2>1, <2>3, <2>6, <2>9 DEF Holder, Helper, Owner, Resizing
    <2>11. LocalOK(t)'
      BY <2>1, <2>3, <2>5, <2>8, WorkLocal DEF SameCall
    <2>12. RoleOK(t)'
      BY <2>1, <2>3, <2>6, <2>9, <2>10 DEF RoleOK, Owner
    <2>13. PlaceOK(t)'
      BY <2>3, <2>6, <2>10 DEF PlaceOK, Helper
    <2>14. JoinedOK(t)'
      <3>1. Joined(t)
        BY <1>2, <2>1 DEF Joined
      <3>2. \A o \in Threads : Holder(o)' => Holder(o) /\ local'[o] = local[o]
        BY <2>6, <2>10 DEF Holder, Owner
      <3>3. Base(local[t].tab)' = Base(local[t].tab)
        BY <2>1, <2>3, <2>6 DEF Base, SameCall
      <3> QED
        BY <2>1, <2>3, <2>6, <2>7, <3>1, <3>2, <3>3 DEF JoinedOK, SameCall, Base
    <2>15. HelpersOK'
      BY <1>2, <2>6, <2>10, OneMoreHelper DEF ControlLand, Control
    <2>16. RangeOK'
      BY <2>1, <2>5, <2>8, SameRanges
    <2>17. local[t].range = {}
      BY <2>3, <2>8 DEF SameCall
    <2>18. nextTable # Nil => \A b \in 0 .. tables[table].len - 1 : Done(b)' => Done(b)
      BY <2>1, <2>5, <2>17, SameDone
    <2>19. l.hint = local[t].hint
      BY <2>3 DEF SameCall
    <2> QED
      BY <2>1, <2>3, <2>4, <2>5, <2>10, <2>11, <2>12, <2>13, <2>14, <2>15, <2>16, <2>18,
         <2>19, WorkStep DEF ThreadOK
  <1> QED
    BY <1>1, <1>2 DEF Register

LEMMA LeaveControl ==
  ASSUME ControlLand, NEW t \in Threads, Leave(t)
  PROVE  ControlLand'
  <1> DEFINE l == [local[t] EXCEPT !.at = "wait"]
  <1>1. /\ local[t].at = "leave" /\ tables' = tables
        /\ local' = [local EXCEPT ![t] = l] /\ seen' = seen
        /\ hash' = hash /\ calls' = calls /\ wiped' = wiped /\ table' = table
        /\ nextTable' = nextTable /\ resizeSeq' = resizeSeq /\ resizeIdx' = resizeIdx
        /\ resizeHelpers' = resizeHelpers - 1
    BY DEF Leave, Goes, Becomes, At, fixed
  <1>2. "wait" \in Places /\ local[t] \in Locals /\ resizeIdx \in Nat
    BY Now DEF Places, Typed
  <1>3. l \in Locals /\ SameCall(l, local[t]) /\ l.at = "wait" /\ l.seq = local[t].seq
    BY <1>2, GoesIs
  <1> HIDE DEF l
  <1>4. Shaped /\ LocksKept(t)
    BY <1>1, Now, SameShapes, SameKeepsLocks
  <1>5. RoleOK(t) /\ LocalOK(t) /\ HelpersOK
    BY Now DEF Control
  <1>6. /\ local'[t] = l /\ \A u \in Threads : u # t => local'[u] = local[u]
    BY <1>1, Now DEF Typed
  <1>7. ~Holder(t) /\ ~Holder(t)' /\ Helper(t) /\ ~Helper(t)'
    BY <1>1, <1>3, <1>5, <1>6 DEF Holder, Helper, Resizing, RoleOK
  <1>8. HelpersOK' /\ resizeHelpers' \in Nat
    BY <1>1, <1>5, <1>6, <1>7, OneLessHelper
  <1>9. Works(t, l)
    BY <1>1, <1>2, <1>3, <1>4, <1>8 DEF Works
  <1>10. l.range = {} /\ l.copied = 0 /\ local[t].range = {}
    BY <1>1, <1>3, <1>5 DEF LocalOK, SameCall
  <1>11. LocalOK(t)'
    BY <1>1, <1>3, <1>9, <1>10, WorkLocal DEF SameCall
  <1>12. RoleOK(t)' /\ PlaceOK(t)' /\ JoinedOK(t)'
    BY <1>3, <1>6, <1>7 DEF RoleOK, PlaceOK, JoinedOK, Joined
  <1>13. RangeOK'
    BY <1>1, <1>9, <1>10, SameRanges
  <1>14. nextTable # Nil => \A b \in 0 .. tables[table].len - 1 : Done(b)' => Done(b)
    BY <1>1, <1>9, <1>10, SameDone
  <1>15. l.hint = local[t].hint
    BY <1>3 DEF SameCall
  <1> QED
    BY <1>1, <1>3, <1>4, <1>7, <1>8, <1>9, <1>11, <1>12, <1>13, <1>14, <1>15, WorkStep
    DEF ThreadOK

(* What a worker that goes on has in its place. *)
LEMMA WorkerStays ==
  ASSUME ControlLand, NEW t \in Threads, NEW l, Works(t, l),
         local[t].at \in {"claim", "copy"}, l.at \in {"claim", "copy", "publish", "leave"},
         l.seq = local[t].seq, l.tab = local[t].tab, l.new = local[t].new,
         l.hint = local[t].hint,
         l.at = "publish" => Owner(t) /\ resizeIdx' >= Base(table),
         l.at = "leave" => ~Owner(t),
         nextTable = Nil => l.at # "copy"
  PROVE  RoleOK(t)' /\ PlaceOK(t)' /\ JoinedOK(t)' /\ (Holder(t)' <=> Holder(t))
         /\ (Helper(t)' <=> Helper(t))
  <1>1. /\ local'[t] = l /\ \A u \in Threads : u # t => local'[u] = local[u]
    BY Now, WorkIs
  <1>2. /\ Shaped /\ table' = table /\ nextTable' = nextTable /\ resizeSeq' = resizeSeq
        /\ resizeIdx' \in Nat /\ resizeIdx' >= resizeIdx /\ Len(tables') = Len(tables)
    BY DEF Works, Shaped
  <1>3. /\ RoleOK(t) /\ PlaceOK(t) /\ JoinedOK(t) /\ ResizeOK /\ Typed /\ table \in Nat
        /\ table > 0 /\ resizeIdx \in Nat
    BY Now DEF ThreadOK, Typed
  <1>4. Owner(t)' <=> Owner(t)
    BY <1>1 DEF Owner
  <1>5. Holder(t)' <=> Holder(t)
    BY <1>1, <1>4 DEF Holder, Resizing
  <1>6. Helper(t)' <=> Helper(t)
    BY <1>1, <1>4 DEF Helper
  <1>7. RoleOK(t)'
    BY <1>1, <1>2, <1>3, <1>4, <1>5, <1>6 DEF RoleOK
  <1>8. PlaceOK(t)'
    <2>1. Owner(t) => /\ nextTable = table + 1 /\ l.tab = table /\ l.new = table + 1
                      /\ l.hint # "clear"
      BY <1>3 DEF PlaceOK
    <2>2. Owner(t) => Len(tables) = table + 1
      BY <1>3, WorkerIs DEF ResizeOK
    <2>3. Owner(t) => Base(table)' = Base(table)
      BY <1>2, <1>3, <2>2, BaseStays
    <2> QED
      BY <1>1, <1>2, <1>4, <2>1, <2>2, <2>3 DEF PlaceOK
  <1>9. JoinedOK(t)'
    <2>1. CASE Owner(t)
      BY <1>1, <1>4, <2>1 DEF JoinedOK, Joined, Helper
    <2>2. CASE ~Owner(t)
      <3>1. Joined(t)
        BY <2>2 DEF Joined, Helper
      <3>2. \A o \in Threads : Holder(o)' => Holder(o) /\ local'[o] = local[o]
        BY <1>1, <1>5, <2>2 DEF Holder, Owner
      <3>3. PICK n \in Nat : n = local[t].tab /\ n > 0 /\ n + 1 = Len(tables) /\ Base(n) \in Nat
        BY WorkerIs
      <3>4. Base(n)' = Base(n)
        <4>1. n \in 1 .. Len(tables) /\ n + 1 \in 1 .. Len(tables)
          BY <1>3, <3>3 DEF Typed
        <4> QED
          BY <1>2, <4>1, Zenon DEF Shaped, Base
      <3>5. Base(l.tab)' = Base(n)'
        BY <1>1, <3>3 DEF Base
      <3>6. nextTable = Nil => resizeIdx' >= Base(n)
        <4>1. nextTable = Nil => resizeIdx >= Base(n)
          BY <1>3, <3>1, <3>3 DEF JoinedOK
        <4> QED
          BY <1>2, <1>3, <3>3, <4>1
      <3> QED
        BY <1>1, <1>2, <1>3, <3>1, <3>2, <3>3, <3>4, <3>6, Zenon DEF JoinedOK, Base
    <2> QED
      BY <2>1, <2>2
  <1> QED
    BY <1>5, <1>6, <1>7, <1>8, <1>9

LEMMA ClaimControl ==
  ASSUME ControlLand, NEW t \in Threads, Claim(t)
  PROVE  ControlLand'
  <1>1. /\ local[t].at = "claim" /\ tables' = tables
        /\ hash' = hash /\ calls' = calls /\ wiped' = wiped /\ table' = table
        /\ nextTable' = nextTable /\ resizeSeq' = resizeSeq /\ resizeHelpers' = resizeHelpers
        /\ resizeIdx' = resizeIdx + Stride /\ seen' = seen
    BY DEF Claim, Goes, Becomes, At, fixed
  <1>2. /\ resizeIdx \in Nat /\ resizeHelpers \in Nat /\ Stride \in Nat /\ Stride > 0
        /\ local[t] \in Locals /\ LocalOK(t) /\ Control /\ Typed /\ table \in Nat /\ table > 0
    BY Now, MapSizes DEF Typed
  <1>3. resizeIdx' \in Nat /\ resizeIdx' > resizeIdx
    BY <1>1, <1>2
  <1>4. local[t].range = {} /\ local[t].copied = 0
    BY <1>1, <1>2 DEF LocalOK
  <1>5. Shaped /\ LocksKept(t)
    BY <1>1, <1>2, SameShapes, SameKeepsLocks
  <1>6. PICK n \in Nat : /\ n = local[t].tab /\ n > 0 /\ local[t].new = n + 1
                         /\ n + 1 = Len(tables) /\ Base(n) \in Nat /\ Base(n) > 0
                         /\ nextTable # Nil => n = table
                         /\ nextTable = Nil => ~Owner(t) /\ resizeIdx >= Base(n)
    BY <1>1, WorkerIs
  <1> DEFINE R == {b \in DOMAIN tables[n].chain : b % Base(n) \in resizeIdx .. resizeIdx' - 1}
  <1>7. /\ resizeIdx >= Base(n) => Goes(t, IF Owner(t) THEN "publish" ELSE "leave")
        /\ ~(resizeIdx >= Base(n)) =>
              Becomes(t, [local[t] EXCEPT !.at = "copy", !.copied = 0, !.range = R])
    BY <1>6 DEF Claim, Base
  <1>8. CASE resizeIdx >= Base(n)
    <2> DEFINE at == IF Owner(t) THEN "publish" ELSE "leave"
               l == [local[t] EXCEPT !.at = at]
    <2>1. /\ at \in {"publish", "leave"} /\ at \in Places
          /\ (at = "publish" => Owner(t)) /\ (at = "leave" => ~Owner(t))
      BY DEF Places
    <2>2. local' = [local EXCEPT ![t] = l]
      BY <1>7, <1>8 DEF Goes, Becomes
    <2> HIDE DEF at
    <2>3. /\ l \in Locals /\ SameCall(l, local[t]) /\ l.at = at /\ l.seq = local[t].seq
          /\ l.new = local[t].new
      BY <1>2, <2>1, GoesIs
    <2> HIDE DEF l
    <2>4. Works(t, l)
      BY <1>1, <1>2, <1>3, <1>5, <2>2, <2>3 DEF Works
    <2>5. l.at = "publish" => Owner(t) /\ resizeIdx' >= Base(table)
      BY <1>2, <1>3, <1>6, <1>8, <2>1, <2>3
    <2>6. l.tab = local[t].tab /\ l.hint = local[t].hint /\ l.range = {} /\ l.copied = 0
      BY <1>4, <2>3 DEF SameCall
    <2>7. l.at \in {"publish", "leave"} /\ (l.at = "leave" => ~Owner(t)) /\ l.at # "copy"
      BY <2>1, <2>3
    <2>8. RoleOK(t)' /\ PlaceOK(t)' /\ JoinedOK(t)' /\ (Holder(t)' <=> Holder(t))
          /\ (Helper(t)' <=> Helper(t))
      BY <1>1, <2>3, <2>4, <2>5, <2>6, <2>7, WorkerStays
    <2>9. LocalOK(t)'
      BY <1>1, <2>3, <2>4, <2>6, <2>7, WorkLocal DEF SameCall
    <2>10. /\ local'[t] = l /\ \A u \in Threads : u # t => local'[u] = local[u]
      BY <1>2, <2>4, WorkIs
    <2>11. HelpersOK'
      BY <1>1, <1>2, <2>8, <2>10, SameHelpers DEF Control
    <2>12. nextTable # Nil => /\ Len(tables) = table + 1 /\ Base(table)' = Base(table)
                              /\ n = table
      BY <1>1, <1>2, <1>5, <1>6, BaseStays
    <2>13. \A u \in Threads : local'[u].range = local[u].range
      BY <1>4, <2>6, <2>10
    <2>14. RangeOK
      BY <1>2 DEF Control
    <2>15. ASSUME NEW u \in Threads, NEW b \in local'[u].range
           PROVE  nextTable' # Nil /\ b \in 0 .. tables'[table].len - 1 /\ b % Base(table)' < resizeIdx'
      <3>1. nextTable # Nil /\ b \in 0 .. tables[table].len - 1 /\ b % Base(table) < resizeIdx
        BY <2>13, <2>14, <2>15 DEF RangeOK
      <3>2. b % Base(table) \in Nat
        <4>1. tables[table].len \in Nat
          BY <1>2, TableIs DEF Typed
        <4> QED
          BY <1>6, <2>12, <3>1, <4>1
      <3> QED
        BY <1>1, <1>2, <1>3, <2>12, <3>1, <3>2
    <2>16. RangeOK'
      BY <1>1, <2>13, <2>14, <2>15 DEF RangeOK
    <2>17. nextTable # Nil => \A b \in 0 .. tables[table].len - 1 : Done(b)' => Done(b)
      <3>1. ASSUME nextTable # Nil, NEW b \in 0 .. tables[table].len - 1, Done(b)'
            PROVE  Done(b)
        <4>1. tables[table].len \in Nat
          BY <1>2, TableIs DEF Typed
        <4>2. b \in Nat
          BY <4>1
        <4>3. b % Base(table) < Base(table) /\ b % Base(table) \in Nat
          BY <1>6, <2>12, <3>1, <4>2
        <4>4. b % Base(table) < resizeIdx
          BY <1>2, <1>6, <1>8, <2>12, <3>1, <4>3
        <4> QED
          BY <2>13, <3>1, <4>4 DEF Done
      <3> QED
        BY <3>1
    <2> QED
      BY <1>1, <1>5, <2>3, <2>4, <2>6, <2>7, <2>8, <2>9, <2>11, <2>16, <2>17, WorkStep
      DEF ThreadOK
  <1>9. CASE ~(resizeIdx >= Base(n))
    <2> DEFINE l == [local[t] EXCEPT !.at = "copy", !.copied = 0, !.range = R]
    <2>1. /\ nextTable # Nil /\ n = table /\ Len(tables) = table + 1
      BY <1>6, <1>9
    <2>2. /\ tables[table].len \in Nat /\ DOMAIN tables[table].chain = 0 .. tables[table].len - 1
      <3>1. tables[table] \in TableSet
        BY <1>2 DEF Typed
      <3> QED
        BY <3>1, TableIs
    <2>3. \A b : b \in R <=> /\ b \in 0 .. tables[table].len - 1
                             /\ b % Base(table) \in resizeIdx .. resizeIdx' - 1
      BY <2>1, <2>2
    <2>4. local' = [local EXCEPT ![t] = l]
      BY <1>7, <1>9 DEF Becomes
    <2> HIDE DEF R
    <2>5. R \in SUBSET Nat
      BY <2>2, <2>3
    <2>6. /\ l \in Locals /\ l.at = "copy" /\ l.seq = local[t].seq /\ l.new = local[t].new
          /\ l.op = local[t].op /\ l.key = local[t].key /\ l.value = local[t].value
          /\ l.tab = local[t].tab /\ l.hint = local[t].hint /\ l.delta = local[t].delta
          /\ l.range = R
      BY <1>2, <2>5, Zenon DEF Locals, Places
    <2> HIDE DEF l
    <2>7. Works(t, l)
      BY <1>1, <1>2, <1>3, <1>5, <2>4, <2>6 DEF Works
    <2>8. RoleOK(t)' /\ PlaceOK(t)' /\ JoinedOK(t)' /\ (Holder(t)' <=> Holder(t))
          /\ (Helper(t)' <=> Helper(t))
      BY <1>1, <2>1, <2>6, <2>7, WorkerStays
    <2>9. LocalOK(t)'
      BY <1>1, <2>6, <2>7, WorkLocal
    <2>10. /\ local'[t] = l /\ \A u \in Threads : u # t => local'[u] = local[u]
      BY <1>2, <2>7, WorkIs
    <2>11. HelpersOK'
      BY <1>1, <1>2, <2>8, <2>10, SameHelpers DEF Control
    <2>12. Base(table)' = Base(table)
      BY <1>1, <1>2, <1>5, <2>1, BaseStays
    <2>13. RangeOK
      BY <1>2 DEF Control
    <2>14. \A b \in 0 .. tables[table].len - 1 : b \in Nat /\ b % Base(table) \in Nat
      BY <1>6, <2>1, <2>2
    <2>15. ASSUME NEW u \in Threads, NEW b \in local'[u].range
           PROVE  /\ b \in 0 .. tables[table].len - 1 /\ b % Base(table) < resizeIdx'
                  /\ u # t => b % Base(table) < resizeIdx
                  /\ u = t => b % Base(table) >= resizeIdx
      <3>1. CASE u = t
        BY <1>2, <1>3, <2>3, <2>6, <2>10, <2>14, <2>15, <3>1
      <3>2. CASE u # t
        <4>1. b \in 0 .. tables[table].len - 1 /\ b % Base(table) < resizeIdx
          BY <2>10, <2>13, <2>15, <3>2 DEF RangeOK
        <4> QED
          BY <1>2, <1>3, <2>14, <3>2, <4>1
      <3> QED
        BY <3>1, <3>2
    <2>16. RangeOK'
      <3>1. ASSUME NEW u \in Threads, NEW v \in Threads, NEW b \in local'[u].range,
                   b \in local'[v].range, u # v
            PROVE  FALSE
        <4>1. CASE u # t /\ v # t
          BY <2>10, <2>13, <3>1, <4>1 DEF RangeOK
        <4>2. CASE u = t \/ v = t
          <5>1. b % Base(table) \in Nat
            BY <2>14, <2>15
          <5> QED
            BY <1>2, <2>15, <3>1, <4>2, <5>1
        <4> QED
          BY <4>1, <4>2
      <3> QED
        BY <1>1, <2>1, <2>12, <2>15, <3>1 DEF RangeOK
    <2>17. ASSUME NEW b \in 0 .. tables[table].len - 1, Done(b)'
           PROVE  Done(b)
      <3>1. b % Base(table) < resizeIdx' /\ b % Base(table) \in Nat
            /\ \A u \in Threads : b \notin local'[u].range
        BY <1>1, <2>12, <2>14, <2>17 DEF Done
      <3>2. b \notin R
        BY <2>6, <2>10, <3>1
      <3>3. b % Base(table) < resizeIdx
        BY <1>2, <1>3, <2>3, <3>1, <3>2
      <3>4. \A u \in Threads : b \notin local[u].range
        BY <1>4, <2>10, <3>1
      <3> QED
        BY <3>3, <3>4 DEF Done
    <2> QED
      BY <1>1, <1>5, <2>6, <2>7, <2>8, <2>9, <2>11, <2>16, <2>17, WorkStep DEF ThreadOK
  <1> QED
    BY <1>8, <1>9

(* A chain is copied into table n. *)
Filling(n, c) ==
    /\ tables' \in Seq(TableSet) /\ Len(tables') = Len(tables)
    /\ tables'[n] = Copied(c, tables[n]) /\ SameBut(tables[n], tables'[n])
    /\ \A m \in 1 .. Len(tables) : m # n => tables'[m] = tables[m]

LEMMA CopyEdits ==
  ASSUME Typed, NEW n \in 1 .. Len(tables), NEW c \in Seq(SlotSet),
         tables' = [tables EXCEPT ![n] = Copied(c, @)]
  PROVE  Filling(n, c)
  <1>1. tables[n] \in TableSet /\ tables \in Seq(TableSet)
        /\ hash \in [Keys -> [h1 : Nat, h2 : Nat \ {0}]]
    BY DEF Typed
  <1>2. Len(c) \in 0 .. Len(c)
    OBVIOUS
  <1>3. SameBut(tables[n], Copied(c, tables[n]))
    BY <1>1, <1>2, CopiesTypes, CopiedIs
  <1>4. Copied(c, tables[n]) \in TableSet
    BY <1>3 DEF SameBut
  <1> DEFINE new == Copied(c, tables[n])
  <1>5. tables' = [tables EXCEPT ![n] = new]
    OBVIOUS
  <1> HIDE DEF new
  <1>6. /\ tables' \in Seq(TableSet) /\ Len(tables') = Len(tables) /\ tables'[n] = new
        /\ \A m \in 1 .. Len(tables) : m # n => tables'[m] = tables[m]
    BY <1>1, <1>4, <1>5, Exchange DEF new
  <1> QED
    BY <1>3, <1>6 DEF Filling, new

LEMMA FillingKeeps ==
  ASSUME NEW n \in 1 .. Len(tables), NEW c, Filling(n, c), NEW t \in Threads
  PROVE  Shaped /\ LocksKept(t)
  <1>1. \A m \in 1 .. Len(tables) : tables'[m].len = tables[m].len /\ tables'[m].lock = tables[m].lock
    BY DEF Filling, SameBut
  <1> QED
    BY <1>1 DEF Filling, Shaped, LocksKept

LEMMA OccupiedIs ==
  ASSUME NEW c \in Seq(SlotSet)
  PROVE  IsFiniteSet(Occupied(c)) /\ Cardinality(Occupied(c)) \in Nat /\ Occupied(c) \subseteq 1 .. Len(c)
  <1>1. Occupied(c) \subseteq 1 .. Len(c) /\ Len(c) \in Nat
    BY DEF Occupied
  <1>2. IsFiniteSet(1 .. Len(c))
    BY <1>1, FS_Interval
  <1> QED
    BY <1>1, <1>2, FS_Subset, FS_CardinalityType

LEMMA CopyControl ==
  ASSUME ControlLand, NEW t \in Threads, Copy(t)
  PROVE  ControlLand'
  <1>1. /\ local[t].at = "copy" /\ local[t].range # {}
        /\ hash' = hash /\ calls' = calls /\ wiped' = wiped /\ table' = table
        /\ nextTable' = nextTable /\ resizeSeq' = resizeSeq /\ resizeHelpers' = resizeHelpers
        /\ resizeIdx' = resizeIdx /\ seen' = seen
    BY DEF Copy, Becomes, At, fixed, resizing
  <1>2. /\ resizeIdx \in Nat /\ resizeHelpers \in Nat
        /\ local[t] \in Locals /\ LocalOK(t) /\ Control /\ Typed /\ RangeOK /\ table \in Nat
        /\ table > 0 /\ HelpersOK
    BY Now DEF Typed, Control
  <1>3. /\ local[t].tab = table /\ local[t].new = table + 1 /\ Len(tables) = table + 1
        /\ nextTable # Nil
    BY <1>1, WorkerIs
  <1>4. PICK b \in Nat : b = Min(local[t].range) /\ b \in local[t].range
    BY <1>1, <1>2, MinIs DEF Locals
  <1>5. b \in 0 .. tables[table].len - 1
    BY <1>2, <1>4 DEF RangeOK
  <1>6. PICK c \in Seq(SlotSet) : c = tables[table].chain[b]
    <2>1. tables[table] \in TableSet
      BY <1>2 DEF Typed
    <2> QED
      BY <1>5, <2>1, TableIs
  <1>7. /\ tables[table].lock[b] = Nil
        /\ tables' = [tables EXCEPT ![table + 1] = Copied(c, @)]
    BY <1>3, <1>4, <1>6 DEF Copy
  <1>8. table + 1 \in 1 .. Len(tables)
    BY <1>2, <1>3
  <1>9. Shaped /\ LocksKept(t)
    BY <1>2, <1>7, <1>8, CopyEdits, FillingKeeps, Zenon
  <1> DEFINE l == [local[t] EXCEPT !.range = @ \ {b}, !.copied = @ + Cardinality(Occupied(c))]
  <1>10. local' = [local EXCEPT ![t] = l]
    BY <1>3, <1>4, <1>6 DEF Copy, Becomes
  <1>11. /\ l \in Locals /\ l.at = "copy" /\ l.seq = local[t].seq /\ l.new = local[t].new
         /\ l.op = local[t].op /\ l.key = local[t].key /\ l.value = local[t].value
         /\ l.tab = local[t].tab /\ l.hint = local[t].hint /\ l.delta = local[t].delta
         /\ l.range = local[t].range \ {b}
    <2>1. Cardinality(Occupied(c)) \in Nat
      BY OccupiedIs
    <2>2. local[t].copied + Cardinality(Occupied(c)) \in Nat
      BY <1>2, <2>1 DEF Locals
    <2> QED
      BY <1>1, <1>2, <2>2, Zenon DEF Locals
  <1> HIDE DEF l
  <1>12. Works(t, l)
    BY <1>1, <1>2, <1>9, <1>10, <1>11 DEF Works
  <1>13. RoleOK(t)' /\ PlaceOK(t)' /\ JoinedOK(t)' /\ (Holder(t)' <=> Holder(t))
         /\ (Helper(t)' <=> Helper(t))
    BY <1>1, <1>3, <1>11, <1>12, WorkerStays
  <1>14. LocalOK(t)'
    BY <1>1, <1>11, <1>12, WorkLocal
  <1>15. /\ local'[t] = l /\ \A u \in Threads : u # t => local'[u] = local[u]
    BY <1>2, <1>12, WorkIs
  <1>16. HelpersOK'
    BY <1>1, <1>2, <1>13, <1>15, SameHelpers
  <1>17. RangeOK'
    BY <1>1, <1>11, <1>12, SameRanges
  <1>18. ASSUME NEW a \in 0 .. tables[table].len - 1, tables[table].lock[a] # Nil, Done(a)'
         PROVE  Done(a)
    <2>1. a \notin local[t].range \ l.range
      BY <1>7, <1>11, <1>18
    <2> QED
      BY <1>1, <1>3, <1>12, <1>18, <2>1, SameDone
  <1> QED
    BY <1>1, <1>9, <1>11, <1>12, <1>13, <1>14, <1>16, <1>17, <1>18, WorkStep DEF ThreadOK

LEMMA CountCopiedControl ==
  ASSUME ControlLand, NEW t \in Threads, CountCopied(t)
  PROVE  ControlLand'
  <1> DEFINE l == [local[t] EXCEPT !.at = "claim", !.copied = 0]
  <1>1. /\ local[t].at = "copy" /\ local[t].range = {}
        /\ hash' = hash /\ calls' = calls /\ wiped' = wiped /\ table' = table
        /\ nextTable' = nextTable /\ resizeSeq' = resizeSeq /\ resizeHelpers' = resizeHelpers
        /\ resizeIdx' = resizeIdx /\ seen' = seen /\ local' = [local EXCEPT ![t] = l]
        /\ tables' = [tables EXCEPT ![local[t].new].size = @ + local[t].copied]
    BY DEF CountCopied, Becomes, At, fixed, resizing
  <1>2. /\ resizeIdx \in Nat /\ resizeHelpers \in Nat
        /\ local[t] \in Locals /\ Control /\ Typed /\ HelpersOK
    BY Now DEF Typed, Control
  <1>3. local[t].new \in 1 .. Len(tables)
    BY <1>1, <1>2, WorkerIs
  <1>4. local[t].copied \in Int
    BY <1>2 DEF Locals
  <1>5. Shaped /\ LocksKept(t)
    BY <1>1, <1>2, <1>3, <1>4, SizeEdits, ResizedKeeps, Zenon
  <1>6. /\ l \in Locals /\ l.at = "claim" /\ l.seq = local[t].seq /\ l.new = local[t].new
        /\ l.op = local[t].op /\ l.key = local[t].key /\ l.value = local[t].value
        /\ l.tab = local[t].tab /\ l.hint = local[t].hint /\ l.delta = local[t].delta
        /\ l.range = {} /\ l.copied = 0
    BY <1>1, <1>2, Zenon DEF Locals, Places
  <1> HIDE DEF l
  <1>7. Works(t, l)
    BY <1>1, <1>2, <1>5, <1>6 DEF Works
  <1>8. RoleOK(t)' /\ PlaceOK(t)' /\ JoinedOK(t)' /\ (Holder(t)' <=> Holder(t))
        /\ (Helper(t)' <=> Helper(t))
    BY <1>1, <1>6, <1>7, WorkerStays
  <1>9. LocalOK(t)'
    BY <1>1, <1>6, <1>7, WorkLocal
  <1>10. /\ local'[t] = l /\ \A u \in Threads : u # t => local'[u] = local[u]
    BY <1>2, <1>7, WorkIs
  <1>11. HelpersOK'
    BY <1>1, <1>2, <1>8, <1>10, SameHelpers
  <1>12. RangeOK'
    BY <1>1, <1>6, <1>7, SameRanges
  <1>13. nextTable # Nil => \A b \in 0 .. tables[table].len - 1 : Done(b)' => Done(b)
    BY <1>1, <1>7, SameDone
  <1> QED
    BY <1>1, <1>5, <1>6, <1>7, <1>8, <1>9, <1>11, <1>12, <1>13, WorkStep DEF ThreadOK

(* A writer's table is as it was. *)
LEMMA LandMoved ==
  ASSUME ControlLand, NEW u \in Threads, local'[u] = local[u], hash' = hash,
         \A m \in 1 .. Len(tables) : tables'[m] = tables[m],
         local[u].at \in Writing =>
             /\ local[u].tab = table' /\ nextTable' # Nil => ~Done(Root(u))'
             /\ local[u].at # "locked" => local[u].tab = table' \/ local[u].tab \in wiped'
  PROVE  LandOK(u)'
  <1>1. CASE local[u].at \notin Writing
    BY <1>1 DEF LandOK
  <1>2. CASE local[u].at \in Writing
    <2>1. OnTable(u) /\ LandOK(u)
      BY <1>2, HolderIs, Now
    <2>2. tables'[local[u].tab] = tables[local[u].tab]
      BY <2>1 DEF OnTable
    <2>3. Root(u)' = Root(u)
      BY <2>2 DEF Root, Home
    <2> QED
      BY <1>2, <2>1, <2>2, <2>3 DEF LandOK
  <1> QED
    BY <1>1, <1>2

LEMMA RangesEmpty ==
  ASSUME ControlLand, nextTable = Nil
  PROVE  \A u \in Threads : local[u].range = {}
  BY DEF ControlLand, Control, RangeOK

LEMMA NoHelpers ==
  ASSUME HelpersOK, resizeHelpers = 0
  PROVE  \A u \in Threads : ~Helper(u)
  <1> DEFINE H == {u \in Threads : Helper(u)}
  <1>1. IsFiniteSet(H) /\ Cardinality(H) = 0
    BY HelpersFinite DEF HelpersOK
  <1> HIDE DEF H
  <1>2. H = {}
    BY <1>1, FS_EmptySet
  <1> QED
    BY <1>2 DEF H

(* The owner of a resize, and that it has no other. *)
LEMMA OwnerIs ==
  ASSUME ControlLand, NEW t \in Threads, local[t].at \in {"prepare", "publish", "finish"}
  PROVE  /\ Holder(t) /\ Owner(t) /\ ~Helper(t) /\ \A u \in Threads : Holder(u) => u = t
         /\ local[t].seq + 1 = resizeSeq /\ local[t].seq % 2 = 0 /\ resizeSeq % 2 = 1
         /\ resizeSeq \in Nat /\ local[t].seq \in Nat /\ local[t].hint # Nil
         /\ local[t] \in Locals /\ local[t].range = {} /\ local[t].copied = 0
         /\ local[t].delta = 0 /\ local[t].op \in Ops
         /\ local[t].hint # "clear" => local[t].key \in Keys /\ local[t].value \in Nat
  <1>1. RoleOK(t) /\ LocalOK(t) /\ local[t] \in Locals /\ resizeSeq \in Nat /\ ResizeOK
    BY Now DEF Typed
  <1>2. Owner(t)
    BY <1>1 DEF RoleOK
  <1>3. Holder(t) /\ ~Helper(t)
    BY <1>2 DEF Holder, Helper, Resizing
  <1>4. local[t].seq + 1 = resizeSeq /\ local[t].hint # Nil
    BY <1>1, <1>3 DEF RoleOK
  <1>5. local[t].seq \in Nat /\ local[t].seq % 2 = 0
    BY <1>1, <1>2 DEF Owner, Locals
  <1>6. resizeSeq % 2 = 1
    BY <1>4, <1>5
  <1>7. \A u \in Threads : Holder(u) => u = t
    BY <1>1, <1>3 DEF ResizeOK
  <1> QED
    BY <1>1, <1>2, <1>3, <1>4, <1>5, <1>6, <1>7 DEF LocalOK

LEMMA CasWon ==
  ASSUME ControlLand, NEW t \in Threads, Cas(t), resizeSeq = local[t].seq
  PROVE  ControlLand'
  <1> DEFINE l == [local[t] EXCEPT !.at = "prepare"]
  <1>1. /\ local[t].at = "cas" /\ tables' = tables
        /\ local' = [local EXCEPT ![t] = l] /\ seen' = seen
        /\ hash' = hash /\ calls' = calls /\ wiped' = wiped /\ table' = table
        /\ nextTable' = nextTable /\ resizeSeq' = resizeSeq + 1 /\ resizeIdx' = resizeIdx
        /\ resizeHelpers' = resizeHelpers
    BY DEF Cas, Goes, Becomes, At, fixed
  <1>2. /\ "prepare" \in Places /\ local[t] \in Locals /\ resizeSeq \in Nat /\ table \in Nat
        /\ Typed /\ ResizeOK /\ RoleOK(t) /\ LocalOK(t) /\ HelpersOK /\ RangeOK
        /\ \A u \in Threads : ThreadOK(u)
    BY Now DEF Places, Typed, Control
  <1>3. l \in Locals /\ SameCall(l, local[t]) /\ l.at = "prepare" /\ l.seq = local[t].seq
    BY <1>2, GoesIs
  <1> HIDE DEF l
  <1>4. /\ local'[t] = l /\ \A u \in Threads : u # t => local'[u] = local[u]
        /\ \A u \in Threads : local[u] \in Locals
    BY <1>1, <1>2 DEF Typed
  <1>5. Typed'
    BY <1>1, <1>2, <1>3 DEF Typed
  <1>6. resizeSeq % 2 = 0
    BY <1>1, <1>2 DEF RoleOK
  <1>7. \A u \in Threads : local[u].seq \in Nat
    BY <1>4 DEF Locals
  <1>8. ASSUME NEW u \in Threads PROVE ~Holder(u) /\ ~Helper(u)
    <2>1. RoleOK(u) /\ local[u].seq \in Nat
      BY <1>2, <1>7 DEF ThreadOK
    <2>2. ~Helper(u)
      BY <1>6, <2>1 DEF RoleOK
    <2>3. Holder(u) => local[u].seq + 1 = resizeSeq /\ local[u].seq % 2 = 0
      BY <2>1 DEF RoleOK, Holder, Owner
    <2> QED
      BY <1>2, <1>6, <2>1, <2>2, <2>3
  <1>9. nextTable = Nil /\ Len(tables) = table
    BY <1>2, <1>6, <1>8 DEF ResizeOK
  <1>10. Holder(t)' /\ ~Helper(t)'
    BY <1>2, <1>3, <1>4, <1>6 DEF Holder, Helper, Owner, Resizing
  <1>11. \A u \in Threads : u # t => ~Holder(u)' /\ ~Helper(u)'
    BY <1>4, <1>8 DEF Holder, Helper, Owner
  <1>12. ASSUME NEW u \in Threads PROVE ~Joined(u)'
    <2>1. RoleOK(u) /\ local[u].seq \in Nat
      BY <1>2, <1>7 DEF ThreadOK
    <2>2. local[u].at = "register" => local[u].seq # resizeSeq + 1
      BY <1>2, <2>1 DEF RoleOK
    <2> QED
      BY <1>1, <1>3, <1>4, <1>10, <1>11, <2>2 DEF Joined
  <1>13. LocalOK(t)'
    BY <1>1, <1>2, <1>3, <1>4 DEF LocalOK, SameCall, OnKey, Writing
  <1>14. RoleOK(t)'
    <2>1. l.hint # Nil /\ Owner(t)' /\ l.seq + 1 = resizeSeq'
      BY <1>1, <1>2, <1>3, <1>4, <1>6 DEF LocalOK, SameCall, Owner
    <2> QED
      BY <1>3, <1>4, <1>10, <2>1 DEF RoleOK
  <1>15. PlaceOK(t)'
    BY <1>1, <1>3, <1>4, <1>9 DEF PlaceOK
  <1>16. ASSUME NEW u \in Threads, u # t PROVE ThreadOK(u)'
    <2>1. local'[u] = local[u] /\ ThreadOK(u) /\ local[u].seq \in Nat
      BY <1>2, <1>4, <1>7, <1>16
    <2>2. LocalOK(u)'
      BY <1>1, <2>1 DEF ThreadOK, LocalOK
    <2>3. Owner(u)' <=> Owner(u)
      BY <2>1 DEF Owner
    <2>4. RoleOK(u)'
      BY <1>1, <1>2, <1>11, <1>16, <2>1, <2>3 DEF ThreadOK, RoleOK
    <2>5. PlaceOK(u)'
      BY <1>1, <2>1, <2>3 DEF ThreadOK, PlaceOK, Base
    <2> QED
      BY <1>12, <2>2, <2>4, <2>5 DEF ThreadOK, JoinedOK
  <1>17. ResizeOK'
    BY <1>1, <1>2, <1>9, <1>10, <1>11 DEF ResizeOK
  <1>18. HelpersOK'
    BY <1>1, <1>2, <1>4, <1>8, <1>10, SameHelpers
  <1>19. RangeOK'
    <2>1. local[t].range = {} /\ l.range = {}
      BY <1>1, <1>2, <1>3 DEF LocalOK, SameCall
    <2>2. \A u \in Threads : local'[u].range = local[u].range
      BY <1>4, <2>1
    <2> QED
      BY <1>2, <1>9, <2>2 DEF RangeOK
  <1>20. LandOK(t)'
    BY <1>3, <1>4 DEF LandOK, Writing
  <1>21. ASSUME NEW u \in Threads, u # t PROVE LandOK(u)'
    <2>1. local'[u] = local[u] /\ LandOK(u)
      BY <1>4, <1>21 DEF ControlLand
    <2>2. local[u].at \in Writing /\ local[u].at # "locked"
             => local[u].tab = table' \/ local[u].tab \in wiped'
      BY <1>1, <2>1 DEF LandOK
    <2> QED
      BY <1>1, <1>9, <2>1, <2>2, LandMoved
  <1>22. Control'
    BY <1>5, <1>12, <1>13, <1>14, <1>15, <1>16, <1>17, <1>18, <1>19 DEF Control, ThreadOK, JoinedOK
  <1> QED
    BY <1>20, <1>21, <1>22 DEF ControlLand

(* The owner makes resizeCtl even again. *)
LEMMA ReleaseControl ==
  ASSUME ControlLand, NEW t \in Threads, local[t].at \in {"prepare", "finish"},
         \A u \in Threads : ~Helper(u), tables' = tables,
         hash' = hash, calls' = calls, wiped' = wiped, table' = table,
         nextTable' = nextTable, resizeSeq' = resizeSeq + 1, resizeIdx' = resizeIdx,
         resizeHelpers' = resizeHelpers, AfterResize(t)
  PROVE  ControlLand'
  <1>1. /\ Typed /\ ResizeOK /\ HelpersOK /\ RangeOK /\ table \in Nat /\ table > 0
        /\ PlaceOK(t) /\ LocalOK(t) /\ \A u \in Threads : ThreadOK(u)
    BY Now DEF Control, ThreadOK
  <1>2. /\ Holder(t) /\ \A u \in Threads : Holder(u) => u = t
        /\ resizeSeq % 2 = 1 /\ resizeSeq \in Nat /\ local[t] \in Locals
    BY OwnerIs
  <1>3. nextTable = Nil /\ Len(tables) = table
    BY <1>1 DEF PlaceOK
  <1>4. PICK l \in Locals :
           /\ local' = [local EXCEPT ![t] = l] /\ l.at \in {"idle", "attempt"} /\ l.range = {}
           /\ local'[t] = l => LocalOK(t)'
           /\ seen' \in [Threads -> SUBSET Values]
    <2>1. CASE Ends(t)
      <3>1. Idle.at = "idle" /\ Idle.range = {} /\ Idle.hint = Nil /\ Idle.delta = 0
            /\ Idle.copied = 0
        BY DEF Idle
      <3>2. local'[t] = Idle => LocalOK(t)'
        BY <3>1, MapSizes DEF LocalOK, OnKey, Writing
      <3>3. seen' \in [Threads -> SUBSET Values]
        BY <2>1, Now DEF Ends
      <3> QED
        BY <2>1, <3>1, <3>2, <3>3, IdleIs, Zenon DEF Ends
    <2>2. CASE local[t].hint # "clear" /\ Goes(t, "attempt")
      <3> DEFINE m == [local[t] EXCEPT !.at = "attempt"]
      <3>1. "attempt" \in Places
        BY DEF Places
      <3>2. m \in Locals /\ m.at = "attempt" /\ SameCall(m, local[t])
        BY <1>2, <3>1, GoesIs
      <3>3. local' = [local EXCEPT ![t] = m] /\ seen' = seen
        BY <2>2 DEF Goes, Becomes
      <3> HIDE DEF m
      <3>4. local'[t] = m => LocalOK(t)'
        BY <1>1, <2>2, <3>2 DEF LocalOK, SameCall
      <3>5. m.range = {}
        BY <1>1, <3>2 DEF LocalOK, SameCall
      <3>6. seen' \in [Threads -> SUBSET Values]
        BY <3>3, Now
      <3> QED
        BY <3>2, <3>3, <3>4, <3>5, <3>6, Zenon
    <2> QED
      BY <2>1, <2>2 DEF AfterResize
  <1>5. /\ local'[t] = l /\ \A u \in Threads : u # t => local'[u] = local[u]
        /\ \A u \in Threads : local[u] \in Locals
    BY <1>1, <1>4 DEF Typed
  <1>6. Typed'
    BY <1>1, <1>2, <1>4 DEF Typed
  <1>7. \A u \in Threads : ~Helper(u)' /\ ~Holder(u)'
    <2>1. ~Helper(t)' /\ ~Holder(t)'
      BY <1>4, <1>5 DEF Helper, Holder, Resizing
    <2> QED
      BY <1>2, <1>5, <2>1 DEF Helper, Holder, Owner
  <1>8. ASSUME NEW u \in Threads PROVE ~Joined(u)'
    <2>1. RoleOK(u) /\ local[u].seq \in Nat
      BY <1>1, <1>5 DEF ThreadOK, Locals
    <2>2. local[u].at = "register" => local[u].seq # resizeSeq + 1
      BY <1>2, <2>1 DEF RoleOK
    <2> QED
      BY <1>4, <1>5, <1>7, <2>2 DEF Joined
  <1>9. ASSUME NEW u \in Threads, u # t PROVE ThreadOK(u)'
    <2>1. local'[u] = local[u] /\ ThreadOK(u) /\ local[u].seq \in Nat
      BY <1>1, <1>5, <1>9 DEF Locals
    <2>2. LocalOK(u)'
      BY <2>1 DEF ThreadOK, LocalOK
    <2>3. Owner(u)' <=> Owner(u)
      BY <2>1 DEF Owner
    <2>4. RoleOK(u)'
      BY <1>2, <1>7, <2>1, <2>3 DEF ThreadOK, RoleOK
    <2>5. PlaceOK(u)'
      BY <2>1, <2>3 DEF ThreadOK, PlaceOK, Base
    <2> QED
      BY <1>8, <2>2, <2>4, <2>5 DEF ThreadOK, JoinedOK
  <1>10. ThreadOK(t)'
    BY <1>4, <1>5, <1>7, <1>8 DEF ThreadOK, RoleOK, PlaceOK, JoinedOK
  <1>11. ResizeOK'
    <2>1. resizeSeq' % 2 # 1
      BY <1>2
    <2> QED
      BY <1>1, <1>3, <1>7, <2>1 DEF ResizeOK
  <1>12. HelpersOK'
    BY <1>1, <1>5, <1>7, SameHelpers
  <1>13. RangeOK'
    <2>1. \A u \in Threads : local'[u].range = {}
      BY <1>3, <1>4, <1>5, RangesEmpty
    <2> QED
      BY <2>1 DEF RangeOK
  <1>14. LandOK(t)'
    BY <1>4, <1>5 DEF LandOK, Writing
  <1>15. ASSUME NEW u \in Threads, u # t PROVE LandOK(u)'
    <2>1. local'[u] = local[u] /\ LandOK(u)
      BY <1>5, <1>15 DEF ControlLand
    <2>2. local[u].at \in Writing /\ local[u].at # "locked"
             => local[u].tab = table' \/ local[u].tab \in wiped'
      BY <2>1 DEF LandOK
    <2> QED
      BY <1>3, <2>1, <2>2, LandMoved
  <1>16. Control'
    BY <1>6, <1>9, <1>10, <1>11, <1>12, <1>13 DEF Control
  <1> QED
    BY <1>14, <1>15, <1>16 DEF ControlLand

LEMMA FinishControl ==
  ASSUME ControlLand, NEW t \in Threads, Finish(t)
  PROVE  ControlLand'
  <1>1. local[t].at = "finish" /\ resizeHelpers = 0 /\ AfterResize(t) /\ tables' = tables
        /\ hash' = hash /\ calls' = calls /\ wiped' = wiped /\ table' = table
        /\ nextTable' = nextTable /\ resizeSeq' = resizeSeq + 1 /\ resizeIdx' = resizeIdx
        /\ resizeHelpers' = resizeHelpers
    BY DEF Finish, At, fixed
  <1>2. \A u \in Threads : ~Helper(u)
    BY <1>1, NoHelpers, Now DEF Control
  <1> QED
    BY <1>1, <1>2, ReleaseControl

(* Nobody has joined a resize whose new table is not there. *)
LEMMA NoneJoined ==
  ASSUME ControlLand, NEW t \in Threads, local[t].at = "prepare"
  PROVE  \A u \in Threads : ~Joined(u) /\ ~Helper(u)
  <1>1. Holder(t)
    BY OwnerIs
  <1>2. ASSUME NEW u \in Threads PROVE ~Joined(u)
    <2>1. JoinedOK(u)
      BY DEF ControlLand, Control, ThreadOK
    <2> QED
      BY <1>1, <2>1 DEF JoinedOK
  <1> QED
    BY <1>2 DEF Joined

LEMMA NewTableIs ==
  ASSUME NEW m \in Nat, m > 0
  PROVE  /\ NewTable(m) \in TableSet /\ NewTable(m).len = m /\ NewTable(m).size = 0
         /\ \A b \in 0 .. m - 1 : NewTable(m).chain[b] = NewBucket
         /\ NewBucket \in Seq(SlotSet) /\ Len(NewBucket) = BucketSize
         /\ \A j \in 1 .. BucketSize : NewBucket[j] = Empty
  <1>1. BucketSize \in Nat /\ Empty \in SlotSet
    BY MapSizes DEF Empty, SlotSet
  <1>2. /\ NewBucket \in Seq(SlotSet) /\ Len(NewBucket) = BucketSize
        /\ \A j \in 1 .. BucketSize : NewBucket[j] = Empty
    BY <1>1 DEF NewBucket
  <1> DEFINE chain == [b \in 0 .. m - 1 |-> NewBucket]
             lock == [b \in 0 .. m - 1 |-> Nil]
  <1>3. chain \in [0 .. m - 1 -> Seq(SlotSet)] /\ lock \in [0 .. m - 1 -> Owners]
    BY <1>2 DEF Owners
  <1>4. NewTable(m) = [len |-> m, size |-> 0, chain |-> chain, lock |-> lock]
    BY DEF NewTable
  <1>5. NewTable(m) \in TablesOf(m)
    <2> HIDE DEF chain, lock
    <2> QED
      BY <1>3, <1>4 DEF TablesOf
  <1>6. NewTable(m) \in TableSet
    BY <1>5, IsTable
  <1> QED
    BY <1>2, <1>4, <1>6

LEMMA NewLenIs ==
  ASSUME ControlLand, NEW hint \in {"grow", "shrink", "clear"},
         hint = "shrink" => MayShrink(table)
  PROVE  NewLen(hint) \in Nat /\ NewLen(hint) > 0
  <1>1. tables[table] \in TableSet
    BY DEF ControlLand, Control, Typed
  <1>2. tables[table].len \in Nat /\ tables[table].len > 0 /\ MinLen \in Nat /\ MinLen > 0
    BY <1>1, TableIs, MapSizes
  <1>3. CASE hint = "grow"
    BY <1>2, <1>3 DEF NewLen
  <1>4. CASE hint = "shrink"
    <2>1. tables[table].len > 1
      BY <1>2, <1>4 DEF MayShrink
    <2> QED
      BY <1>2, <1>4, <2>1 DEF NewLen
  <1>5. CASE hint = "clear"
    BY <1>2, <1>5 DEF NewLen
  <1> QED
    BY <1>3, <1>4, <1>5

(* One more table. *)
LEMMA AppendTable ==
  ASSUME Typed, NEW tb \in TableSet, tables' = Append(tables, tb)
  PROVE  /\ tables' \in Seq(TableSet) /\ Len(tables') = Len(tables) + 1
         /\ tables'[Len(tables) + 1] = tb
         /\ \A m \in 1 .. Len(tables) : tables'[m] = tables[m]
  BY DEF Typed

LEMMA PrepareControl ==
  ASSUME ControlLand, NEW t \in Threads, Prepare(t)
  PROVE  ControlLand'
  <1> DEFINE fill == local[t].hint # "clear"
             new == Len(tables) + 1
             len == NewLen(local[t].hint)
             at == IF fill THEN "claim" ELSE "publish"
             l == [local[t] EXCEPT !.at = at, !.tab = table, !.new = new]
  <1>1. /\ local[t].at = "prepare"
        /\ hash' = hash /\ calls' = calls /\ wiped' = wiped /\ table' = table
        /\ resizeHelpers' = resizeHelpers
    BY DEF Prepare, At, fixed
  <1>2. \A u \in Threads : ~Joined(u) /\ ~Helper(u)
    BY <1>1, NoneJoined
  <1>3. CASE local[t].hint = "shrink" /\ ~MayShrink(table)
    BY <1>1, <1>2, <1>3, ReleaseControl DEF Prepare
  <1>4. CASE ~(local[t].hint = "shrink" /\ ~MayShrink(table))
    <2>1. /\ Typed /\ ResizeOK /\ HelpersOK /\ table \in Nat /\ table > 0
          /\ PlaceOK(t) /\ LocalOK(t) /\ RoleOK(t) /\ resizeIdx \in Nat
          /\ \A u \in Threads : ThreadOK(u)
      BY Now DEF Control, ThreadOK, Typed
    <2>2. /\ Holder(t) /\ \A u \in Threads : Holder(u) => u = t
          /\ resizeSeq % 2 = 1 /\ resizeSeq \in Nat /\ local[t] \in Locals /\ Owner(t)
          /\ local[t].seq + 1 = resizeSeq /\ local[t].hint # Nil
          /\ local[t].range = {} /\ local[t].copied = 0
      BY <1>1, OwnerIs
    <2>3. nextTable = Nil /\ Len(tables) = table
      BY <1>1, <2>1 DEF PlaceOK
    <2>4. len \in Nat /\ len > 0
      <3>1. local[t].hint \in {"grow", "shrink", "clear"}
        BY <2>2 DEF Locals
      <3> QED
        BY <1>4, <3>1, NewLenIs
    <2>5. /\ tables' = Append(tables, NewTable(len)) /\ local' = [local EXCEPT ![t] = l]
          /\ seen' = seen /\ resizeSeq' = resizeSeq
          /\ nextTable' = (IF fill THEN new ELSE nextTable)
          /\ resizeIdx' = (IF fill THEN 0 ELSE resizeIdx)
      BY <1>4 DEF Prepare, Becomes
    <2> HIDE DEF len
    <2>6. NewTable(len) \in TableSet
      BY <2>4, NewTableIs
    <2>7. /\ tables' \in Seq(TableSet) /\ Len(tables') = table + 1
          /\ \A m \in 1 .. Len(tables) : tables'[m] = tables[m]
      BY <2>1, <2>3, <2>5, <2>6, AppendTable
    <2>8. new = table + 1 /\ at \in Places /\ at \in {"claim", "publish"}
          /\ (fill => at = "claim") /\ (~fill => at = "publish")
      BY <2>3 DEF Places
    <2> HIDE DEF new, at
    <2>9. /\ l \in Locals /\ l.at = at /\ l.tab = table /\ l.new = table + 1
          /\ l.seq = local[t].seq /\ l.op = local[t].op /\ l.key = local[t].key
          /\ l.value = local[t].value /\ l.hint = local[t].hint /\ l.delta = local[t].delta
          /\ l.range = {} /\ l.copied = 0
      <3> HIDE DEF fill
      <3>1. new \in Nat /\ table \in Nat /\ local[t] \in Locals /\ at \in Places
        BY <2>1, <2>2, <2>8
      <3>2. l \in Locals
        BY <3>1, Zenon DEF Locals
      <3>3. /\ l.at = at /\ l.tab = table /\ l.new = new
            /\ l.seq = local[t].seq /\ l.op = local[t].op /\ l.key = local[t].key
            /\ l.value = local[t].value /\ l.hint = local[t].hint /\ l.delta = local[t].delta
            /\ l.range = local[t].range /\ l.copied = local[t].copied
        BY <3>1 DEF Locals
      <3> QED
        BY <2>2, <2>8, <3>2, <3>3
    <2> HIDE DEF l
    <2>10. /\ local'[t] = l /\ \A u \in Threads : u # t => local'[u] = local[u]
      BY <2>1, <2>5 DEF Typed
    <2>11. nextTable' \in Nat \cup {Nil} /\ resizeIdx' \in Nat
      BY <2>1, <2>3, <2>5, <2>8
    <2>12. Typed'
      <3>1. table \in 1 .. Len(tables')
        BY <2>1, <2>7
      <3> QED
        BY <1>1, <2>1, <2>5, <2>7, <2>9, <2>11, <3>1 DEF Typed
    <2>13. Holder(t)' /\ ~Helper(t)' /\ Owner(t)'
      BY <2>2, <2>8, <2>9, <2>10 DEF Holder, Helper, Owner, Resizing
    <2>14. \A u \in Threads : u # t => ~Holder(u)' /\ ~Helper(u)' /\ ~Joined(u)' /\ ~Holder(u)
      BY <1>2, <2>2, <2>5, <2>10 DEF Holder, Helper, Owner, Joined
    <2>15. ~Joined(t)'
      BY <2>8, <2>9, <2>10, <2>13 DEF Joined
    <2>16. LocalOK(t)'
      BY <1>1, <2>1, <2>8, <2>9, <2>10 DEF LocalOK, OnKey, Writing
    <2>17. RoleOK(t)'
      BY <2>2, <2>5, <2>8, <2>9, <2>10, <2>13 DEF RoleOK
    <2>18. PlaceOK(t)'
      BY <1>1, <2>3, <2>5, <2>7, <2>8, <2>9, <2>10 DEF PlaceOK
    <2>19. ASSUME NEW u \in Threads, u # t PROVE ThreadOK(u)'
      <3>1. local'[u] = local[u] /\ ThreadOK(u)
        BY <2>1, <2>10, <2>19
      <3>2. LocalOK(u)'
        BY <1>1, <3>1 DEF ThreadOK, LocalOK
      <3>3. RoleOK(u)'
        BY <2>5, <2>14, <2>19, <3>1 DEF ThreadOK, RoleOK, Owner
      <3>4. PlaceOK(u)'
        <4>1. local[u].at \notin {"prepare", "publish", "finish"}
              /\ ~(local[u].at \in {"claim", "copy"} /\ Owner(u))
          BY <2>14, <2>19, <3>1 DEF Holder, Resizing, RoleOK, ThreadOK
        <4> QED
          BY <3>1, <4>1 DEF PlaceOK, Owner
      <3> QED
        BY <2>14, <2>19, <3>2, <3>3, <3>4 DEF ThreadOK, JoinedOK
    <2>20. ResizeOK'
      <3>1. \E o \in Threads : Holder(o)' /\ local'[o].at \in {"claim", "copy", "publish"}
        BY <2>8, <2>9, <2>10, <2>13
      <3>2. nextTable' # Nil => nextTable' = table + 1
        BY <2>3, <2>5, <2>8
      <3> QED
        BY <1>1, <2>1, <2>2, <2>5, <2>7, <2>13, <2>14, <3>1, <3>2 DEF ResizeOK
    <2>21. HelpersOK'
      BY <1>1, <1>2, <2>1, <2>10, <2>13, SameHelpers
    <2>22. \A u \in Threads : local'[u].range = {}
      BY <2>3, <2>9, <2>10, RangesEmpty
    <2>23. RangeOK'
      BY <2>22 DEF RangeOK
    <2>24. LandOK(t)'
      BY <2>8, <2>9, <2>10 DEF LandOK, Writing
    <2>25. ASSUME NEW u \in Threads, u # t PROVE LandOK(u)'
      <3>1. local'[u] = local[u] /\ LandOK(u)
        BY <2>10, <2>25 DEF ControlLand
      <3>2. ASSUME local[u].at \in Writing, local[u].tab = table', nextTable' # Nil,
                   Done(Root(u))'
            PROVE  FALSE
        <4>1. fill /\ resizeIdx' = 0
          BY <2>3, <2>5, <3>2
        <4>2. PICK b : b = Root(u)' /\ b = Root(u)
          <5>1. OnTable(u)
            BY <3>2, HolderIs
          <5>2. tables'[local[u].tab] = tables[local[u].tab]
            BY <2>7, <5>1 DEF OnTable
          <5> QED
            BY <1>1, <3>1, <5>2 DEF Root, Home
        <4>3. b \in Nat
          <5>1. OnTable(u) /\ b \in 0 .. tables[local[u].tab].len - 1
            BY <3>2, <4>2, HolderIs
          <5>2. tables[local[u].tab] \in TableSet
            BY <2>1, <5>1 DEF OnTable, Typed
          <5> QED
            BY <5>1, <5>2, TableIs
        <4>4. PICK m : m = Base(table)'
          OBVIOUS
        <4>5. m \in Nat /\ m > 0
          <5>1. tables'[table] \in TableSet /\ tables'[table + 1] \in TableSet
            BY <2>1, <2>7
          <5>2. tables'[table].len \in Nat /\ tables'[table].len > 0
                /\ tables'[table + 1].len \in Nat /\ tables'[table + 1].len > 0
            BY <5>1, TableIs
          <5> DEFINE S == {tables'[table].len, tables'[table + 1].len}
          <5>3. S \subseteq Nat /\ S # {} /\ \A n \in S : n > 0
            BY <5>2
          <5>4. m = Min(S)
            BY <1>1, <4>4 DEF Base
          <5> HIDE DEF S
          <5> QED
            BY <5>3, <5>4, MinIs, Zenon
        <4>6. b % m < 0
          BY <3>2, <4>1, <4>2, <4>4, <1>1 DEF Done
        <4> QED
          BY <4>3, <4>5, <4>6
      <3>3. local[u].at \in Writing /\ local[u].at # "locked"
               => local[u].tab = table' \/ local[u].tab \in wiped'
        BY <1>1, <3>1 DEF LandOK
      <3> QED
        BY <1>1, <2>7, <3>1, <3>2, <3>3, LandMoved
    <2>26. Control'
      BY <2>12, <2>15, <2>16, <2>17, <2>18, <2>19, <2>20, <2>21, <2>23
      DEF Control, ThreadOK, JoinedOK
    <2> QED
      BY <2>24, <2>25, <2>26 DEF ControlLand
  <1> QED
    BY <1>3, <1>4

(* Who has a range is copying, and so either helps or is the owner. *)
LEMMA AllCopied ==
  ASSUME ControlLand, NEW t \in Threads, local[t].at = "publish", resizeHelpers = 0
  PROVE  \A u \in Threads : ~Helper(u) /\ local[u].range = {}
  <1>1. \A u \in Threads : ~Helper(u)
    BY NoHelpers DEF ControlLand, Control
  <1>2. ASSUME NEW u \in Threads PROVE local[u].range = {}
    <2>1. LocalOK(u) /\ (Holder(u) => u = t)
      BY Now, OwnerIs DEF ThreadOK
    <2>2. local[u].at # "copy"
      BY <1>1, <2>1 DEF Helper, Holder, Resizing
    <2> QED
      BY <2>1, <2>2 DEF LocalOK
  <1> QED
    BY <1>1, <1>2

LEMMA PublishControl ==
  ASSUME ControlLand, NEW t \in Threads, Publish(t)
  PROVE  ControlLand'
  <1> DEFINE l == [local[t] EXCEPT !.at = "finish"]
  <1>1. /\ local[t].at = "publish" /\ resizeHelpers = 0 /\ table' = local[t].new
        /\ nextTable' = Nil /\ local' = [local EXCEPT ![t] = l]
        /\ hash' = hash /\ calls' = calls /\ tables' = tables /\ resizeSeq' = resizeSeq
        /\ resizeHelpers' = resizeHelpers /\ resizeIdx' = resizeIdx
    BY DEF Publish, At
  <1>2. /\ Typed /\ ResizeOK /\ HelpersOK /\ table \in Nat /\ table > 0
        /\ PlaceOK(t) /\ LocalOK(t) /\ RoleOK(t) /\ resizeIdx \in Nat
        /\ \A u \in Threads : ThreadOK(u)
    BY Now DEF Control, ThreadOK, Typed
  <1>3. /\ Holder(t) /\ \A u \in Threads : Holder(u) => u = t
        /\ resizeSeq % 2 = 1 /\ resizeSeq \in Nat /\ local[t] \in Locals /\ Owner(t)
        /\ local[t].seq + 1 = resizeSeq /\ local[t].hint # Nil
    BY <1>1, OwnerIs
  <1>4. /\ Len(tables) = table + 1 /\ local[t].tab = table /\ local[t].new = table + 1
        /\ local[t].hint = "clear" => nextTable = Nil
        /\ local[t].hint # "clear" => nextTable = table + 1 /\ resizeIdx >= Base(table)
    BY <1>1, <1>2 DEF PlaceOK
  <1>5. \A u \in Threads : ~Helper(u) /\ local[u].range = {}
    BY <1>1, AllCopied
  <1>6. "finish" \in Places
    BY DEF Places
  <1>7. l \in Locals /\ l.at = "finish" /\ SameCall(l, local[t]) /\ l.seq = local[t].seq
    BY <1>3, <1>6, GoesIs
  <1> HIDE DEF l
  <1>8. /\ local'[t] = l /\ \A u \in Threads : u # t => local'[u] = local[u]
    BY <1>1, <1>2 DEF Typed
  <1>9. /\ seen' \in [Threads -> SUBSET Values]
        /\ local[t].hint = "clear" => wiped' = wiped \cup {table}
        /\ local[t].hint # "clear" => wiped' = wiped
    <2>1. local[t].hint = "clear" => seen' = [u \in Threads |->
                  IF local[u].key = Nil THEN {} ELSE seen[u] \cup {Nil}]
      BY DEF Publish
    <2>2. local[t].hint # "clear" => seen' = seen
      BY DEF Publish
    <2> QED
      BY <2>1, <2>2, <1>2 DEF Publish, Typed, Values
  <1>10. table' = table + 1 /\ wiped' \subseteq 1 .. table /\ wiped' \subseteq Nat
    <2>1. wiped \subseteq 1 .. table - 1
      BY <1>2 DEF ResizeOK
    <2>2. wiped' \subseteq wiped \cup {table}
      BY <1>9
    <2>3. \A n \in wiped' : n \in 1 .. table /\ n \in Nat
      BY <1>2, <2>1, <2>2
    <2> QED
      BY <1>1, <1>4, <2>3
  <1>11. Typed'
    <2>1. table' \in 1 .. Len(tables)
      BY <1>2, <1>4, <1>10
    <2> QED
      BY <1>1, <1>2, <1>7, <1>9, <1>10, <2>1 DEF Typed
  <1>12. Holder(t)' /\ ~Helper(t)' /\ ~Joined(t)' /\ Owner(t)'
    BY <1>3, <1>7, <1>8 DEF Holder, Helper, Owner, Resizing, Joined
  <1>13. \A u \in Threads : u # t => /\ ~Holder(u)' /\ ~Helper(u)' /\ ~Holder(u)
                                     /\ Joined(u)' <=> Joined(u)
    BY <1>1, <1>3, <1>5, <1>8 DEF Holder, Helper, Owner, Joined
  <1>14. LocalOK(t)'
    BY <1>1, <1>2, <1>4, <1>7, <1>8, <1>10 DEF LocalOK, SameCall, OnKey, Writing
  <1>15. RoleOK(t)'
    BY <1>1, <1>3, <1>7, <1>8, <1>12 DEF RoleOK, SameCall
  <1>16. PlaceOK(t)'
    BY <1>1, <1>4, <1>7, <1>8, <1>10 DEF PlaceOK
  <1>17. ASSUME NEW u \in Threads, u # t PROVE ThreadOK(u)'
    <2>1. local'[u] = local[u] /\ ThreadOK(u)
      BY <1>2, <1>8, <1>17
    <2>2. LocalOK(u)'
      BY <1>2, <1>10, <2>1 DEF ThreadOK, LocalOK
    <2>3. RoleOK(u)'
      BY <1>1, <1>13, <1>17, <2>1 DEF ThreadOK, RoleOK, Owner
    <2>4. PlaceOK(u)'
      <3>1. local[u].at \notin {"prepare", "publish", "finish"}
            /\ ~(local[u].at \in {"claim", "copy"} /\ Owner(u))
        BY <1>13, <1>17, <2>1 DEF Holder, Resizing, RoleOK, ThreadOK
      <3> QED
        BY <2>1, <3>1 DEF PlaceOK, Owner
    <2>5. JoinedOK(u)'
      <3>1. ASSUME Joined(u)
            PROVE  /\ local[u].new = Len(tables) /\ local[u].tab = table
                   /\ local[t].hint # "clear" /\ resizeIdx >= Base(table) /\ local[u].at # "copy"
        <4>1. JoinedOK(u)
          BY <2>1 DEF ThreadOK
        <4>2. local[t].hint # "clear"
          BY <1>3, <3>1, <4>1 DEF JoinedOK
        <4>3. local[u].at # "copy"
          BY <1>5, <3>1 DEF Joined
        <4> QED
          BY <1>2, <1>4, <3>1, <4>1, <4>2, <4>3 DEF JoinedOK
      <3>2. \A o \in Threads : Holder(o)' => o = t
        BY <1>13
      <3>3. ASSUME Joined(u) PROVE Base(local[u].tab)' = Base(table)
        BY <1>1, <2>1, <3>1, <3>3, Zenon DEF Base
      <3>4. ASSUME Joined(u), NEW o \in Threads, Holder(o)'
            PROVE  local'[o].at # "prepare" /\ local'[o].hint # "clear"
        BY <1>7, <1>8, <3>1, <3>2, <3>4 DEF SameCall
      <3> QED
        BY <1>1, <1>2, <1>4, <1>10, <1>13, <1>17, <2>1, <3>1, <3>3, <3>4 DEF JoinedOK
    <2> QED
      BY <2>2, <2>3, <2>4, <2>5 DEF ThreadOK
  <1>18. ResizeOK'
    BY <1>1, <1>2, <1>4, <1>10, <1>12, <1>13 DEF ResizeOK
  <1>19. HelpersOK'
    BY <1>1, <1>2, <1>5, <1>8, <1>12, SameHelpers
  <1>20. RangeOK'
    <2>1. \A u \in Threads : local'[u].range = {}
      BY <1>5, <1>7, <1>8 DEF SameCall
    <2> QED
      BY <2>1 DEF RangeOK
  <1>21. LandOK(t)'
    BY <1>7, <1>8 DEF LandOK, Writing
  <1>22. ASSUME NEW u \in Threads, u # t PROVE LandOK(u)'
    <2>1. local'[u] = local[u] /\ LandOK(u)
      BY <1>8, <1>22 DEF ControlLand
    <2>2. ASSUME local[u].at \in Writing, local[u].at # "locked"
          PROVE  local[u].tab = table' \/ local[u].tab \in wiped'
      <3>1. local[u].tab = table \/ local[u].tab \in wiped
        BY <2>1, <2>2 DEF LandOK
      <3>2. CASE local[u].tab \in wiped
        BY <1>9, <3>2
      <3>3. CASE local[u].tab = table /\ local[t].hint = "clear"
        BY <1>9, <3>3
      <3>4. CASE local[u].tab = table /\ local[t].hint # "clear"
        <4>1. nextTable # Nil
          BY <1>2, <1>4, <3>4, MapSizes
        <4>2. ~Done(Root(u))
          BY <2>1, <2>2, <3>4, <4>1 DEF LandOK
        <4>3. Root(u) \in Nat
          <5>1. OnTable(u) /\ Root(u) \in 0 .. tables[local[u].tab].len - 1
            BY <2>2, HolderIs
          <5>2. tables[local[u].tab] \in TableSet
            BY <1>2, <5>1 DEF OnTable, Typed
          <5> QED
            BY <5>1, <5>2, TableIs
        <4>4. Base(table) \in Nat /\ Base(table) > 0
          BY <1>2, <1>4, BaseIs
        <4>5. Root(u) % Base(table) < resizeIdx
          BY <1>2, <1>4, <3>4, <4>3, <4>4
        <4> QED
          BY <1>5, <4>2, <4>5 DEF Done
      <3> QED
        BY <3>1, <3>2, <3>3, <3>4
    <2> QED
      BY <1>1, <2>1, <2>2, LandMoved
  <1>23. Control'
    BY <1>11, <1>12, <1>14, <1>15, <1>16, <1>17, <1>18, <1>19, <1>20
    DEF Control, ThreadOK, JoinedOK
  <1> QED
    BY <1>21, <1>22, <1>23 DEF ControlLand

LEMMA MapNextControl ==
  ASSUME ControlLand, MapNext
  PROVE  ControlLand'
  <1>1. PICK t \in Threads :
           MapStep(t) \/ Clear(t) \/ \E op \in Ops \ {"clear"}, k \in Keys : Call(t, op, k)
    BY DEF MapNext
  <1>2. CASE \E op \in Ops \ {"clear"}, k \in Keys : Call(t, op, k)
    BY <1>2, CallControl
  <1>3. CASE Clear(t)
    BY <1>3, ClearControl
  <1>4. CASE MapStep(t)
    <2>1. CASE Attempt(t) \/ ReadMeta(t) \/ ReadEntry(t) \/ ReadNext(t)
      BY <2>1, AttemptControl, ReadControl
    <2>2. CASE Lock(t) \/ Check(t) \/ Apply(t) \/ StoreEntry(t) \/ ClearEntry(t) \/ Count(t)
      BY <2>2, LockControl, CheckControl, ApplyControl, StoreEntryControl, ClearEntryControl,
         CountControl
    <2>3. CASE Resize(t) \/ Cas(t) \/ Prepare(t) \/ Claim(t) \/ Copy(t) \/ CountCopied(t)
      BY <2>3, ResizeControl, CasLost, CasWon, PrepareControl, ClaimControl, CopyControl,
         CountCopiedControl
    <2>4. CASE Publish(t) \/ Finish(t) \/ Help(t) \/ Register(t) \/ Leave(t) \/ Wait(t)
      BY <2>4, PublishControl, FinishControl, HelpControl, RegisterControl, LeaveControl,
         WaitControl
    <2> QED
      BY <1>4, <2>1, <2>2, <2>3, <2>4 DEF MapStep
  <1> QED
    BY <1>1, <1>2, <1>3, <1>4

LEMMA MapStutterControl ==
  ASSUME ControlLand, UNCHANGED mapVars
  PROVE  ControlLand'
  <1>1. /\ hash' = hash /\ calls' = calls /\ wiped' = wiped /\ tables' = tables
        /\ table' = table /\ nextTable' = nextTable /\ resizeSeq' = resizeSeq
        /\ resizeHelpers' = resizeHelpers /\ resizeIdx' = resizeIdx /\ local' = local
        /\ seen' = seen
    BY DEF mapVars, fixed, resizing
  <1>2. Typed' /\ ResizeOK' /\ RangeOK' /\ HelpersOK'
    BY <1>1, Zenon DEF ControlLand, Control, Typed, ResizeOK, RangeOK, HelpersOK, Holder, Helper, Owner, Base
  <1>3. ASSUME NEW u \in Threads PROVE ThreadOK(u)' /\ LandOK(u)'
    <2>1. ThreadOK(u) /\ LandOK(u)
      BY DEF ControlLand, Control
    <2>2. LocalOK(u)' /\ RoleOK(u)' /\ PlaceOK(u)'
      BY <1>1, <2>1 DEF ThreadOK, LocalOK, RoleOK, PlaceOK, Holder, Helper, Owner, Base
    <2>3. JoinedOK(u)'
      BY <1>1, <2>1 DEF ThreadOK, JoinedOK, Joined, Holder, Helper, Owner, Base
    <2>4. LandOK(u)'
      BY <1>1, <2>1 DEF LandOK, Root, Home, Done, Base
    <2> QED
      BY <2>2, <2>3, <2>4 DEF ThreadOK
  <1> QED
    BY <1>2, <1>3 DEF ControlLand, Control

-----------------------------------------------------------------------------
(* The first table, and the invariant of the control. *)

LEMMA FilledIs ==
  ASSUME hash \in [Keys -> [h1 : Nat, h2 : Nat \ {0}]], NEW p \in Prefill
  PROVE  /\ Filled(p) \in TableSet /\ Filled(p).size = Len(p.keys)
         /\ \E c \in Seq(SlotSet) :
               /\ Len(c) = Len(p.keys)
               /\ \A i \in 1 .. Len(c) :
                     c[i] = [tag |-> 1, entry |-> [key |-> p.keys[i], value |-> 0]]
               /\ Filled(p) = [Copied(c, NewTable(p.len)) EXCEPT !.size = Len(p.keys)]
  <1>1. p.len \in Nat /\ p.len > 0 /\ p.keys \in Seq(Keys)
    BY MapAssumption
  <1> DEFINE c == [i \in DOMAIN p.keys |->
                      [tag |-> 1, entry |-> [key |-> p.keys[i], value |-> 0]]]
  <1>2. \A i \in DOMAIN p.keys :
           [tag |-> 1, entry |-> [key |-> p.keys[i], value |-> 0]] \in SlotSet
    BY <1>1 DEF SlotSet, Entries
  <1>3. c \in Seq(SlotSet) /\ Len(c) = Len(p.keys)
    BY <1>1, <1>2
  <1>4. \A i \in 1 .. Len(c) : c[i] = [tag |-> 1, entry |-> [key |-> p.keys[i], value |-> 0]]
    BY <1>1, <1>3
  <1>5. Filled(p) = [Copied(c, NewTable(p.len)) EXCEPT !.size = Len(p.keys)]
    BY DEF Filled
  <1> HIDE DEF c
  <1>6. NewTable(p.len) \in TableSet /\ Len(c) \in 0 .. Len(c)
    BY <1>1, <1>3, NewTableIs
  <1>7. Copied(c, NewTable(p.len)) \in TableSet
    BY <1>3, <1>6, CopiesTypes, CopiedIs DEF SameBut
  <1>8. PICK tb \in TableSet : tb = Copied(c, NewTable(p.len))
    BY <1>7
  <1>9. tb \in TablesOf(tb.len) /\ tb.len \in Nat /\ tb.len > 0 /\ Len(p.keys) \in Int
    BY <1>1, TableIs
  <1>10. [tb EXCEPT !.size = Len(p.keys)] \in TablesOf(tb.len)
         /\ [tb EXCEPT !.size = Len(p.keys)].size = Len(p.keys)
    BY <1>9, Zenon DEF TablesOf
  <1>11. [tb EXCEPT !.size = Len(p.keys)] \in TableSet
    BY <1>9, <1>10, IsTable
  <1> QED
    BY <1>3, <1>4, <1>5, <1>8, <1>10, <1>11, Zenon

LEMMA MapInitControl ==
  ASSUME MapInit
  PROVE  ControlLand
  <1>1. /\ hash \in Hashes /\ table = 1 /\ nextTable = Nil /\ resizeSeq = 0
        /\ resizeHelpers = 0 /\ resizeIdx = 0 /\ local = [t \in Threads |-> Idle] /\ calls = 0
        /\ seen = [t \in Threads |-> {}] /\ wiped = {}
    BY DEF MapInit
  <1>2. hash \in [Keys -> [h1 : Nat, h2 : Nat \ {0}]]
    BY <1>1, MapAssumption
  <1>3. PICK p \in Prefill : tables = <<Filled(p)>>
    BY DEF MapInit
  <1>4. tables \in Seq(TableSet) /\ Len(tables) = 1
    <2>1. PICK tb \in TableSet : tb = Filled(p)
      BY <1>2, FilledIs
    <2> QED
      BY <1>3, <2>1
  <1>5. local \in [Threads -> Locals] /\ seen \in [Threads -> SUBSET Values]
    BY <1>1, IdleIs
  <1>6. Typed
    BY <1>1, <1>2, <1>4, <1>5 DEF Typed
  <1>7. Idle.at = "idle" /\ Idle.range = {} /\ Idle.delta = 0 /\ Idle.copied = 0
        /\ Idle.hint = Nil
    BY DEF Idle
  <1>8. \A u \in Threads : local[u] = Idle
    BY <1>1
  <1>9. \A u \in Threads : ~Holder(u) /\ ~Helper(u) /\ ~Joined(u)
    BY <1>7, <1>8 DEF Holder, Helper, Joined, Resizing
  <1>10. ResizeOK
    BY <1>1, <1>4, <1>9 DEF ResizeOK
  <1>11. HelpersOK
    <2>1. {u \in Threads : Helper(u)} = {}
      BY <1>9
    <2> QED
      BY <1>1, <2>1, FS_EmptySet DEF HelpersOK
  <1>12. RangeOK
    BY <1>7, <1>8 DEF RangeOK
  <1>13. \A u \in Threads : ThreadOK(u) /\ LandOK(u)
    BY <1>7, <1>8, <1>9, MapSizes
    DEF ThreadOK, LocalOK, RoleOK, PlaceOK, JoinedOK, LandOK, OnKey, Writing
  <1> QED
    BY <1>6, <1>10, <1>11, <1>12, <1>13 DEF ControlLand, Control

LEMMA ControlGivesWritesLand ==
  ASSUME ControlLand
  PROVE  WritesLand
  BY DEF ControlLand, LandOK, WritesLand, Writing

LEMMA ControlGivesOwner ==
  ASSUME ControlLand
  PROVE  ResizeIsOwned
  <1> DEFINE owners == {t \in Threads : Holder(t)}
             helpers == {t \in Threads : Helper(t)}
  <1>1. ResizeOK /\ HelpersOK /\ resizeSeq \in Nat /\ \A u \in Threads : RoleOK(u)
    BY DEF ControlLand, Control, Typed, ThreadOK
  <1>2. Cardinality(owners) = resizeSeq % 2
    <2>1. CASE resizeSeq % 2 = 1
      <3>1. PICK o \in Threads : Holder(o)
        BY <1>1, <2>1 DEF ResizeOK
      <3>2. owners = {o}
        BY <1>1, <3>1 DEF ResizeOK
      <3> HIDE DEF owners
      <3> QED
        BY <2>1, <3>2, FS_Singleton
    <2>2. CASE resizeSeq % 2 # 1
      <3>1. ASSUME NEW u \in Threads PROVE ~Holder(u)
        <4>1. local[u].seq \in Nat
          BY Now DEF Locals
        <4>2. Holder(u) => local[u].seq + 1 = resizeSeq /\ local[u].seq % 2 = 0
          BY <1>1 DEF RoleOK, Holder, Owner
        <4> QED
          BY <2>2, <4>1, <4>2
      <3>2. owners = {}
        BY <3>1
      <3>3. resizeSeq % 2 = 0
        BY <1>1, <2>2
      <3> HIDE DEF owners
      <3> QED
        BY <3>2, <3>3, FS_EmptySet
    <2> QED
      BY <2>1, <2>2
  <1>3. Cardinality(helpers) = resizeHelpers
    BY <1>1 DEF HelpersOK
  <1> QED
    BY <1>2, <1>3 DEF ResizeIsOwned, Holder, Helper

(* A write lands in the present table, or in one that Clear has replaced,    *)
(* and a resize has one owner who knows its helpers, whatever the number of  *)
(* threads, the hashes and the sizes (doCompute, helpResize, resize).        *)
THEOREM ControlHolds == MapSpec => [](WritesLand /\ ResizeIsOwned)
  <1>1. MapInit => ControlLand
    BY MapInitControl
  <1>2. ControlLand /\ [MapNext]_mapVars => ControlLand'
    BY MapNextControl, MapStutterControl
  <1>3. ControlLand => WritesLand /\ ResizeIsOwned
    BY ControlGivesWritesLand, ControlGivesOwner
  <1> QED
    BY <1>1, <1>2, <1>3, PTL DEF MapSpec
=============================================================================
