---------------------------- MODULE FakeIPProofs ----------------------------
(* FakeIPPool proved for any hosts, any range of addresses, caches of any    *)
(* size and any number of reloads and deaths.                                *)
(*                                                                           *)
(* LeadsBack and CachesAgree speak of a pool at rest.  Between, the two      *)
(* caches of a pool in memory hold the same pairs in the same order (Zipped) *)
(* or will after the change that is left of a Lookup or a flush (WholeOf),   *)
(* which is how an address taken from its host, a full cache and a cache     *)
(* half flushed are told from a pair torn apart.  In the file, which has no  *)
(* order, each address leads back at every moment (FileWhole).               *)
EXTENDS FakeIPPool, SequenceTheorems, TLAPS

-----------------------------------------------------------------------------
(* An order of keys, as an LRU cache keeps it. *)
IsOnce(q) == \A i, j \in 1 .. Len(q) : q[i] = q[j] => i = j

Without(q, n, r) ==
    /\ Len(r) = Len(q) - 1
    /\ \A i \in 1 .. Len(q) - 1 : r[i] = q[IF i < n THEN i ELSE i + 1]

LEMMA RemovedAt ==
  ASSUME NEW S, NEW q \in Seq(S), IsOnce(q), NEW n \in 1 .. Len(q), NEW e, e = q[n]
  PROVE  RemoveFirst(q, e) \in Seq(S) /\ Without(q, n, RemoveFirst(q, e))
  <1>2. {i \in 1 .. Len(q) : q[i] = e} = {n}
    BY DEF IsOnce
  <1>3. Min({n}) = n
    BY DEF Min
  <1>4. SelectInSeq(q, LAMBDA v : v = e) = n
    BY <1>2, <1>3 DEF SelectInSeq
  <1>5. RemoveFirst(q, e) = RemoveAt(q, n)
    BY <1>4 DEF RemoveFirst
  <1> DEFINE r == RemoveAt(q, n)
             a == SubSeq(q, 1, n - 1)
             b == SubSeq(q, n + 1, Len(q))
  <1>6. a \in Seq(S) /\ Len(a) = n - 1 /\ \A i \in 1 .. n - 1 : a[i] = q[i]
    BY SubSeqProperties
  <1>7. b \in Seq(S) /\ Len(b) = Len(q) - n
        /\ \A i \in 1 .. Len(q) - n : b[i] = q[n + i]
    BY SubSeqProperties
  <1>8. r = a \o b
    BY DEF RemoveAt
  <1> HIDE DEF a, b, r
  <1>11. r \in Seq(S) /\ Len(r) = Len(a) + Len(b)
    BY <1>6, <1>7, <1>8, ConcatProperties
  <1>9. r \in Seq(S) /\ Len(r) = Len(q) - 1
    BY <1>6, <1>7, <1>11
  <1>10. \A i \in 1 .. Len(r) : r[i] = IF i < n THEN q[i] ELSE q[i + 1]
    BY <1>6, <1>7, <1>8, <1>9, ConcatProperties
  <1> QED BY <1>5, <1>9, <1>10 DEF r, Without

LEMMA NoneRemoved ==
  ASSUME NEW S, NEW q \in Seq(S), NEW e, \A i \in 1 .. Len(q) : q[i] # e
  PROVE  RemoveFirst(q, e) = q
  BY DEF RemoveFirst

(* What one direction lists is what it has. *)
Lists(q, f) ==
    /\ IsOnce(q)
    /\ \A i \in 1 .. Len(q) : f[q[i]] # Absent
    /\ \A x \in DOMAIN f : f[x] # Absent => \E i \in 1 .. Len(q) : q[i] = x

(* A key leaves one cache, ... *)
LEMMA Dropped ==
  ASSUME NEW S, NEW q \in Seq(S), Len(q) <= Size, NEW f, DOMAIN f = S, Lists(q, f),
         NEW x \in S, NEW r, r = RemoveFirst(q, x)
  PROVE  /\ r \in Seq(S) /\ IsOnce(r) /\ Len(r) <= Size
         /\ \A i \in 1 .. Len(r) : r[i] # x /\ f[r[i]] # Absent
         /\ \A y \in S : f[y] # Absent /\ y # x => \E i \in 1 .. Len(r) : r[i] = y
  <1> USE PoolAssumption
  <1>1. CASE \E n \in 1 .. Len(q) : q[n] = x
    <2>1. PICK n \in 1 .. Len(q) : q[n] = x
      BY <1>1
    <2>2. /\ r \in Seq(S) /\ Len(r) = Len(q) - 1
          /\ \A i \in 1 .. Len(q) - 1 : r[i] = IF i < n THEN q[i] ELSE q[i + 1]
      BY <2>1, RemovedAt DEF Lists, Without
    <2> DEFINE m(i) == IF i < n THEN i ELSE i + 1
    <2>6. \A i \in 1 .. Len(r) : m(i) \in 1 .. Len(q) /\ m(i) # n /\ r[i] = q[m(i)]
      BY <2>2
    <2>7. \A i, j \in 1 .. Len(r) : m(i) = m(j) => i = j
      BY <2>2
    <2> HIDE DEF m
    <2>3. \A i \in 1 .. Len(r) : r[i] # x /\ f[r[i]] # Absent
      BY <2>1, <2>6 DEF Lists, IsOnce
    <2>4. IsOnce(r)
      <3> SUFFICES ASSUME NEW i \in 1 .. Len(r), NEW j \in 1 .. Len(r), r[i] = r[j]
                   PROVE  i = j
        BY DEF IsOnce
      <3>1. m(i) = m(j)
        BY <2>6 DEF Lists, IsOnce
      <3> QED BY <3>1, <2>7
    <2>5. ASSUME NEW y \in S, f[y] # Absent, y # x
          PROVE  \E i \in 1 .. Len(r) : r[i] = y
      <3>1. PICK i \in 1 .. Len(q) : q[i] = y
        BY <2>5 DEF Lists
      <3>2. i < n \/ i > n
        <4>1. i # n
          BY <3>1, <2>1, <2>5
        <4>2. i \in Int /\ n \in Int
          OBVIOUS
        <4> QED BY <4>1, <4>2
      <3>3. CASE i < n
        BY <3>1, <3>3, <2>2
      <3>4. CASE i > n
        <4>1. i - 1 \in 1 .. Len(r) /\ r[i - 1] = q[i]
          BY <3>4, <2>2
        <4> QED BY <4>1, <3>1
      <3> QED BY <3>2, <3>3, <3>4
    <2>8. Len(r) <= Size
      <3>1. Len(q) \in Nat /\ Size \in Nat
        OBVIOUS
      <3> QED BY <2>2, <3>1
    <2>9. \A y \in S : f[y] # Absent /\ y # x => \E i \in 1 .. Len(r) : r[i] = y
      BY <2>5
    <2> QED BY <2>2, <2>3, <2>4, <2>8, <2>9, Zenon
  <1>2. CASE ~\E n \in 1 .. Len(q) : q[n] = x
    <2>1. r = q
      BY <1>2, NoneRemoved
    <2> QED BY <1>2, <2>1 DEF Lists
  <1> QED BY <1>1, <1>2

(* ... and comes to it as the most recent, for which the oldest may leave.  *)
IsSet(S, f, x, v, o) ==
    /\ o \in Seq(S) /\ Len(o) \in 1 .. Size + 1 /\ Lists(o, [f EXCEPT ![x] = v])
    /\ Len(o) > Size =>
          /\ Tail(o) \in Seq(S) /\ Len(Tail(o)) <= Size
          /\ Head(o) # x
          /\ Lists(Tail(o), [f EXCEPT ![x] = v, ![Head(o)] = Absent])

LEMMA Sets ==
  ASSUME NEW S, NEW V, Absent \notin V, NEW q \in Seq(S), Len(q) <= Size,
         NEW f \in [S -> V \cup {Absent}], Lists(q, f), NEW x \in S, NEW v \in V,
         NEW o, o = Append(RemoveFirst(q, x), x)
  PROVE  IsSet(S, f, x, v, o)
  <1> DEFINE r == RemoveFirst(q, x)
  <1> USE PoolAssumption
  <1>1. /\ r \in Seq(S) /\ IsOnce(r) /\ Len(r) <= Size
        /\ \A i \in 1 .. Len(r) : r[i] # x /\ f[r[i]] # Absent
        /\ \A y \in S : f[y] # Absent /\ y # x => \E i \in 1 .. Len(r) : r[i] = y
    BY Dropped
  <1> HIDE DEF r
  <1>2. /\ o \in Seq(S) /\ Len(o) = Len(r) + 1 /\ o[Len(o)] = x
        /\ \A i \in 1 .. Len(r) : o[i] = r[i]
    BY <1>1, AppendProperties DEF r
  <1> DEFINE g == [f EXCEPT ![x] = v]
  <1>3. IsOnce(o) /\ \A i \in 1 .. Len(o) : o[i] = x \/ f[o[i]] # Absent
    BY <1>1, <1>2 DEF IsOnce
  <1>4. \A y \in S : f[y] # Absent \/ y = x => \E i \in 1 .. Len(o) : o[i] = y
    <2> SUFFICES ASSUME NEW y \in S, f[y] # Absent \/ y = x
                 PROVE  \E i \in 1 .. Len(o) : o[i] = y
      OBVIOUS
    <2>1. CASE y = x
      <3>1. Len(o) \in 1 .. Len(o)
        BY <1>1, <1>2
      <3> QED BY <2>1, <3>1, <1>2
    <2>2. CASE y # x
      <3>1. PICK i \in 1 .. Len(r) : r[i] = y
        BY <1>1, <2>2
      <3>2. i \in 1 .. Len(o)
        BY <1>1, <1>2
      <3> QED BY <3>1, <3>2, <1>2
    <2> QED BY <2>1, <2>2
  <1>5. Lists(o, g)
    BY <1>2, <1>3, <1>4 DEF Lists
  <1>6. ASSUME Len(o) > Size
        PROVE  /\ Tail(o) \in Seq(S) /\ Len(Tail(o)) <= Size /\ Head(o) # x
               /\ Lists(Tail(o), [g EXCEPT ![Head(o)] = Absent])
    <2> DEFINE t == Tail(o)
    <2>1. /\ Head(o) = o[1] /\ t \in Seq(S) /\ Len(t) = Len(o) - 1
          /\ \A i \in 1 .. Len(t) : t[i] = o[i + 1]
      BY <1>2, HeadTailProperties, <1>1
    <2>2. Len(r) = Size /\ 1 \in 1 .. Len(r) /\ 1 \in 1 .. Len(o)
      BY <1>1, <1>2, <1>6
    <2>3. Head(o) # x /\ Head(o) \in S
      BY <2>1, <2>2, <1>1, <1>2
    <2> HIDE DEF t
    <2>8. \A i \in 1 .. Len(t) : i + 1 \in 1 .. Len(o) /\ i + 1 # 1 /\ t[i] = o[i + 1]
      BY <2>1, <1>1, <1>2
    <2>9. \A i \in 1 .. Len(o) : o[i] \in S
      BY <1>2, ElementOfSeq
    <2>4. \A i \in 1 .. Len(t) : t[i] # Head(o) /\ t[i] \in S
      BY <2>1, <2>2, <2>8, <2>9, <1>3 DEF IsOnce
    <2>5. IsOnce(t)
      <3> SUFFICES ASSUME NEW i \in 1 .. Len(t), NEW j \in 1 .. Len(t), t[i] = t[j]
                   PROVE  i = j
        BY DEF IsOnce
      <3>1. i + 1 = j + 1
        BY <2>8, <1>3, ZenonT(30) DEF IsOnce
      <3> QED BY <3>1, <2>1, <1>1, <1>2
    <2>6. ASSUME NEW y \in S, y # Head(o), f[y] # Absent \/ y = x
          PROVE  \E i \in 1 .. Len(t) : t[i] = y
      <3>1. PICK i \in 1 .. Len(o) : o[i] = y
        BY <1>4, <2>6
      <3>2. i # 1
        BY <3>1, <2>1, <2>6
      <3>3. i - 1 \in 1 .. Len(t) /\ t[i - 1] = o[i]
        BY <3>1, <3>2, <2>1, <1>2
      <3> QED BY <3>1, <3>3
    <2>7. Lists(t, [g EXCEPT ![Head(o)] = Absent])
      <3> DEFINE c == [g EXCEPT ![Head(o)] = Absent]
      <3>1. \A y \in S : c[y] = IF y = Head(o) THEN Absent ELSE IF y = x THEN v ELSE f[y]
        OBVIOUS
      <3>2. \A i \in 1 .. Len(t) : t[i] = x \/ f[t[i]] # Absent
        BY <2>8, <1>3
      <3>3. \A i \in 1 .. Len(t) : c[t[i]] # Absent
        BY <3>1, <3>2, <2>4
      <3>4. DOMAIN c = S
        OBVIOUS
      <3> HIDE DEF c
      <3>5. \A y \in S : c[y] # Absent => y # Head(o) /\ (f[y] # Absent \/ y = x)
        BY <3>1
      <3> QED BY <2>5, <2>6, <3>3, <3>4, <3>5 DEF Lists, c
    <2>10. Len(t) <= Size
      BY <2>1, <2>2, <1>2
    <2> QED BY <2>1, <2>3, <2>7, <2>10 DEF t
  <1> HIDE DEF g
  <1>7. Len(o) \in 1 .. Size + 1
    BY <1>1, <1>2
  <1> QED BY <1>2, <1>5, <1>6, <1>7 DEF g, IsSet

(* A hit makes a key the most recent. *)
IsMoved(S, f, o) == o \in Seq(S) /\ Len(o) <= Size /\ Lists(o, f)

LEMMA Moved ==
  ASSUME NEW S, NEW V, Absent \notin V, NEW q \in Seq(S), Len(q) <= Size,
         NEW f \in [S -> V \cup {Absent}], Lists(q, f), NEW x \in S, f[x] # Absent,
         NEW o, o = Append(RemoveFirst(q, x), x)
  PROVE  IsMoved(S, f, o)
  <1>1. f[x] \in V /\ f = [f EXCEPT ![x] = f[x]]
    OBVIOUS
  <1>6. IsSet(S, f, x, f[x], o)
    BY <1>1, Sets
  <1>2. o \in Seq(S) /\ Lists(o, [f EXCEPT ![x] = f[x]])
    BY <1>6 DEF IsSet
  <1>3. PICK n \in 1 .. Len(q) : q[n] = x
    BY DEF Lists
  <1>4. RemoveFirst(q, x) \in Seq(S) /\ Len(RemoveFirst(q, x)) = Len(q) - 1
    BY <1>3, RemovedAt DEF Lists, Without
  <1>5. Len(o) = Len(q)
    BY <1>4, AppendProperties
  <1> QED BY <1>1, <1>2, <1>5 DEF IsMoved

-----------------------------------------------------------------------------
(* The maps of a pool. *)
Stores == [ip : [Hosts -> Places \cup {Absent}], host : [Places -> Hosts \cup {Absent}],
           names : Seq(Hosts), addrs : Seq(Places)]

(* A pair of caches keeps to its size and lists what it has; a file lists    *)
(* nothing.                                                                  *)
Kept(s) ==
    /\ s \in Stores
    /\ IF persistent THEN s.names = <<>> /\ s.addrs = <<>>
       ELSE /\ Len(s.names) <= Size /\ Lists(s.names, s.ip)
            /\ Len(s.addrs) <= Size /\ Lists(s.addrs, s.host)

LEMMA AddrsAreNot == Absent \notin Hosts /\ Absent \notin Places
    /\ Size \in Nat \ {0}
  BY PoolAssumption DEF Places

LEMMA NothingLeaves == \A x : RemoveFirst(<<>>, x) = <<>>
  BY DEF RemoveFirst

LEMMA SetNameKeeps ==
  ASSUME NEW s, Kept(s), NEW h \in Hosts, NEW a \in Places
  PROVE  Kept(SetName(s, h, a))
  <1> DEFINE o == Touch(s.names, h)
  <1>1. CASE persistent
    <2>1. o = <<>> /\ Len(o) <= Size
      BY <1>1, AddrsAreNot DEF Kept, Touch
    <2> QED BY <1>1, <2>1 DEF Kept, SetName, Stores
  <1>2. CASE ~persistent
    <2>1. o = Append(RemoveFirst(s.names, h), h)
      BY <1>2 DEF Touch
    <2>2. s.names \in Seq(Hosts) /\ s.ip \in [Hosts -> Places \cup {Absent}]
          /\ Lists(s.names, s.ip) /\ Len(s.names) <= Size
      BY <1>2 DEF Kept, Stores
    <2> HIDE DEF o
    <2>3. /\ o \in Seq(Hosts) /\ Len(o) \in 1 .. Size + 1
          /\ Lists(o, [s.ip EXCEPT ![h] = a])
          /\ Len(o) > Size =>
                /\ Tail(o) \in Seq(Hosts) /\ Len(Tail(o)) <= Size /\ Head(o) # h
                /\ Lists(Tail(o), [s.ip EXCEPT ![h] = a, ![Head(o)] = Absent])
      <3> DEFINE q == s.names
                 f == s.ip
      <3>1. q \in Seq(Hosts) /\ Len(q) <= Size
            /\ f \in [Hosts -> Places \cup {Absent}]
            /\ Lists(q, f) /\ Absent \notin Places
            /\ o = Append(RemoveFirst(q, h), h)
        BY <2>1, <2>2, AddrsAreNot
      <3> HIDE DEF q, f
      <3>2. IsSet(Hosts, f, h, a, o)
        BY <3>1, Sets
      <3> QED BY <3>2 DEF q, f, IsSet
    <2>6. s \in Stores
      BY DEF Kept
    <2>4. CASE Len(o) <= Size
      <3>1. SetName(s, h, a) = [s EXCEPT !.ip = [s.ip EXCEPT ![h] = a], !.names = o]
        BY <2>4, <2>6 DEF SetName, o, Stores
      <3>2. [s.ip EXCEPT ![h] = a] \in [Hosts -> Places \cup {Absent}]
        BY <2>2
      <3>3. /\ SetName(s, h, a) \in Stores /\ SetName(s, h, a).names = o
            /\ SetName(s, h, a).ip = [s.ip EXCEPT ![h] = a]
            /\ SetName(s, h, a).addrs = s.addrs /\ SetName(s, h, a).host = s.host
        BY <3>1, <3>2, <2>3, <2>6 DEF Stores
      <3> QED BY <1>2, <2>3, <2>4, <3>3 DEF Kept
    <2>5. CASE ~(Len(o) <= Size)
      <3> DEFINE g == [s.ip EXCEPT ![h] = a, ![Head(o)] = Absent]
      <3>1. SetName(s, h, a) = [s EXCEPT !.ip = g, !.names = Tail(o)]
        BY <2>5, <2>6 DEF SetName, o, Stores
      <3>2. Len(o) > Size
        BY <2>3, <2>5, AddrsAreNot
      <3>4. g \in [Hosts -> Places \cup {Absent}]
        BY <2>2
      <3> HIDE DEF g
      <3>3. /\ SetName(s, h, a) \in Stores /\ SetName(s, h, a).names = Tail(o)
            /\ SetName(s, h, a).ip = g
            /\ SetName(s, h, a).addrs = s.addrs /\ SetName(s, h, a).host = s.host
        BY <3>1, <3>2, <3>4, <2>3, <2>6 DEF Stores
      <3> QED BY <1>2, <2>3, <3>2, <3>3 DEF Kept, g
    <2> QED BY <2>4, <2>5
  <1> QED BY <1>1, <1>2

LEMMA SetAddrKeeps ==
  ASSUME NEW s, Kept(s), NEW h \in Hosts, NEW a \in Places
  PROVE  Kept(SetAddr(s, a, h))
  <1> DEFINE o == Touch(s.addrs, a)
  <1>1. CASE persistent
    <2>1. o = <<>> /\ Len(o) <= Size
      BY <1>1, AddrsAreNot DEF Kept, Touch
    <2> QED BY <1>1, <2>1 DEF Kept, SetAddr, Stores
  <1>2. CASE ~persistent
    <2>1. o = Append(RemoveFirst(s.addrs, a), a)
      BY <1>2 DEF Touch
    <2>2. s.addrs \in Seq(Places) /\ s.host \in [Places -> Hosts \cup {Absent}]
          /\ Lists(s.addrs, s.host) /\ Len(s.addrs) <= Size
      BY <1>2 DEF Kept, Stores
    <2> HIDE DEF o
    <2>3. /\ o \in Seq(Places) /\ Len(o) \in 1 .. Size + 1
          /\ Lists(o, [s.host EXCEPT ![a] = h])
          /\ Len(o) > Size =>
                /\ Tail(o) \in Seq(Places) /\ Len(Tail(o)) <= Size /\ Head(o) # a
                /\ Lists(Tail(o), [s.host EXCEPT ![a] = h, ![Head(o)] = Absent])
      <3> DEFINE q == s.addrs
                 f == s.host
      <3>1. q \in Seq(Places) /\ Len(q) <= Size
            /\ f \in [Places -> Hosts \cup {Absent}]
            /\ Lists(q, f) /\ Absent \notin Hosts
            /\ o = Append(RemoveFirst(q, a), a)
        BY <2>1, <2>2, AddrsAreNot
      <3> HIDE DEF q, f
      <3>2. IsSet(Places, f, a, h, o)
        BY <3>1, Sets
      <3> QED BY <3>2 DEF q, f, IsSet
    <2>6. s \in Stores
      BY DEF Kept
    <2>4. CASE Len(o) <= Size
      <3>1. SetAddr(s, a, h) = [s EXCEPT !.host = [s.host EXCEPT ![a] = h], !.addrs = o]
        BY <2>4, <2>6 DEF SetAddr, o, Stores
      <3>2. [s.host EXCEPT ![a] = h] \in [Places -> Hosts \cup {Absent}]
        BY <2>2
      <3>3. /\ SetAddr(s, a, h) \in Stores /\ SetAddr(s, a, h).addrs = o
            /\ SetAddr(s, a, h).host = [s.host EXCEPT ![a] = h]
            /\ SetAddr(s, a, h).names = s.names /\ SetAddr(s, a, h).ip = s.ip
        BY <3>1, <3>2, <2>3, <2>6 DEF Stores
      <3> QED BY <1>2, <2>3, <2>4, <3>3 DEF Kept
    <2>5. CASE ~(Len(o) <= Size)
      <3> DEFINE g == [s.host EXCEPT ![a] = h, ![Head(o)] = Absent]
      <3>1. SetAddr(s, a, h) = [s EXCEPT !.host = g, !.addrs = Tail(o)]
        BY <2>5, <2>6 DEF SetAddr, o, Stores
      <3>2. Len(o) > Size
        BY <2>3, <2>5, AddrsAreNot
      <3>4. g \in [Places -> Hosts \cup {Absent}]
        BY <2>2
      <3> HIDE DEF g
      <3>3. /\ SetAddr(s, a, h) \in Stores /\ SetAddr(s, a, h).addrs = Tail(o)
            /\ SetAddr(s, a, h).host = g
            /\ SetAddr(s, a, h).names = s.names /\ SetAddr(s, a, h).ip = s.ip
        BY <3>1, <3>2, <3>4, <2>3, <2>6 DEF Stores
      <3> QED BY <1>2, <2>3, <3>2, <3>3 DEF Kept, g
    <2> QED BY <2>4, <2>5
  <1> QED BY <1>1, <1>2

LEMMA DelKeeps ==
  ASSUME NEW s, Kept(s), NEW h \in Hosts, NEW a \in Places
  PROVE  Kept(DelName(s, h)) /\ Kept(DelAddr(s, a))
  <1>1. CASE persistent
    BY <1>1, NothingLeaves DEF Kept, DelName, DelAddr, Drop, Stores
  <1>2. CASE ~persistent
    <2> DEFINE n == RemoveFirst(s.names, h)
               d == RemoveFirst(s.addrs, a)
    <2>1. /\ s.names \in Seq(Hosts) /\ s.ip \in [Hosts -> Places \cup {Absent}]
          /\ Lists(s.names, s.ip) /\ Len(s.names) <= Size
          /\ s.addrs \in Seq(Places) /\ s.host \in [Places -> Hosts \cup {Absent}]
          /\ Lists(s.addrs, s.host) /\ Len(s.addrs) <= Size
      BY <1>2 DEF Kept, Stores
    <2>2. n \in Seq(Hosts) /\ Len(n) <= Size
          /\ Lists(n, [s.ip EXCEPT ![h] = Absent])
      <3>1. /\ n \in Seq(Hosts) /\ IsOnce(n) /\ Len(n) <= Size
            /\ \A i \in 1 .. Len(n) : n[i] # h /\ s.ip[n[i]] # Absent
            /\ \A y \in Hosts : s.ip[y] # Absent /\ y # h => \E i \in 1 .. Len(n) : n[i] = y
        BY <2>1, Dropped
      <3> HIDE DEF n
      <3>2. \A i \in 1 .. Len(n) : n[i] \in Hosts
        BY <3>1, ElementOfSeq
      <3> QED BY <2>1, <3>1, <3>2 DEF Lists
    <2>3. d \in Seq(Places) /\ Len(d) <= Size
          /\ Lists(d, [s.host EXCEPT ![a] = Absent])
      <3>1. /\ d \in Seq(Places) /\ IsOnce(d) /\ Len(d) <= Size
            /\ \A i \in 1 .. Len(d) : d[i] # a /\ s.host[d[i]] # Absent
            /\ \A y \in Places : s.host[y] # Absent /\ y # a => \E i \in 1 .. Len(d) : d[i] = y
        BY <2>1, Dropped
      <3> HIDE DEF d
      <3>2. \A i \in 1 .. Len(d) : d[i] \in Places
        BY <3>1, ElementOfSeq
      <3> QED BY <2>1, <3>1, <3>2 DEF Lists
    <2> HIDE DEF n, d
    <2>4. DelName(s, h) = [s EXCEPT !.ip = [s.ip EXCEPT ![h] = Absent], !.names = n]
          /\ DelAddr(s, a) = [s EXCEPT !.host = [s.host EXCEPT ![a] = Absent], !.addrs = d]
      BY DEF DelName, DelAddr, Drop, Kept, Stores, n, d
    <2>5. s \in Stores
          /\ [s.ip EXCEPT ![h] = Absent] \in [Hosts -> Places \cup {Absent}]
          /\ [s.host EXCEPT ![a] = Absent] \in [Places -> Hosts \cup {Absent}]
      BY <2>1 DEF Kept
    <2>6. /\ DelName(s, h) \in Stores /\ DelName(s, h).names = n
          /\ DelName(s, h).ip = [s.ip EXCEPT ![h] = Absent]
          /\ DelName(s, h).addrs = s.addrs /\ DelName(s, h).host = s.host
      BY <2>2, <2>4, <2>5 DEF Stores
    <2>7. /\ DelAddr(s, a) \in Stores /\ DelAddr(s, a).addrs = d
          /\ DelAddr(s, a).host = [s.host EXCEPT ![a] = Absent]
          /\ DelAddr(s, a).names = s.names /\ DelAddr(s, a).ip = s.ip
      BY <2>3, <2>4, <2>5 DEF Stores
    <2> QED BY <1>2, <2>1, <2>2, <2>3, <2>6, <2>7 DEF Kept
  <1> QED BY <1>1, <1>2

LEMMA GetKeeps ==
  ASSUME NEW s, Kept(s), NEW h \in Hosts, NEW a \in Places
  PROVE  /\ s.ip[h] # Absent => Kept(GetByHost(s, h))
         /\ s.host[a] # Absent => Kept(GetByIP(s, a))
  <1>0. s \in Stores
    BY DEF Kept
  <1>1. CASE persistent
    BY <1>1 DEF Kept, GetByHost, GetByIP, Touch, Stores
  <1>2. CASE ~persistent
    <2>1. /\ s.names \in Seq(Hosts) /\ s.ip \in [Hosts -> Places \cup {Absent}]
          /\ Lists(s.names, s.ip) /\ Len(s.names) <= Size
          /\ s.addrs \in Seq(Places) /\ s.host \in [Places -> Hosts \cup {Absent}]
          /\ Lists(s.addrs, s.host) /\ Len(s.addrs) <= Size
      BY <1>2 DEF Kept, Stores
    <2>2. ASSUME NEW g \in Hosts, s.ip[g] # Absent
          PROVE  /\ Touch(s.names, g) \in Seq(Hosts)
                 /\ Len(Touch(s.names, g)) <= Size
                 /\ Lists(Touch(s.names, g), s.ip)
      <3> DEFINE q == s.names
                 f == s.ip
                 o == Touch(q, g)
      <3>1. /\ o = Append(RemoveFirst(q, g), g) /\ q \in Seq(Hosts) /\ Len(q) <= Size
            /\ f \in [Hosts -> Places \cup {Absent}] /\ Lists(q, f) /\ f[g] # Absent
        BY <1>2, <2>1, <2>2 DEF Touch
      <3> HIDE DEF q, f, o
      <3>2. IsMoved(Hosts, f, o)
        BY <3>1, Moved, AddrsAreNot
      <3> QED BY <3>2 DEF IsMoved, q, f, o
    <2>3. ASSUME NEW b \in Places, s.host[b] # Absent
          PROVE  /\ Touch(s.addrs, b) \in Seq(Places)
                 /\ Len(Touch(s.addrs, b)) <= Size
                 /\ Lists(Touch(s.addrs, b), s.host)
      <3> DEFINE q == s.addrs
                 f == s.host
                 o == Touch(q, b)
      <3>1. /\ o = Append(RemoveFirst(q, b), b) /\ q \in Seq(Places) /\ Len(q) <= Size
            /\ f \in [Places -> Hosts \cup {Absent}] /\ Lists(q, f) /\ f[b] # Absent
        BY <1>2, <2>1, <2>3 DEF Touch
      <3> HIDE DEF q, f, o
      <3>2. IsMoved(Places, f, o)
        BY <3>1, Moved, AddrsAreNot
      <3> QED BY <3>2 DEF IsMoved, q, f, o
    <2>4. \A p \in {s.names} \cup {Touch(s.names, g) : g \in {g \in Hosts : s.ip[g] # Absent}},
             d \in {s.addrs} \cup {Touch(s.addrs, b) : b \in {b \in Places : s.host[b] # Absent}} :
                Kept([s EXCEPT !.names = p, !.addrs = d])
      BY <1>2, <2>1, <2>2, <2>3 DEF Kept, Stores
    <2>5. ASSUME s.ip[h] # Absent PROVE Kept(GetByHost(s, h))
      BY <2>1, <2>4, <2>5 DEF GetByHost
    <2>6. ASSUME s.host[a] # Absent PROVE Kept(GetByIP(s, a))
      <3>1. GetByIP(s, a) = [s EXCEPT !.names = IF s.ip[s.host[a]] = Absent THEN s.names
                                                ELSE Touch(s.names, s.host[a]),
                                      !.addrs = Touch(s.addrs, a)]
        BY <1>0 DEF GetByIP, Stores
      <3>2. s.host[a] \in Hosts
        BY <2>1, <2>6
      <3> DEFINE p == IF s.ip[s.host[a]] = Absent THEN s.names ELSE Touch(s.names, s.host[a])
                 d == Touch(s.addrs, a)
      <3>3. p \in {s.names} \cup {Touch(s.names, g) : g \in {g \in Hosts : s.ip[g] # Absent}}
        BY <3>2
      <3>4. d \in {s.addrs} \cup {Touch(s.addrs, b) : b \in {b \in Places : s.host[b] # Absent}}
        BY <2>6
      <3>5. GetByIP(s, a) = [s EXCEPT !.names = p, !.addrs = d]
        BY <3>1
      <3> HIDE DEF p, d
      <3> QED BY <2>4, <3>3, <3>4, <3>5
    <2> QED BY <2>5, <2>6
  <1> QED BY <1>1, <1>2

(* The two caches list the same pairs in the same order. *)
Zipped(s) ==
    /\ Len(s.names) = Len(s.addrs)
    /\ \A i \in 1 .. Len(s.names) :
          /\ s.addrs[i] # 0
          /\ s.ip[s.names[i]] = s.addrs[i] /\ s.host[s.addrs[i]] = s.names[i]

Caches(s) == ~persistent /\ Kept(s) /\ Zipped(s)

LEMMA CacheParts ==
  ASSUME NEW s, Caches(s)
  PROVE  /\ s \in Stores /\ Zipped(s)
         /\ s.names \in Seq(Hosts) /\ IsOnce(s.names) /\ Len(s.names) \in 0 .. Size
         /\ s.addrs \in Seq(Places) /\ IsOnce(s.addrs)
         /\ Len(s.addrs) = Len(s.names)
         /\ s.ip \in [Hosts -> Places \cup {Absent}]
         /\ s.host \in [Places -> Hosts \cup {Absent}]
         /\ \A i \in 1 .. Len(s.names) : /\ s.names[i] \in Hosts /\ s.addrs[i] \in Places
                                         /\ s.addrs[i] # 0
                                         /\ s.ip[s.names[i]] = s.addrs[i]
                                         /\ s.host[s.addrs[i]] = s.names[i]
         /\ \A h \in Hosts : s.ip[h] # Absent => \E i \in 1 .. Len(s.names) : s.names[i] = h
         /\ \A a \in Places : s.host[a] # Absent => \E i \in 1 .. Len(s.names) : s.addrs[i] = a
  <1>1. /\ s \in Stores /\ Zipped(s) /\ Len(s.names) <= Size
        /\ Lists(s.names, s.ip) /\ Lists(s.addrs, s.host)
    BY DEF Caches, Kept
  <1>2. /\ s.names \in Seq(Hosts) /\ s.addrs \in Seq(Places)
        /\ s.ip \in [Hosts -> Places \cup {Absent}]
        /\ s.host \in [Places -> Hosts \cup {Absent}]
    BY <1>1 DEF Stores
  <1>3. Len(s.names) \in 0 .. Size
    BY <1>1, <1>2, AddrsAreNot
  <1>4. Len(s.addrs) = Len(s.names)
    BY <1>1 DEF Zipped
  <1>5. \A i \in 1 .. Len(s.names) : s.names[i] \in Hosts /\ s.addrs[i] \in Places
    BY <1>2, <1>4, ElementOfSeq
  <1> QED BY <1>1, <1>2, <1>3, <1>4, <1>5 DEF Zipped, Lists

AtEnd(q, n, o) ==
    /\ Len(o) = Len(q)
    /\ \A i \in 1 .. Len(q) : o[i] = q[IF i < n THEN i ELSE IF i < Len(q) THEN i + 1 ELSE n]

LEMMA MovedAt ==
  ASSUME NEW S, NEW q \in Seq(S), IsOnce(q), NEW n \in 1 .. Len(q), NEW e, e = q[n]
  PROVE  AtEnd(q, n, Append(RemoveFirst(q, e), e))
  <1> DEFINE r == RemoveFirst(q, e)
  <1>1. /\ r \in Seq(S) /\ Len(r) = Len(q) - 1
        /\ \A i \in 1 .. Len(q) - 1 : r[i] = q[IF i < n THEN i ELSE i + 1]
    BY RemovedAt DEF Without
  <1>3. e \in S
    BY ElementOfSeq
  <1> HIDE DEF r
  <1>2. /\ Append(r, e) \in Seq(S) /\ Len(Append(r, e)) = Len(q)
        /\ Append(r, e)[Len(q)] = e
        /\ \A i \in 1 .. Len(q) - 1 : Append(r, e)[i] = r[i]
    BY <1>1, <1>3, AppendProperties
  <1> QED BY <1>1, <1>2 DEF r, AtEnd

LEMMA GetZips ==
  ASSUME NEW s, Caches(s), NEW h \in Hosts, NEW a \in Places
  PROVE  /\ s.ip[h] # Absent => Caches(GetByHost(s, h))
         /\ s.host[a] # Absent => Caches(GetByIP(s, a))
  <1> DEFINE L == Len(s.names)
             Both(n) == [s EXCEPT !.names = Touch(s.names, s.names[n]),
                                  !.addrs = Touch(s.addrs, s.addrs[n])]
  <1>1. ASSUME NEW n \in 1 .. L PROVE Zipped(Both(n))
    <2> DEFINE m(i) == IF i < n THEN i ELSE IF i < L THEN i + 1 ELSE n
               p == Touch(s.names, s.names[n])
               d == Touch(s.addrs, s.addrs[n])
    <2>1. /\ p = Append(RemoveFirst(s.names, s.names[n]), s.names[n])
          /\ d = Append(RemoveFirst(s.addrs, s.addrs[n]), s.addrs[n])
      BY DEF Touch, Caches
    <2>8. /\ s.names \in Seq(Hosts) /\ IsOnce(s.names) /\ s.addrs \in Seq(Places)
          /\ IsOnce(s.addrs) /\ n \in 1 .. Len(s.addrs) /\ Len(s.addrs) = L
      BY CacheParts
    <2>9. AtEnd(s.names, n, p)
      BY <2>1, <2>8, MovedAt
    <2>10. AtEnd(s.addrs, n, d)
      BY <2>1, <2>8, MovedAt
    <2>2. Len(p) = L /\ \A i \in 1 .. L : p[i] = s.names[m(i)]
      BY <2>9 DEF AtEnd
    <2>3. Len(d) = L /\ \A i \in 1 .. L : d[i] = s.addrs[m(i)]
      BY <2>8, <2>10 DEF AtEnd
    <2>4. \A i \in 1 .. L : m(i) \in 1 .. L
      BY CacheParts
    <2>5. s \in Stores
      BY CacheParts
    <2> HIDE DEF m, p, d
    <2> DEFINE b == [s EXCEPT !.names = p, !.addrs = d]
    <2>6. b.names = p /\ b.addrs = d /\ b.ip = s.ip /\ b.host = s.host
      BY <2>5 DEF Stores
    <2> HIDE DEF b
    <2>7. Zipped(b)
      <3>1. \A i \in 1 .. L : /\ s.addrs[i] # 0 /\ s.ip[s.names[i]] = s.addrs[i]
                             /\ s.host[s.addrs[i]] = s.names[i]
        BY CacheParts
      <3>2. \A i \in 1 .. L : /\ d[i] # 0 /\ s.ip[p[i]] = d[i] /\ s.host[d[i]] = p[i]
        BY <3>1, <2>2, <2>3, <2>4
      <3> QED BY <3>2, <2>2, <2>3, <2>6 DEF Zipped
    <2> QED BY <2>7 DEF b, p, d
  <1>2. ASSUME s.ip[h] # Absent PROVE Caches(GetByHost(s, h))
    <2>1. PICK n \in 1 .. L : s.names[n] = h
      BY <1>2, CacheParts
    <2>2. s.ip[h] = s.addrs[n] /\ s.host[s.addrs[n]] # Absent
      BY <2>1, CacheParts, AddrsAreNot
    <2>3. GetByHost(s, h) = Both(n)
      BY <2>1, <2>2, CacheParts DEF GetByHost, Stores
    <2> QED BY <1>1, <1>2, <2>3, GetKeeps DEF Caches
  <1>3. ASSUME s.host[a] # Absent PROVE Caches(GetByIP(s, a))
    <2>1. PICK n \in 1 .. L : s.addrs[n] = a
      BY <1>3, CacheParts
    <2>2. s.host[a] = s.names[n] /\ s.ip[s.names[n]] # Absent
      BY <2>1, CacheParts, AddrsAreNot
    <2>3. GetByIP(s, a) = Both(n)
      BY <2>1, <2>2, CacheParts DEF GetByIP, Stores
    <2> QED BY <1>1, <1>3, <2>3, GetKeeps DEF Caches
  <1> QED BY <1>2, <1>3

LEMMA DelZips ==
  ASSUME NEW s, Caches(s), NEW a \in Places
  PROVE  /\ Caches(DelAddr(DelNameOf(s, a), a))
         /\ DelAddr(DelNameOf(s, a), a).host[a] = Absent
         /\ \A h \in Hosts : s.ip[h] = Absent => DelNameOf(s, a).ip[h] = Absent
  <1> DEFINE t == DelAddr(DelNameOf(s, a), a)
             L == Len(s.names)
  <1>0. s \in Stores
    BY CacheParts
  <1>1. CASE s.host[a] = Absent
    <2>1. RemoveFirst(s.addrs, a) = s.addrs
      BY <1>1, CacheParts, NoneRemoved, AddrsAreNot
    <2>2. t = s
      BY <1>0, <1>1, <2>1 DEF DelNameOf, DelAddr, Drop, Stores
    <2> QED BY <1>1, <2>2 DEF DelNameOf
  <1>2. CASE s.host[a] # Absent
    <2>1. PICK n \in 1 .. L : s.addrs[n] = a
      BY <1>2, CacheParts
    <2> DEFINE h == s.names[n]
               p == RemoveFirst(s.names, h)
               d == RemoveFirst(s.addrs, a)
               m(i) == IF i < n THEN i ELSE i + 1
    <2>2. h \in Hosts /\ s.host[a] = h
      BY <2>1, CacheParts
    <2>12. /\ s.names \in Seq(Hosts) /\ IsOnce(s.names) /\ s.addrs \in Seq(Places)
           /\ IsOnce(s.addrs) /\ n \in 1 .. Len(s.addrs) /\ Len(s.addrs) = L
      BY CacheParts
    <2>13. Without(s.names, n, p)
      BY <2>12, RemovedAt
    <2>14. Without(s.addrs, n, d)
      BY <2>1, <2>12, RemovedAt
    <2>3. Len(p) = L - 1 /\ \A i \in 1 .. L - 1 : p[i] = s.names[m(i)]
      BY <2>13 DEF Without
    <2>4. Len(d) = L - 1 /\ \A i \in 1 .. L - 1 : d[i] = s.addrs[m(i)]
      BY <2>12, <2>14 DEF Without
    <2>5. \A i \in 1 .. L - 1 : m(i) \in 1 .. L /\ m(i) # n
      BY CacheParts
    <2>6. DelNameOf(s, a) = DelName(s, h)
      BY <1>2, <2>2 DEF DelNameOf
    <2>7. Kept(DelName(s, h))
      BY <2>2, DelKeeps DEF Caches
    <2>8. Kept(t)
      BY <2>2, <2>6, <2>7, DelKeeps
    <2> HIDE DEF h, p, d, m
    <2>9. /\ t.names = p /\ t.ip = [s.ip EXCEPT ![h] = Absent]
          /\ t.addrs = d /\ t.host = [s.host EXCEPT ![a] = Absent]
      BY <2>6, <1>0 DEF DelName, DelAddr, Drop, Stores, p, d
    <2>10. Zipped(t)
      <3>1. \A i \in 1 .. L - 1 : p[i] # h /\ d[i] # a
        BY <2>1, <2>3, <2>4, <2>5, <2>12 DEF h, IsOnce
      <3> HIDE DEF t
      <3> QED BY <2>3, <2>4, <2>5, <2>9, <3>1, CacheParts DEF Zipped
    <2>11. \A g \in Hosts : s.ip[g] = Absent => DelName(s, h).ip[g] = Absent
      BY <1>0 DEF DelName, Stores
    <2> QED BY <2>6, <2>8, <2>9, <2>10, <2>11, CacheParts DEF Caches
  <1> QED BY <1>1, <1>2

LEMMA AddZips ==
  ASSUME NEW s, Caches(s), NEW a \in Places, NEW h \in Hosts,
         a # 0, s.host[a] = Absent, s.ip[h] = Absent
  PROVE  Caches(SetName(SetAddr(s, a, h), h, a))
  <1> DEFINE L == Len(s.names)
             t == SetAddr(s, a, h)
             u == SetName(t, h, a)
             p == Append(s.names, h)
             d == Append(s.addrs, a)
  <1>1. /\ s \in Stores /\ s.names \in Seq(Hosts) /\ s.addrs \in Seq(Places)
        /\ Size \in Nat \ {0}
        /\ Len(s.addrs) = L /\ L \in 0 .. Size /\ IsOnce(s.names) /\ IsOnce(s.addrs)
        /\ s.ip \in [Hosts -> Places \cup {Absent}]
        /\ s.host \in [Places -> Hosts \cup {Absent}]
        /\ \A i \in 1 .. L : /\ s.names[i] \in Hosts /\ s.addrs[i] \in Places /\ s.addrs[i] # 0
                            /\ s.ip[s.names[i]] = s.addrs[i]
                            /\ s.host[s.addrs[i]] = s.names[i]
    BY CacheParts, AddrsAreNot
  <1>2. \A i \in 1 .. L : s.names[i] # h /\ s.addrs[i] # a
    BY <1>1, AddrsAreNot
  <1>3. Touch(s.addrs, a) = d /\ Touch(s.names, h) = p
    <2>1. RemoveFirst(s.addrs, a) = s.addrs /\ RemoveFirst(s.names, h) = s.names
      BY <1>1, <1>2, NoneRemoved
    <2> QED BY <2>1 DEF Touch, Caches
  <1>4. /\ p \in Seq(Hosts) /\ Len(p) = L + 1 /\ p[L + 1] = h
        /\ \A i \in 1 .. L : p[i] = s.names[i]
    BY <1>1, AppendProperties
  <1>5. /\ d \in Seq(Places) /\ Len(d) = L + 1 /\ d[L + 1] = a
        /\ \A i \in 1 .. L : d[i] = s.addrs[i]
    BY <1>1, AppendProperties
  <1>6. Kept(t) /\ Kept(u)
    BY SetAddrKeeps, SetNameKeeps DEF Caches
  <1> HIDE DEF p, d
  <1>7. Len(p) \in 1 .. L + 1 /\ Len(d) \in 1 .. L + 1
    BY <1>1, <1>4, <1>5
  <1>8. CASE L < Size
    <2>1. Len(d) <= Size /\ Len(p) <= Size
      BY <1>1, <1>4, <1>5, <1>8
    <2>2. t = [s EXCEPT !.host[a] = h, !.addrs = d]
      BY <2>1, <1>1, <1>3 DEF SetAddr, Stores
    <2>3. t.names = s.names
      BY <2>2, <1>1 DEF Stores
    <2>4. u = [t EXCEPT !.ip[h] = a, !.names = p]
      BY <2>1, <2>3, <1>1, <1>3, <1>6 DEF SetName, Kept, Stores
    <2>5. /\ u.names = p /\ u.ip = [s.ip EXCEPT ![h] = a]
          /\ u.addrs = d /\ u.host = [s.host EXCEPT ![a] = h]
      BY <2>2, <2>4, <1>1 DEF Stores
    <2>6. \A i \in 1 .. L + 1 : i \in 1 .. L \/ i = L + 1
      BY <1>1
    <2> HIDE DEF u, t, L
    <2>8. \A i \in 1 .. L + 1 : d[i] # 0 /\ u.ip[p[i]] = d[i] /\ u.host[d[i]] = p[i]
      <3> TAKE i \in 1 .. L + 1
      <3>1. CASE i \in 1 .. L
        <4>1. p[i] = s.names[i] /\ d[i] = s.addrs[i]
          BY <3>1, <1>4, <1>5
        <4>2. u.ip[s.names[i]] = s.ip[s.names[i]]
              /\ u.host[s.addrs[i]] = s.host[s.addrs[i]]
          BY <3>1, <2>5, <1>1, <1>2
        <4> QED BY <3>1, <4>1, <4>2, <1>1
      <3>2. CASE i = L + 1
        BY <3>2, <2>5, <1>1, <1>4, <1>5
      <3> QED BY <3>1, <3>2, <2>6
    <2>7. Zipped(u)
      BY <2>5, <2>8, <1>4, <1>5 DEF Zipped
    <2> QED BY <1>6, <2>7 DEF Caches, u, t
  <1>9. CASE L = Size
    <2>1. ~(Len(d) <= Size) /\ ~(Len(p) <= Size) /\ 1 \in 1 .. L
      BY <1>1, <1>4, <1>5, <1>9
    <2> DEFINE g == s.names[1]
               b == s.addrs[1]
    <2>2. /\ Head(p) = g /\ Len(Tail(p)) = L /\ Tail(p) \in Seq(Hosts)
          /\ \A i \in 1 .. L : Tail(p)[i] = p[i + 1]
      BY <2>1, <1>1, <1>4, HeadTailProperties
    <2>3. /\ Head(d) = b /\ Len(Tail(d)) = L /\ Tail(d) \in Seq(Places)
          /\ \A i \in 1 .. L : Tail(d)[i] = d[i + 1]
      BY <2>1, <1>1, <1>5, HeadTailProperties
    <2>4. t = [s EXCEPT !.host = [s.host EXCEPT ![a] = h, ![b] = Absent], !.addrs = Tail(d)]
      BY <2>1, <2>3, <1>1, <1>3 DEF SetAddr, Stores
    <2>5. t.names = s.names
      BY <2>4, <1>1 DEF Stores
    <2>6. u = [t EXCEPT !.ip = [t.ip EXCEPT ![h] = a, ![g] = Absent], !.names = Tail(p)]
      BY <2>1, <2>2, <2>5, <1>1, <1>3, <1>6 DEF SetName, Kept, Stores
    <2>7. /\ u.names = Tail(p) /\ u.ip = [s.ip EXCEPT ![h] = a, ![g] = Absent]
          /\ u.addrs = Tail(d) /\ u.host = [s.host EXCEPT ![a] = h, ![b] = Absent]
      BY <2>4, <2>6, <1>1 DEF Stores
    <2>8. \A i \in 1 .. L : (i + 1 \in 1 .. L /\ i + 1 # 1) \/ i = L
      BY <1>1
    <2>9. \A i \in 1 .. L : i # 1 => s.names[i] # g /\ s.addrs[i] # b
      BY <2>1, <1>1 DEF IsOnce
    <2>10. g # h /\ b # a
      BY <2>1, <1>2
    <2> HIDE DEF u, t, L, g, b
    <2>11. \A i \in 1 .. L : /\ Tail(d)[i] # 0 /\ u.ip[Tail(p)[i]] = Tail(d)[i]
                            /\ u.host[Tail(d)[i]] = Tail(p)[i]
      <3> TAKE i \in 1 .. L
      <3>1. CASE i + 1 \in 1 .. L /\ i + 1 # 1
        <4> DEFINE j == i + 1
        <4>1. Tail(p)[i] = s.names[j] /\ Tail(d)[i] = s.addrs[j]
          BY <3>1, <2>2, <2>3, <1>4, <1>5
        <4>2. j \in 1 .. L /\ s.names[j] \notin {h, g} /\ s.addrs[j] \notin {a, b}
          BY <3>1, <2>9, <1>2
        <4> HIDE DEF j
        <4>3. u.ip[s.names[j]] = s.ip[s.names[j]]
              /\ u.host[s.addrs[j]] = s.host[s.addrs[j]]
          BY <4>2, <2>7, <1>1
        <4> QED BY <4>1, <4>2, <4>3, <1>1
      <3>2. CASE i = L
        BY <3>2, <2>2, <2>3, <2>7, <2>10, <1>1, <1>4, <1>5
      <3> QED BY <3>1, <3>2, <2>8
    <2>12. Zipped(u)
      BY <2>2, <2>3, <2>7, <2>11 DEF Zipped
    <2> QED BY <1>6, <2>12 DEF Caches, u, t
  <1> QED BY <1>1, <1>8, <1>9

-----------------------------------------------------------------------------
(* The invariant. *)

SetupTypes ==
    /\ persistent \in BOOLEAN /\ storing \in BOOLEAN
    /\ live \in Pools \cup {Absent} /\ next \in Pools \cup {Absent}
    /\ next # Absent => next # live /\ live # Absent
    /\ ~persistent => live # Absent
    /\ copied \in {"none", "names", "all"}
    /\ copied # "none" => ~persistent /\ next # Absent
Gens == [offset : Places, cycle : BOOLEAN]
GenTypes == gen \in [Pools -> Gens]
    /\ saved \in [offset : Places \cup {Absent}, cycle : BOOLEAN]
FlushTypes ==
    /\ flush \in [Pools -> {"idle", "names", "offset"}]
    /\ \A p \in Pools : flush[p] = "names" => ~persistent
TornTypes == torn \in [Pools -> BOOLEAN]
PoolTypes == SetupTypes /\ GenTypes /\ FlushTypes /\ TornTypes
LookTypes ==
    /\ look \in [Pools -> [at : {"idle", "del", "delIP", "putIP", "putHost"},
                           host : Hosts \cup {Absent}, addr : Places \cup {Absent}]]
    /\ \A p \in Pools :
          /\ look[p].at # "idle" => look[p].host \in Hosts
          /\ look[p].at = "putHost" => look[p].addr \in Places
StoresKept == store \in [Pools -> Stores] /\ \A p \in Pools : Kept(store[p])

(* In memory only the live pool is asked or flushed. *)
OthersRest ==
    ~persistent \/ live = Absent => \A p \in Pools :
        p # live => look[p].at = "idle" /\ flush[p] = "idle"

(* A pool of memory that is whole lists the same pairs in both caches, or    *)
(* will when its Lookup or its flush is over.                                *)
WholeOf(s, a, l, f) ==
    IF f = "names" THEN l.at = "idle" /\ s.names = <<>>
    ELSE /\ l.at \in {"idle", "del", "putIP"} => Zipped(s)
         /\ l.at \in {"del", "delIP", "putIP"} => a # 0 /\ s.ip[l.host] = Absent
         /\ l.at = "delIP" => Zipped(DelAddr(s, a))
         /\ l.at = "putIP" => s.host[a] = Absent
         /\ l.at = "putHost" => Zipped(SetName(s, l.host, l.addr))
Whole(p) == WholeOf(store[p], gen[p].offset, look[p], flush[p])
CachesWhole ==
    ~persistent => \A p \in Pools :
        ~torn[p] /\ (p = live \/ (p = next /\ copied = "all")) => Whole(p)

(* In a file that is whole each address leads back to its name at every      *)
(* moment, and one Lookup at most is under way.                              *)
FileLeads(s) ==
    \A h \in Hosts : s.ip[h] # Absent => s.ip[h] # 0 /\ s.host[s.ip[h]] = h
Fits(s, a, l) ==
    /\ l.at # "delIP"
    /\ l.at \in {"del", "putIP"} => a # 0
    /\ l.at = "putIP" => s.host[a] = Absent
    /\ l.at = "putHost" => l.addr # 0 /\ s.host[l.addr] = l.host
OneAsks == \A p, q \in Pools : look[p].at # "idle" /\ look[q].at # "idle" => p = q
FileWhole ==
    persistent /\ ~torn[1] =>
        /\ OneAsks /\ FileLeads(store[1])
        /\ \A p \in Pools : Fits(store[1], gen[p].offset, look[p])

PoolProofInv ==
    PoolTypes /\ LookTypes /\ StoresKept /\ OthersRest /\ CachesWhole /\ FileWhole

LEMMA EmptyIsWhole == Kept(EmptyStore) /\ Zipped(EmptyStore)
  <1>1. EmptyStore \in Stores
    BY DEF EmptyStore, Stores
  <1>2. /\ EmptyStore.names = <<>> /\ EmptyStore.addrs = <<>>
        /\ \A h \in Hosts : EmptyStore.ip[h] = Absent
        /\ \A a \in Places : EmptyStore.host[a] = Absent
        /\ DOMAIN EmptyStore.ip = Hosts /\ DOMAIN EmptyStore.host = Places
    BY DEF EmptyStore
  <1>3. Len(<<>>) = 0
    OBVIOUS
  <1> QED BY <1>1, <1>2, <1>3, AddrsAreNot DEF Kept, Zipped, Lists, IsOnce

LEMMA PoolNames == Pools = {1, 2} /\ 1 \in Pools /\ Absent \notin Pools
  BY PoolAssumption DEF Pools

LEMMA GenIsNew == NewPool \in Gens
    /\ NoState \in [offset : Places \cup {Absent}, cycle : BOOLEAN]
  <1>1. 0 \in Places
    BY PoolAssumption DEF Places
  <1> QED BY <1>1 DEF NewPool, NoState, Gens

LEMMA PoolInit == FakeInit => PoolProofInv
  <1> SUFFICES ASSUME FakeInit PROVE PoolProofInv
    OBVIOUS
  <1>1. PoolTypes
    <2>1. SetupTypes /\ FlushTypes /\ TornTypes
      BY PoolNames DEF FakeInit, SetupTypes, FlushTypes, TornTypes
    <2>2. GenTypes
      BY GenIsNew DEF FakeInit, GenTypes
    <2> QED BY <2>1, <2>2 DEF PoolTypes
  <1>2. LookTypes
    BY DEF FakeInit, LookTypes, NoLookup
  <1>3. StoresKept
    BY EmptyIsWhole DEF FakeInit, StoresKept, Kept
  <1>4. OthersRest /\ CachesWhole /\ FileWhole
    BY EmptyIsWhole, PoolNames DEF FakeInit, OthersRest, CachesWhole, FileWhole,
       FileLeads, Fits, OneAsks, Whole, WholeOf, NoLookup,
       EmptyStore
  <1> QED BY <1>1, <1>2, <1>3, <1>4 DEF PoolProofInv

-----------------------------------------------------------------------------
LEMMA KeyIs == \A p \in Pools : Key(p) \in Pools /\ Key(p) = IF persistent THEN 1 ELSE p
  BY PoolNames DEF Key

LEMMA Advances ==
  ASSUME GenTypes, NEW p \in Pools
  PROVE  Advance(gen[p]) \in Gens /\ Advance(gen[p]).offset # 0
  <1>1. gen[p] \in Gens /\ LastAddr \in Nat \ {0}
    BY PoolAssumption DEF GenTypes
  <1> QED BY <1>1 DEF Advance, Places, Gens

LEMMA GenStep ==
  ASSUME PoolTypes, [FakeNext]_poolVars
  PROVE  GenTypes'
  <1> USE DEF PoolTypes, GenTypes
  <1>1. CASE UNCHANGED <<gen, saved>>
    BY <1>1
  <1>2. ASSUME NEW p \in Pools, NEW h \in Hosts, LookupMisses(p, h) PROVE GenTypes'
    BY <1>2, Advances DEF LookupMisses
  <1>3. ASSUME NEW p \in Pools, FlushBucket(p) \/ FlushOffset(p) PROVE GenTypes'
    BY <1>3, GenIsNew DEF FlushBucket, FlushOffset
  <1>4. ASSUME NEW p \in Pools, New(p) PROVE GenTypes'
    <2>1. Restored \in Gens
      <3>1. CASE persistent /\ saved.offset # Absent
        BY <3>1 DEF Restored, Gens
      <3>2. CASE ~(persistent /\ saved.offset # Absent)
        BY <3>2, GenIsNew DEF Restored, Gens, SetupTypes
      <3> QED BY <3>1, <3>2
    <2>2. gen' \in [Pools -> Gens]
      BY <1>4, <2>1, GenIsNew DEF New
    <2>3. saved' \in [offset : Places \cup {Absent}, cycle : BOOLEAN]
      BY <1>4, GenIsNew DEF New
    <2> QED BY <2>2, <2>3
  <1>5. ASSUME NEW p \in Pools, Forget(p), UNCHANGED saved PROVE GenTypes'
    BY <1>5, GenIsNew DEF Forget
  <1>6. CASE StoreOffset \/ StoreCycle
    <2>1. gen[live].offset \in Places /\ UNCHANGED gen
      BY <1>6 DEF StoreOffset, StoreCycle, Gens, SetupTypes
    <2>2. CASE StoreOffset
      BY <2>1, <2>2 DEF StoreOffset
    <2>3. CASE StoreCycle
      BY <2>1, <2>3 DEF StoreCycle
    <2> QED BY <1>6, <2>1, <2>2, <2>3
  <1>7. CASE NewFails
    BY <1>5, <1>7, PoolNames DEF NewFails, SetupTypes
  <1>8. CASE Switch
    BY <1>5, <1>8, PoolNames DEF Switch, SetupTypes
  <1>9. CASE Start
    BY <1>4, <1>9, PoolNames DEF Start
  <1> QED BY <1>1, <1>2, <1>3, <1>4, <1>6, <1>7, <1>8, <1>9 DEF FakeNext, poolVars,
     LookupFinds, LookBack,
       DelByIP, PutByIP, PutByHost, Alters, FlushNames, FlushAddrs, Parse,
       CopyNames, CopyAddrs, Die

LEMMA TornStep ==
  ASSUME PoolTypes, [FakeNext]_poolVars
  PROVE  TornTypes'
  <1> USE DEF PoolTypes, TornTypes
  <1>1. CASE UNCHANGED torn
    BY <1>1
  <1>2. ASSUME NEW p \in Pools, New(p) \/ Forget(p) PROVE TornTypes'
    BY <1>2 DEF New, Forget, LookedAt
  <1>3. CASE NewFails \/ Switch \/ Start
    BY <1>2, <1>3, PoolNames DEF NewFails, Switch, Start, SetupTypes
  <1>4. CASE CopyNames \/ CopyAddrs
    BY <1>4 DEF CopyNames, CopyAddrs
  <1>5. ASSUME NEW p \in Pools, \/ \E h \in Hosts : LookupMisses(p, h)
                                \/ FlushNames(p) \/ FlushBucket(p) \/ FlushOffset(p) \/ Parse(p)
        PROVE  TornTypes'
    BY <1>2, <1>5 DEF LookupMisses, FlushNames, FlushBucket, FlushOffset, Parse,
       LookedAt
  <1> QED BY <1>1, <1>3, <1>4, <1>5 DEF FakeNext, poolVars, LookupFinds, LookBack,
       DelByIP, PutByIP, PutByHost, Alters, FlushAddrs, StoreOffset, StoreCycle, Die

LEMMA FlushStep ==
  ASSUME PoolTypes, [FakeNext]_poolVars
  PROVE  FlushTypes'
  <1> USE DEF PoolTypes, FlushTypes
  <1>1. CASE UNCHANGED <<flush, persistent>>
    BY <1>1
  <1>2. ASSUME NEW p \in Pools, FlushNames(p) \/ FlushAddrs(p) \/ FlushBucket(p) \/ FlushOffset(p)
        PROVE  FlushTypes'
    BY <1>2 DEF FlushNames, FlushAddrs, FlushBucket, FlushOffset, counts
  <1>3. CASE NewFails \/ Switch \/ Die
    BY <1>3 DEF NewFails, Switch, Die, Forget, counts
  <1> QED BY <1>1, <1>2, <1>3 DEF FakeNext, poolVars, counts, LookupFinds,
     LookupMisses, LookBack,
       DelByIP, PutByIP, PutByHost, Alters, Parse, CopyNames, CopyAddrs,
       StoreOffset, StoreCycle, Start

LEMMA SetupStep ==
  ASSUME PoolTypes, [FakeNext]_poolVars
  PROVE  SetupTypes'
  <1> USE DEF PoolTypes, SetupTypes, counts, setup
  <1>1. CASE UNCHANGED <<counts, setup, storing>>
    BY <1>1
  <1>2. CASE (\E p \in Pools : Parse(p)) \/ NewFails \/ CopyNames \/ CopyAddrs \/ Switch
    BY <1>2, PoolNames DEF Parse, NewFails, CopyNames, CopyAddrs, Switch
  <1>3. CASE StoreOffset \/ StoreCycle
    <2>1. UNCHANGED <<persistent, live, next, copied>>
      BY <1>3 DEF StoreOffset, StoreCycle
    <2>2. storing' \in BOOLEAN
      BY <1>3, Zenon DEF StoreOffset, StoreCycle
    <2> QED BY <2>1, <2>2
  <1>4. CASE Die
    BY <1>4 DEF Die
  <1>5. CASE Start
    BY <1>5, PoolNames DEF Start
  <1> QED BY <1>1, <1>2, <1>3, <1>4, <1>5 DEF FakeNext, poolVars, LookupFinds,
     LookupMisses, LookBack,
       DelByIP, PutByIP, PutByHost, Alters, FlushNames, FlushAddrs, FlushBucket,
       FlushOffset

LEMMA LookStep ==
  ASSUME PoolTypes, LookTypes, [FakeNext]_poolVars
  PROVE  LookTypes'
  <1>1. CASE UNCHANGED look
    BY <1>1 DEF LookTypes
  <1>2. ASSUME NEW p \in Pools, NEW h \in Hosts, LookupMisses(p, h) PROVE LookTypes'
    BY <1>2 DEF LookupMisses, LookTypes, NoLookup
  <1>3. ASSUME NEW p \in Pools, DelByIP(p) \/ PutByIP(p) \/ PutByHost(p) PROVE LookTypes'
    <2>1. gen[p].offset \in Places
      BY DEF PoolTypes, GenTypes, Gens
    <2>2. CASE DelByIP(p)
      BY <2>2 DEF DelByIP, Alters, LookTypes
    <2>3. CASE PutByIP(p)
      BY <2>1, <2>3 DEF PutByIP, Alters, LookTypes
    <2>4. CASE PutByHost(p)
      BY <2>4 DEF PutByHost, Alters, LookTypes, NoLookup
    <2> QED BY <1>3, <2>2, <2>3, <2>4
  <1>4. CASE Die
    BY <1>4 DEF Die, LookTypes, NoLookup
  <1>5. ASSUME NEW p \in Pools, Forget(p) PROVE LookTypes'
    BY <1>5 DEF Forget, LookTypes, NoLookup
  <1>6. CASE NewFails \/ Switch
    BY <1>6, <1>5, PoolNames DEF NewFails, Switch, PoolTypes, SetupTypes
  <1> QED BY <1>1, <1>2, <1>3, <1>4, <1>6 DEF FakeNext, poolVars, LookupFinds,
     LookBack,
       FlushNames, FlushAddrs, FlushBucket, FlushOffset, Parse, CopyNames,
       CopyAddrs,
       StoreOffset, StoreCycle, Start

LEMMA StorePut ==
  ASSUME StoresKept, NEW k \in Pools, NEW s, Kept(s), store' = [store EXCEPT ![k] = s],
         UNCHANGED persistent
  PROVE  StoresKept'
  <1>1. s \in Stores /\ \A t : Kept(t)' <=> Kept(t)
    BY DEF Kept, Stores
  <1> QED BY <1>1 DEF StoresKept

LEMMA StoresStep ==
  ASSUME PoolTypes, LookTypes, StoresKept, [FakeNext]_poolVars
  PROVE  StoresKept'
  <1>0. /\ \A p \in Pools : Key(p) \in Pools /\ Kept(Store(p)) /\ Store(p) \in Stores
        /\ \A p \in Pools : gen[p].offset \in Places
    BY KeyIs DEF Store, StoresKept, PoolTypes, GenTypes, Gens
  <1>1. UNCHANGED persistent
    BY DEF FakeNext, poolVars, counts, LookupFinds, LookupMisses, LookBack,
       DelByIP, PutByIP, PutByHost,
       Alters, FlushNames, FlushAddrs, FlushBucket, FlushOffset, Parse, NewFails,
       CopyNames, CopyAddrs,
       Switch, StoreOffset, StoreCycle, Die, Start
  <1>2. CASE UNCHANGED store
    BY <1>1, <1>2 DEF StoresKept, Kept, Stores
  <1>3. ASSUME NEW p \in Pools, NEW h \in Hosts, LookupFinds(p, h) PROVE StoresKept'
    <2>1. Store(p).ip[h] # Absent
          /\ store' = [store EXCEPT ![Key(p)] = GetByHost(Store(p), h)]
      BY <1>0, <1>3 DEF LookupFinds, Store, StoresKept
    <2>2. 0 \in Places
      BY PoolAssumption DEF Places
    <2> QED BY <1>0, <1>1, <2>1, <2>2, GetKeeps, StorePut
  <1>4. ASSUME NEW p \in Pools, NEW a \in Places, LookBack(p, a) PROVE StoresKept'
    <2>1. Store(p).host[a] # Absent
          /\ store' = [store EXCEPT ![Key(p)] = GetByIP(Store(p), a)]
      BY <1>0, <1>4 DEF LookBack, Store, StoresKept
    <2>2. Store(p).host[a] \in Hosts
      BY <1>0, <2>1 DEF Stores
    <2> QED BY <1>0, <1>1, <2>1, <2>2, GetKeeps, StorePut
  <1>5. ASSUME NEW p \in Pools, DelByIP(p) PROVE StoresKept'
    <2> DEFINE s == Store(p)
               a == gen[p].offset
    <2>6. look[p].at # "idle"
      BY <1>5 DEF DelByIP, Alters
    <2>1. look[p].host \in Hosts
      BY <2>6 DEF LookTypes
    <2>2. Kept(DelNameOf(s, a))
      <3>1. CASE s.host[a] = Absent
        BY <1>0, <3>1 DEF DelNameOf
      <3>2. CASE s.host[a] # Absent
        <4>1. s.host[a] \in Hosts
          BY <1>0, <3>2 DEF Stores
        <4> QED BY <1>0, <3>2, <4>1, DelKeeps DEF DelNameOf
      <3> QED BY <3>1, <3>2
    <2> HIDE DEF s, a
    <2>3. Kept(s) /\ a \in Places
      BY <1>0 DEF s, a
    <2>4. Kept(DelAddr(s, a)) /\ Kept(DelAddr(DelNameOf(s, a), a))
      BY <2>1, <2>2, <2>3, DelKeeps
    <2>5. \E t : Kept(t) /\ store' = [store EXCEPT ![Key(p)] = t]
      BY <1>5, <2>2, <2>4 DEF DelByIP, Alters, s, a
    <2> QED BY <1>0, <1>1, <2>5, StorePut
  <1>6. ASSUME NEW p \in Pools, PutByIP(p) \/ PutByHost(p) PROVE StoresKept'
    <2>4. look[p].at # "idle"
      BY <1>6 DEF PutByIP, PutByHost, Alters
    <2>1. look[p].host \in Hosts
          /\ (look[p].at = "putHost" => look[p].addr \in Places)
      BY <2>4 DEF LookTypes
    <2>2. CASE PutByIP(p)
      <3>1. store' = [store EXCEPT ![Key(p)] = SetAddr(Store(p), gen[p].offset, look[p].host)]
        BY <2>2 DEF PutByIP, Alters
      <3>2. Kept(SetAddr(Store(p), gen[p].offset, look[p].host))
        BY <1>0, <2>1, SetAddrKeeps
      <3> QED BY <1>0, <1>1, <3>1, <3>2, StorePut
    <2>3. CASE PutByHost(p)
      <3>1. /\ store' = [store EXCEPT ![Key(p)] = SetName(Store(p), look[p].host, look[p].addr)]
            /\ look[p].at = "putHost"
        BY <2>3 DEF PutByHost, Alters
      <3>2. Kept(SetName(Store(p), look[p].host, look[p].addr))
        BY <1>0, <2>1, <3>1, SetNameKeeps
      <3> QED BY <1>0, <1>1, <3>1, <3>2, StorePut
    <2> QED BY <1>6, <2>2, <2>3
  <1>7. ASSUME NEW p \in Pools, FlushNames(p) \/ FlushAddrs(p) \/ FlushBucket(p) PROVE StoresKept'
    <2>1. \E k \in Pools : store' = [store EXCEPT ![k] = EmptyStore]
                          \/ store' = [store EXCEPT ![k] = [store[k] EXCEPT !.ip = EmptyStore.ip,
                                                                           !.names = <<>>]]
                          \/ store' = [store EXCEPT ![k] = [store[k] EXCEPT !.host = EmptyStore.host,
                                                                           !.addrs = <<>>]]
      BY <1>7, PoolNames DEF FlushNames, FlushAddrs, FlushBucket, StoresKept, Stores
    <2>2. ASSUME NEW s, Kept(s)
          PROVE  /\ Kept([s EXCEPT !.ip = EmptyStore.ip, !.names = <<>>])
                 /\ Kept([s EXCEPT !.host = EmptyStore.host, !.addrs = <<>>])
      <3> DEFINE n == EmptyStore.ip
                 d == EmptyStore.host
      <3>1. /\ n \in [Hosts -> Places \cup {Absent}]
            /\ d \in [Places -> Hosts \cup {Absent}]
            /\ ~persistent => Lists(<<>>, n) /\ Lists(<<>>, d)
            /\ Len(<<>>) = 0 /\ 0 <= Size
        BY EmptyIsWhole, AddrsAreNot DEF Kept, Stores, EmptyStore
      <3> HIDE DEF n, d
      <3>2. s \in Stores
        BY <2>2 DEF Kept
      <3>6. <<>> \in Seq(Hosts) /\ <<>> \in Seq(Places)
        OBVIOUS
      <3> DEFINE u == [s EXCEPT !.ip = n, !.names = <<>>]
                 w == [s EXCEPT !.host = d, !.addrs = <<>>]
      <3>3. /\ u \in Stores /\ u.ip = n /\ u.names = <<>>
            /\ u.host = s.host /\ u.addrs = s.addrs
        BY <3>1, <3>2, <3>6 DEF Stores
      <3>4. /\ w \in Stores /\ w.host = d /\ w.addrs = <<>>
            /\ w.ip = s.ip /\ w.names = s.names
        BY <3>1, <3>2, <3>6 DEF Stores
      <3> HIDE DEF u, w
      <3>5. Kept(u) /\ Kept(w)
        BY <2>2, <3>1, <3>3, <3>4 DEF Kept
      <3> QED BY <3>5 DEF u, w, n, d
    <2>3. \A k \in Pools : Kept(store[k])
      BY DEF StoresKept
    <2> QED BY <1>1, <2>1, <2>2, <2>3, EmptyIsWhole, StorePut
  <1>8. ASSUME NEW p \in Pools, New(p) \/ Forget(p) PROVE StoresKept'
    BY <1>1, <1>2, <1>8, PoolNames, EmptyIsWhole, StorePut DEF New, Forget
  <1>9. CASE NewFails \/ Switch \/ Start
    BY <1>8, <1>9, PoolNames DEF NewFails, Switch, Start, PoolTypes, SetupTypes
  <1>10. CASE CopyNames \/ CopyAddrs
    <2>1. live \in Pools /\ next \in Pools /\ ~persistent
      BY <1>10, PoolNames DEF CopyNames, CopyAddrs, PoolTypes, SetupTypes
    <2> DEFINE s == store[next]
               t == store[live]
    <2>2. Kept(s) /\ Kept(t) /\ s \in Stores /\ t \in Stores
      BY <2>1 DEF StoresKept
    <2> HIDE DEF s, t
    <2>3. /\ Kept([s EXCEPT !.ip = t.ip, !.names = t.names])
          /\ Kept([s EXCEPT !.host = t.host, !.addrs = t.addrs])
      BY <2>1, <2>2 DEF Kept, Stores
    <2>4. \/ store' = [store EXCEPT ![next] = [s EXCEPT !.ip = t.ip, !.names = t.names]]
          \/ store' = [store EXCEPT ![next] = [s EXCEPT !.host = t.host, !.addrs = t.addrs]]
      BY <1>10, <2>1 DEF CopyNames, CopyAddrs, s, t, StoresKept, Stores
    <2> QED BY <1>1, <2>1, <2>3, <2>4, StorePut
  <1> QED BY <1>2, <1>3, <1>4, <1>5, <1>6, <1>7, <1>8, <1>9, <1>10 DEF FakeNext,
     poolVars,
       LookupMisses, FlushOffset, Parse, StoreOffset, StoreCycle, Die

-----------------------------------------------------------------------------
LEMMA Persists == [FakeNext]_poolVars => UNCHANGED persistent
  BY DEF FakeNext, poolVars, counts, LookupFinds, LookupMisses, LookBack, DelByIP,
     PutByIP, PutByHost,
       Alters, FlushNames, FlushAddrs, FlushBucket, FlushOffset, Parse, NewFails,
       CopyNames, CopyAddrs,
       Switch, StoreOffset, StoreCycle, Die, Start

LEMMA OthersStep ==
  ASSUME PoolTypes, LookTypes, OthersRest, [FakeNext]_poolVars
  PROVE  OthersRest'
  <1> USE DEF OthersRest, PoolTypes, setup, counts
  <1>0. UNCHANGED persistent
    BY Persists
  <1>1. CASE UNCHANGED <<live, look, flush>>
    BY <1>0, <1>1
  <1>2. ASSUME NEW p \in Pools, \/ \E h \in Hosts : LookupMisses(p, h)
                                \/ DelByIP(p) \/ PutByIP(p) \/ PutByHost(p)
        PROVE  OthersRest'
    <2>1. UNCHANGED <<persistent, live, flush>>
          /\ \A q \in Pools : q # p => look'[q] = look[q]
      BY <1>2 DEF LookupMisses, DelByIP, PutByIP, PutByHost, Alters, LookTypes
    <2>2. p = live \/ look[p].at # "idle"
      BY <1>2 DEF LookupMisses, DelByIP, PutByIP, PutByHost, Alters
    <2> QED BY <2>1, <2>2, PoolNames
  <1>3. ASSUME NEW p \in Pools, FlushNames(p) \/ FlushAddrs(p) \/ FlushBucket(p) \/ FlushOffset(p)
        PROVE  OthersRest'
    <2>1. UNCHANGED <<persistent, live, look>>
          /\ \A q \in Pools : q # p => flush'[q] = flush[q]
      BY <1>3 DEF FlushNames, FlushAddrs, FlushBucket, FlushOffset, FlushTypes
    <2>2. p = live \/ flush[p] # "idle"
      BY <1>3 DEF FlushNames, FlushAddrs, FlushBucket, FlushOffset
    <2> QED BY <2>1, <2>2, PoolNames
  <1>4. CASE NewFails \/ Switch
    <2>1. PICK p \in Pools : Forget(p)
          /\ (live' = live \/ (live = p /\ live' # Absent))
      BY <1>4, PoolNames DEF NewFails, Switch, SetupTypes
    <2>2. persistent \/ \A q \in Pools : /\ look'[q] = IF q = p THEN NoLookup ELSE look[q]
                                        /\ flush'[q] = IF q = p THEN "idle" ELSE flush[q]
      BY <2>1 DEF Forget, LookTypes, FlushTypes
    <2>3. persistent => UNCHANGED <<look, flush>>
      BY <2>1 DEF Forget
    <2> QED BY <2>1, <2>2, <2>3, <1>0, PoolNames DEF NoLookup, SetupTypes
  <1>5. CASE Die
    BY <1>5 DEF Die, NoLookup
  <1>6. CASE Start
    BY <1>0, <1>6, PoolNames DEF Start, SetupTypes
  <1> QED BY <1>1, <1>2, <1>3, <1>4, <1>5, <1>6 DEF FakeNext, poolVars,
     LookupFinds, LookBack,
       Parse, CopyNames, CopyAddrs, StoreOffset, StoreCycle

-----------------------------------------------------------------------------
(* The pools of memory. *)
IsMemory(p) ==
    /\ Key(p) = p /\ Store(p) = store[p] /\ store[p] \in Stores /\ Kept(store[p])
    /\ Zipped(store[p]) => Caches(store[p])
    /\ gen[p].offset \in Places
    /\ look[p].at \in {"idle", "del", "delIP", "putIP", "putHost"}
    /\ look[p].at # "idle" => p = live /\ look[p].host \in Hosts
    /\ look[p].at = "putHost" => look[p].addr \in Places
    /\ flush[p] # "idle" => p = live

LEMMA InMemory ==
  ASSUME PoolProofInv, ~persistent
  PROVE  /\ live \in Pools /\ next # live /\ (copied # "none" => next \in Pools)
         /\ \A p \in Pools : IsMemory(p)
  <1>1. live \in Pools /\ next # live /\ (copied # "none" => next \in Pools)
    BY PoolNames DEF PoolProofInv, PoolTypes, SetupTypes
  <1>2. ASSUME NEW p \in Pools PROVE IsMemory(p)
    <2>1. /\ Key(p) = p /\ Store(p) = store[p] /\ store[p] \in Stores
          /\ Kept(store[p])
          /\ Zipped(store[p]) => Caches(store[p])
      BY DEF PoolProofInv, StoresKept, Key, Store, Caches
    <2>2. gen[p].offset \in Places
      BY DEF PoolProofInv, PoolTypes, GenTypes, Gens
    <2>3. (look[p].at # "idle" => p = live) /\ (flush[p] # "idle" => p = live)
      BY DEF PoolProofInv, OthersRest
    <2>4. /\ look[p].at # "idle" => look[p].host \in Hosts
          /\ look[p].at = "putHost" => look[p].addr \in Places
          /\ look[p].at \in {"idle", "del", "delIP", "putIP", "putHost"}
      BY DEF PoolProofInv, LookTypes
    <2> QED BY <2>1, <2>2, <2>3, <2>4 DEF IsMemory
  <1> QED BY <1>1, <1>2

LEMMA WholeThen ==
  ASSUME UNCHANGED persistent, NEW p \in Pools
  PROVE  Whole(p)' <=> WholeOf(store'[p], gen'[p].offset, look'[p], flush'[p])
  BY DEF Whole, WholeOf, Zipped, SetName, DelAddr, Drop, Touch

(* A step of one pool leaves the other as it is. *)
LEMMA OnePool ==
  ASSUME PoolProofInv, UNCHANGED <<persistent, live, next, copied>>, NEW q \in Pools,
         \A p \in Pools : p # q => /\ store'[p] = store[p] /\ gen'[p] = gen[p]
                                  /\ look'[p] = look[p] /\ flush'[p] = flush[p]
                                  /\ torn'[p] = torn[p],
         ~torn'[q] => WholeOf(store'[q], gen'[q].offset, look'[q], flush'[q])
  PROVE  CachesWhole'
  BY WholeThen DEF PoolProofInv, CachesWhole, Whole

LEMMA Domains ==
  ASSUME PoolProofInv
  PROVE  /\ DOMAIN store = Pools /\ DOMAIN gen = Pools /\ DOMAIN look = Pools
         /\ DOMAIN flush = Pools /\ DOMAIN torn = Pools
  BY DEF PoolProofInv, PoolTypes, GenTypes, FlushTypes, TornTypes, LookTypes,
     StoresKept

(* A Lookup or a flush of the live pool. *)
LEMMA FindStep ==
  ASSUME PoolProofInv, ~persistent, NEW q \in Pools,
         \/ \E h \in Hosts : LookupFinds(q, h)
         \/ \E a \in Places : LookBack(q, a)
  PROVE  CachesWhole'
  <1> DEFINE s == store[q]
             t == store'[q]
  <1>1. /\ UNCHANGED <<persistent, live, next, copied, gen, look, flush, torn>>
        /\ q = live /\ look[q].at = "idle"
        /\ \A p \in Pools : p # q => store'[p] = store[p]
        /\ \/ \E h \in Hosts : s.ip[h] # Absent /\ t = GetByHost(s, h)
           \/ \E a \in Places : s.host[a] # Absent /\ t = GetByIP(s, a)
    BY InMemory, Domains DEF IsMemory, LookupFinds, LookBack, counts, setup
  <1>2. IsMemory(q)
    BY InMemory
  <1> HIDE DEF s, t
  <1>3. ASSUME ~torn[q] PROVE WholeOf(t, gen[q].offset, look[q], flush[q])
    <2>1. WholeOf(s, gen[q].offset, look[q], flush[q])
      BY <1>1, <1>3 DEF PoolProofInv, CachesWhole, Whole, s
    <2>2. CASE flush[q] = "names"
      <3>1. s.names = <<>> /\ Kept(s) /\ s \in Stores
        BY <1>2, <2>1, <2>2 DEF WholeOf, IsMemory, s
      <3>2. \A h \in Hosts : s.ip[h] = Absent
        BY <3>1 DEF Kept, Lists, Stores
      <3>3. t.names = <<>>
        <4>1. PICK a \in Places : s.host[a] # Absent /\ t = GetByIP(s, a)
          BY <1>1, <3>2
        <4>2. s.host[a] \in Hosts
          BY <3>1, <4>1 DEF Stores
        <4> QED BY <3>1, <3>2, <4>1, <4>2 DEF GetByIP, Stores
      <3> QED BY <1>1, <2>2, <3>3 DEF WholeOf
    <2>3. CASE flush[q] # "names"
      <3>1. Caches(s)
        BY <1>1, <1>2, <2>1, <2>3 DEF WholeOf, IsMemory, s
      <3>2. Caches(t)
        <4>1. CASE \E h \in Hosts : s.ip[h] # Absent /\ t = GetByHost(s, h)
          <5>1. 0 \in Places
            BY PoolAssumption DEF Places
          <5> QED BY <3>1, <4>1, <5>1, GetZips
        <4>2. CASE \E a \in Places : s.host[a] # Absent /\ t = GetByIP(s, a)
          <5>1. PICK a \in Places : s.host[a] # Absent /\ t = GetByIP(s, a)
            BY <4>2
          <5>2. s.host[a] \in Hosts
            BY <5>1, <1>2 DEF IsMemory, Stores, s
          <5> QED BY <3>1, <5>1, <5>2, GetZips
        <4> QED BY <1>1, <4>1, <4>2
      <3> QED BY <1>1, <2>3, <3>2 DEF WholeOf, Caches
    <2> QED BY <2>2, <2>3
  <1> QED BY <1>1, <1>3, OnePool DEF t

LEMMA MissStep ==
  ASSUME PoolProofInv, ~persistent, NEW q \in Pools, NEW h \in Hosts, LookupMisses(q, h)
  PROVE  CachesWhole'
  <1> DEFINE s == store[q]
             g == Advance(gen[q])
             to == IF MustDelete(q, g) THEN "del" ELSE "putIP"
  <1>1. /\ UNCHANGED <<persistent, live, next, copied, store, flush>>
        /\ q = live /\ look[q].at = "idle" /\ Key(q) = q /\ Store(q) = s
        /\ s.ip[h] = Absent
        /\ \A p \in Pools : p # q => gen'[p] = gen[p] /\ look'[p] = look[p] /\ torn'[p] = torn[p]
        /\ gen'[q] = g /\ look'[q] = [NoLookup EXCEPT !.at = to, !.host = h]
        /\ torn'[q] = (torn[q] \/ Disturbed(q))
    BY InMemory, Domains DEF IsMemory, LookupMisses, counts, setup
  <1>2. g.offset # 0
    BY Advances DEF PoolProofInv, PoolTypes
  <1>3. look'[q].at = to /\ look'[q].host = h /\ to \in {"del", "putIP"}
        /\ (to = "putIP" => s.host[g.offset] = Absent)
    BY <1>1 DEF NoLookup, MustDelete
  <1> HIDE DEF s, g, to
  <1>4. ASSUME ~torn'[q] PROVE WholeOf(store'[q], gen'[q].offset, look'[q], flush'[q])
    <2>1. ~torn[q] /\ flush[q] # "names"
      BY <1>1, <1>4 DEF Disturbed
    <2>2. WholeOf(s, gen[q].offset, look[q], flush[q])
      BY <1>1, <2>1 DEF PoolProofInv, CachesWhole, Whole, s
    <2>3. Zipped(s)
      BY <1>1, <2>1, <2>2 DEF WholeOf
    <2> QED BY <1>1, <1>2, <1>3, <2>1, <2>3 DEF WholeOf, s
  <1> QED BY <1>1, <1>4, OnePool

LEMMA ChangeStep ==
  ASSUME PoolProofInv, ~persistent, NEW q \in Pools, DelByIP(q) \/ PutByIP(q) \/ PutByHost(q)
  PROVE  CachesWhole'
  <1> DEFINE s == store[q]
             t == store'[q]
             a == gen[q].offset
             l == look[q]
             m == look'[q]
  <1>1. /\ UNCHANGED <<persistent, live, next, copied, gen, flush, torn>>
        /\ \A p \in Pools : p # q => store'[p] = store[p] /\ look'[p] = look[p]
        /\ \/ l.at = "del" /\ m = [l EXCEPT !.at = "delIP"] /\ t = DelNameOf(s, a)
           \/ l.at = "delIP" /\ m = [l EXCEPT !.at = "putIP"] /\ t = DelAddr(s, a)
           \/ l.at = "putIP" /\ m = [l EXCEPT !.at = "putHost", !.addr = a]
              /\ t = SetAddr(s, a, l.host)
           \/ l.at = "putHost" /\ m = NoLookup /\ t = SetName(s, l.host, l.addr)
    BY InMemory, Domains DEF IsMemory, DelByIP, PutByIP, PutByHost, Alters, counts,
       setup
  <1>2. IsMemory(q)
    BY InMemory
  <1>3. q = live /\ l.host \in Hosts /\ a \in Places /\ Kept(s) /\ s \in Stores
        /\ l = [at |-> l.at, host |-> l.host, addr |-> l.addr]
    BY <1>1, <1>2 DEF IsMemory, PoolProofInv, LookTypes
  <1> HIDE DEF s, t, a, l, m
  <1>4. ASSUME ~torn[q] PROVE WholeOf(t, a, m, flush[q])
    <2>1. WholeOf(s, a, l, flush[q])
      BY <1>3, <1>4 DEF PoolProofInv, CachesWhole, Whole, s, a, l
    <2>2. flush[q] # "names"
      BY <1>1, <2>1 DEF WholeOf
    <2>3. CASE l.at = "del" /\ m = [l EXCEPT !.at = "delIP"] /\ t = DelNameOf(s, a)
      <3>1. Zipped(s) /\ a # 0 /\ s.ip[l.host] = Absent
        BY <2>1, <2>2, <2>3 DEF WholeOf
      <3>2. Caches(s)
        BY <3>1, <1>3 DEF Caches
      <3>3. Zipped(DelAddr(t, a)) /\ t.ip[l.host] = Absent
        BY <1>3, <2>3, <3>1, <3>2, DelZips DEF Caches
      <3>4. m.at = "delIP" /\ m.host = l.host
        BY <1>3, <2>3
      <3> QED BY <2>2, <3>1, <3>3, <3>4 DEF WholeOf
    <2>4. CASE l.at = "delIP" /\ m = [l EXCEPT !.at = "putIP"] /\ t = DelAddr(s, a)
      <3>1. Zipped(t) /\ a # 0 /\ s.ip[l.host] = Absent
        BY <2>1, <2>2, <2>4 DEF WholeOf
      <3>2. t.ip = s.ip /\ t.host[a] = Absent
        BY <1>3, <2>4 DEF DelAddr, Stores
      <3>4. m.at = "putIP" /\ m.host = l.host
        BY <1>3, <2>4
      <3> QED BY <2>2, <3>1, <3>2, <3>4 DEF WholeOf
    <2>5. CASE l.at = "putIP" /\ m = [l EXCEPT !.at = "putHost", !.addr = a]
               /\ t = SetAddr(s, a, l.host)
      <3>1. Zipped(s) /\ a # 0 /\ s.ip[l.host] = Absent /\ s.host[a] = Absent
        BY <2>1, <2>2, <2>5 DEF WholeOf
      <3>2. Caches(s)
        BY <3>1, <1>3 DEF Caches
      <3>3. Zipped(SetName(t, l.host, a))
        BY <1>3, <2>5, <3>1, <3>2, AddZips DEF Caches
      <3>4. m.at = "putHost" /\ m.host = l.host /\ m.addr = a
        BY <1>3, <2>5
      <3> QED BY <2>2, <3>3, <3>4 DEF WholeOf
    <2>6. CASE l.at = "putHost" /\ m = NoLookup /\ t = SetName(s, l.host, l.addr)
      <3>1. Zipped(t) /\ m.at = "idle"
        BY <2>1, <2>2, <2>6 DEF WholeOf, NoLookup
      <3> QED BY <2>2, <3>1 DEF WholeOf
    <2> QED BY <1>1, <2>3, <2>4, <2>5, <2>6
  <1> QED BY <1>1, <1>4, OnePool DEF t, a, m

LEMMA FlushedStep ==
  ASSUME PoolProofInv, ~persistent, NEW q \in Pools,
         FlushNames(q) \/ FlushAddrs(q) \/ FlushBucket(q) \/ FlushOffset(q)
  PROVE  CachesWhole'
  <1> DEFINE s == store[q]
             t == store'[q]
  <1>1. /\ UNCHANGED <<persistent, live, next, copied, look>>
        /\ \A p \in Pools : p # q => /\ store'[p] = store[p] /\ gen'[p] = gen[p]
                                     /\ flush'[p] = flush[p] /\ torn'[p] = torn[p]
    BY InMemory, Domains DEF IsMemory, FlushNames, FlushAddrs, FlushBucket,
       FlushOffset, counts, setup
  <1>2. IsMemory(q)
    BY InMemory
  <1>3. ~FlushBucket(q)
    BY DEF FlushBucket
  <1>4. CASE FlushNames(q)
    <2>1. flush'[q] = "names" /\ t.names = <<>>
          /\ (~torn'[q] => look[q].at = "idle")
      BY <1>2, <1>4, Domains DEF FlushNames, LookedAt, IsMemory, Stores
    <2> QED BY <1>1, <2>1, OnePool DEF WholeOf
  <1>5. CASE FlushAddrs(q)
    <2>1. /\ flush[q] = "names" /\ flush'[q] = "offset" /\ torn'[q] = torn[q]
          /\ q = live
          /\ t.names = s.names /\ t.addrs = <<>>
      BY <1>2, <1>5, Domains DEF FlushAddrs, IsMemory, Stores
    <2>2. ASSUME ~torn[q] PROVE look[q].at = "idle" /\ Zipped(t)
      <3>1. look[q].at = "idle" /\ s.names = <<>>
        BY <2>1, <2>2 DEF PoolProofInv, CachesWhole, Whole, WholeOf
      <3> QED BY <2>1, <3>1 DEF Zipped
    <2> HIDE DEF s, t
    <2>3. ~torn'[q] => WholeOf(t, gen'[q].offset, look'[q], flush'[q])
      BY <1>1, <2>1, <2>2 DEF WholeOf
    <2> QED BY <1>1, <2>3, OnePool DEF t
  <1>6. CASE FlushOffset(q)
    <2>1. /\ flush[q] = "offset" /\ flush'[q] = "idle" /\ UNCHANGED store
          /\ q = live
          /\ torn'[q] = (torn[q] \/ look[q].at # "idle")
      BY <1>2, <1>6, Domains DEF FlushOffset, IsMemory
    <2>2. ~torn'[q] => look[q].at = "idle" /\ Zipped(s)
      BY <2>1 DEF PoolProofInv, CachesWhole, Whole, WholeOf
    <2>3. ~torn'[q] => WholeOf(t, gen'[q].offset, look'[q], flush'[q])
      BY <1>1, <2>1, <2>2 DEF WholeOf
    <2> QED BY <1>1, <2>3, OnePool
  <1> QED BY <1>3, <1>4, <1>5, <1>6

(* The configurations: the pool that is live after the step was live before, *)
(* or has all of both caches.                                                *)
LEMMA ReloadStep ==
  ASSUME PoolProofInv, ~persistent,
         (\E q \in Pools : Parse(q)) \/ NewFails \/ CopyNames \/ CopyAddrs \/ Switch
  PROVE  CachesWhole'
  <1> DEFINE Same(p) == /\ store'[p] = store[p] /\ gen'[p] = gen[p]
      /\ look'[p] = look[p]
                        /\ flush'[p] = flush[p] /\ torn'[p] = torn[p]
  <1>1. UNCHANGED persistent
    BY DEF Parse, NewFails, CopyNames, CopyAddrs, Switch, counts
  <1>2. ASSUME NEW p \in Pools, Same(p), ~torn[p] => Whole(p) PROVE ~torn'[p] => Whole(p)'
    BY <1>1, <1>2, WholeThen DEF Whole
  <1>3. /\ live \in Pools /\ next # live /\ next \in Pools \cup {Absent}
        /\ (~torn[live] => Whole(live))
        /\ (next \in Pools /\ copied = "all" /\ ~torn[next] => Whole(next))
    BY InMemory DEF PoolProofInv, CachesWhole, PoolTypes, SetupTypes
  <1>4. ASSUME NEW q \in Pools, Parse(q) PROVE CachesWhole'
    <2>1. Same(live) /\ UNCHANGED live /\ copied' = "none"
      <3>1. copied = "none"
        BY <1>4 DEF Parse, PoolProofInv, PoolTypes, SetupTypes
      <3>2. ~Orphaned
        BY DEF Orphaned
      <3> QED BY <1>3, <1>4, <3>1, <3>2, Domains DEF Parse, New
    <2> HIDE DEF Same
    <2> QED BY <1>2, <1>3, <2>1 DEF CachesWhole
  <1>5. CASE NewFails
    <2>1. Same(live) /\ UNCHANGED live /\ next' = Absent
      BY <1>3, <1>5, Domains DEF NewFails, Forget
    <2> HIDE DEF Same
    <2> QED BY <1>2, <1>3, <2>1, PoolNames DEF CachesWhole
  <1>6. CASE CopyNames
    <2>1. Same(live) /\ UNCHANGED live /\ copied' = "names"
      BY <1>3, <1>6, Domains DEF CopyNames
    <2> HIDE DEF Same
    <2> QED BY <1>2, <1>3, <2>1 DEF CachesWhole
  <1>7. CASE Switch
    <2>1. Same(next) /\ live' = next /\ next' = Absent /\ copied = "all"
          /\ next \in Pools
      BY <1>3, <1>7, Domains DEF Switch, Forget
    <2> HIDE DEF Same
    <2> QED BY <1>2, <1>3, <2>1, PoolNames DEF CachesWhole
  <1>8. CASE CopyAddrs
    <2>1. next \in Pools /\ IsMemory(next) /\ IsMemory(live) /\ next # live
      BY <1>8, InMemory DEF CopyAddrs
    <2> DEFINE s == store[live]
               n == store[next]
               t == store'[next]
    <2>2. /\ Same(live) /\ UNCHANGED <<live, next, gen, look, flush>>
          /\ t = [n EXCEPT !.host = s.host, !.addrs = s.addrs]
          /\ ~torn'[next] => /\ ~torn[live] /\ ~LookedAt(live) /\ flush[live] # "names"
                            /\ n.names = s.names /\ n.ip = s.ip
      <3>1. store' = [store EXCEPT ![next] = [n EXCEPT !.host = s.host, !.addrs = s.addrs]]
        BY <2>1, <1>8, Domains DEF CopyAddrs
      <3>2. UNCHANGED <<live, next, gen, look, flush>>
        BY <1>8 DEF CopyAddrs
      <3>3. torn' = [torn EXCEPT ![next] =
              torn[next] \/ torn[live] \/ LookedAt(live) \/ flush[live] = "names"
                \/ n.names # s.names \/ n.ip # s.ip]
        BY <1>8 DEF CopyAddrs
      <3>4. t = [n EXCEPT !.host = s.host, !.addrs = s.addrs]
        BY <2>1, <3>1, Domains
      <3>5. Same(live)
        BY <2>1, <1>3, <3>1, <3>2, <3>3, Domains
      <3>6. torn'[next] <=> (torn[next] \/ torn[live] \/ LookedAt(live) \/ flush[live] = "names"
                              \/ n.names # s.names \/ n.ip # s.ip)
        BY <2>1, <3>3, Domains, Zenon
      <3> HIDE DEF s, n, t, Same
      <3> QED BY <3>2, <3>4, <3>5, <3>6
    <2> HIDE DEF t, Same
    <2>3. ASSUME ~torn'[next] PROVE WholeOf(t, gen[next].offset, look[next], flush[next])
      <3>1. look[live].at = "idle"
        BY <2>1, <2>2, <2>3, <1>3 DEF LookedAt, IsMemory
      <3>2. Zipped(s)
        BY <1>3, <2>2, <2>3, <3>1 DEF Whole, WholeOf
      <3>3. t.names = s.names /\ t.addrs = s.addrs /\ t.ip = s.ip /\ t.host = s.host
        BY <2>1, <2>2, <2>3 DEF IsMemory, Stores
      <3>4. Zipped(t)
        BY <3>2, <3>3 DEF Zipped
      <3>5. look[next].at = "idle" /\ flush[next] = "idle"
        BY <2>1 DEF IsMemory
      <3> QED BY <3>4, <3>5 DEF WholeOf
    <2>4. ~torn'[next] => Whole(next)'
      BY <1>1, <2>1, <2>2, <2>3, WholeThen DEF t
    <2> QED BY <1>2, <1>3, <2>1, <2>2, <2>4 DEF CachesWhole
  <1> QED BY <1>4, <1>5, <1>6, <1>7, <1>8

LEMMA CachesStep ==
  ASSUME PoolProofInv, [FakeNext]_poolVars
  PROVE  CachesWhole'
  <1>1. CASE persistent
    BY <1>1, Persists DEF CachesWhole
  <1>2. CASE ~persistent
    <2>1. CASE UNCHANGED <<live, next, copied, gen, look, flush, store, torn>>
      BY <1>2, <2>1, Persists, WholeThen DEF PoolProofInv, CachesWhole, Whole
    <2>2. ~Die /\ ~Start
      BY <1>2, InMemory, PoolNames DEF Die, Start
    <2> QED BY <1>2, <2>1, <2>2, FindStep, MissStep, ChangeStep, FlushedStep,
       ReloadStep
         DEF FakeNext, poolVars, setup, StoreOffset, StoreCycle
  <1> QED BY <1>1, <1>2

-----------------------------------------------------------------------------
(* The file. *)
LEMMA FileMaps ==
  ASSUME persistent, NEW s, Kept(s), NEW h \in Hosts, NEW a \in Places
  PROVE  /\ s \in Stores
         /\ SetAddr(s, a, h) = [s EXCEPT !.host = [s.host EXCEPT ![a] = h]]
         /\ SetName(s, h, a) = [s EXCEPT !.ip = [s.ip EXCEPT ![h] = a]]
         /\ DelAddr(s, a) = [s EXCEPT !.host = [s.host EXCEPT ![a] = Absent]]
         /\ DelName(s, h) = [s EXCEPT !.ip = [s.ip EXCEPT ![h] = Absent]]
         /\ GetByHost(s, h) = s /\ GetByIP(s, a) = s
  <1>1. s \in Stores /\ s.names = <<>> /\ s.addrs = <<>> /\ Len(<<>>) = 0
        /\ 0 <= Size
    BY AddrsAreNot DEF Kept
  <1> QED BY <1>1, NothingLeaves DEF Touch, Drop, SetAddr, SetName, DelAddr,
     DelName, GetByHost,
       GetByIP, Stores

IsFile(s) ==
    /\ s = store[1] /\ s \in Stores /\ Kept(s)
    /\ \A p \in Pools : Key(p) = 1 /\ Store(p) = s /\ gen[p].offset \in Places

LEMMA InFile == PoolProofInv /\ persistent => IsFile(store[1])
  BY PoolNames DEF PoolProofInv, StoresKept, Key, Store, IsFile, PoolTypes,
     GenTypes, Gens

LEMMA AskStep ==
  ASSUME PoolProofInv, persistent, NEW q \in Pools,
         \/ \E h \in Hosts : LookupFinds(q, h) \/ LookupMisses(q, h)
         \/ \E a \in Places : LookBack(q, a)
  PROVE  FileWhole'
  <1> DEFINE s == store[1]
  <1>0. IsFile(s) /\ 1 \in Pools
    BY InFile, PoolNames
  <1>1. CASE (\E h \in Hosts : LookupFinds(q, h)) \/ (\E a \in Places : LookBack(q, a))
    <2>1. UNCHANGED <<persistent, gen, look, torn>>
      BY <1>1 DEF LookupFinds, LookBack, counts
    <2>2. CASE \E h \in Hosts : LookupFinds(q, h)
      <3>1. PICK h \in Hosts : store' = [store EXCEPT ![1] = GetByHost(s, h)]
        BY <1>0, <2>2 DEF LookupFinds, IsFile
      <3>2. 0 \in Places
        BY PoolAssumption DEF Places
      <3>3. GetByHost(s, h) = s
        BY <1>0, <3>2, FileMaps DEF IsFile
      <3> QED BY <2>1, <3>1, <3>3, Domains DEF PoolProofInv, FileWhole, OneAsks
    <2>3. CASE \E a \in Places : LookBack(q, a)
      <3>1. PICK a \in Places : s.host[a] # Absent
            /\ store' = [store EXCEPT ![1] = GetByIP(s, a)]
        BY <1>0, <2>3 DEF LookBack, IsFile
      <3>2. s.host[a] \in Hosts
        BY <1>0, <3>1 DEF IsFile, Stores
      <3>3. GetByIP(s, a) = s
        BY <1>0, <3>2, FileMaps DEF IsFile
      <3> QED BY <2>1, <3>1, <3>3, Domains DEF PoolProofInv, FileWhole, OneAsks
    <2> QED BY <1>1, <2>2, <2>3
  <1>2. ASSUME NEW h \in Hosts, LookupMisses(q, h), ~torn'[1] PROVE FileWhole'
    <2> DEFINE g == Advance(gen[q])
               to == IF MustDelete(q, g) THEN "del" ELSE "putIP"
    <2>1. /\ UNCHANGED <<persistent, store>> /\ ~torn[1] /\ ~LookedAt(1)
          /\ gen' = [gen EXCEPT ![q] = g]
          /\ look' = [look EXCEPT ![q] = [NoLookup EXCEPT !.at = to, !.host = h]]
      BY <1>0, <1>2, Domains DEF LookupMisses, Disturbed, counts, IsFile
    <2>2. g.offset # 0
      BY Advances DEF PoolProofInv, PoolTypes
    <2>3. to \in {"del", "putIP"} /\ (to = "putIP" => s.host[g.offset] = Absent)
      BY <1>0 DEF MustDelete, IsFile
    <2> HIDE DEF g, to
    <2>4. \A p \in Pools : look[p].at = "idle"
      BY <1>0, <2>1 DEF LookedAt, IsFile
    <2>5. /\ gen'[q] = g /\ look'[q].at = to
          /\ \A p \in Pools : p # q => look'[p].at = "idle"
      BY <2>1, <2>4, Domains DEF NoLookup
    <2>6. \A p \in Pools : Fits(s, gen'[p].offset, look'[p])
      BY <2>2, <2>3, <2>5 DEF Fits
    <2>7. OneAsks'
      BY <2>5 DEF OneAsks
    <2>8. FileLeads(s) /\ store'[1] = s
      BY <2>1 DEF PoolProofInv, FileWhole
    <2> QED BY <2>6, <2>7, <2>8 DEF FileWhole
  <1>3. ASSUME NEW h \in Hosts, LookupMisses(q, h), torn'[1] PROVE FileWhole'
    BY <1>3 DEF FileWhole
  <1> QED BY <1>1, <1>2, <1>3

(* A Lookup changes the file. *)
LEMMA WriteStep ==
  ASSUME PoolProofInv, persistent, NEW q \in Pools, DelByIP(q) \/ PutByIP(q) \/ PutByHost(q)
  PROVE  FileWhole'
  <1> DEFINE s == store[1]
             t == store'[1]
             a == gen[q].offset
             l == look[q]
             m == look'[q]
  <1>0. IsFile(s) /\ 1 \in Pools
    BY InFile, PoolNames
  <1>1. UNCHANGED <<persistent, gen, torn>> /\ l.at # "idle"
        /\ \A p \in Pools : p # q => look'[p] = look[p]
    BY Domains DEF DelByIP, PutByIP, PutByHost, Alters, counts
  <1>2. \/ l.at = "del" /\ m = [l EXCEPT !.at = "putIP"] /\ t = DelAddr(DelNameOf(s, a), a)
        \/ l.at = "putIP" /\ m = [l EXCEPT !.at = "putHost", !.addr = a]
           /\ t = SetAddr(s, a, l.host)
        \/ l.at = "putHost" /\ m = NoLookup /\ t = SetName(s, l.host, l.addr)
    BY <1>0, Domains DEF DelByIP, PutByIP, PutByHost, Alters, IsFile
  <1>3. /\ l.host \in Hosts /\ a \in Places
        /\ (l.at = "putHost" => l.addr \in Places)
        /\ l = [at |-> l.at, host |-> l.host, addr |-> l.addr]
    BY <1>0, <1>1 DEF IsFile, PoolProofInv, LookTypes
  <1>4. Kept(s) /\ s \in Stores /\ s.ip \in [Hosts -> Places \cup {Absent}]
        /\ s.host \in [Places -> Hosts \cup {Absent}]
    BY <1>0 DEF IsFile, Stores
  <1>5. ASSUME ~torn[1]
        PROVE  /\ FileLeads(s) /\ Fits(s, a, l)
               /\ \A p \in Pools : p # q => look[p].at = "idle"
    BY <1>1, <1>5 DEF PoolProofInv, FileWhole, OneAsks
  <1> HIDE DEF s, t, a, l, m
  <1>6. ASSUME ~torn[1] PROVE FileLeads(t) /\ Fits(t, a, m)
    <2>1. CASE l.at = "del" /\ m = [l EXCEPT !.at = "putIP"] /\ t = DelAddr(DelNameOf(s, a), a)
      <3>1. t.host = [s.host EXCEPT ![a] = Absent]
            /\ t.ip = IF s.host[a] = Absent THEN s.ip ELSE [s.ip EXCEPT ![s.host[a]] = Absent]
        <4>1. CASE s.host[a] = Absent
          <5>1. t = [s EXCEPT !.host = [s.host EXCEPT ![a] = Absent]]
            BY <1>3, <1>4, <2>1, <4>1, FileMaps DEF DelNameOf
          <5> QED BY <1>4, <4>1, <5>1 DEF Stores
        <4>2. CASE s.host[a] # Absent
          <5> DEFINE u == DelName(s, s.host[a])
          <5>1. s.host[a] \in Hosts
            BY <1>3, <1>4, <4>2
          <5>2. u = [s EXCEPT !.ip = [s.ip EXCEPT ![s.host[a]] = Absent]] /\ Kept(u)
            BY <1>3, <1>4, <5>1, FileMaps, DelKeeps
          <5>3. t = DelAddr(u, a)
            BY <2>1, <4>2 DEF DelNameOf
          <5> HIDE DEF u
          <5>4. t = [u EXCEPT !.host = [u.host EXCEPT ![a] = Absent]]
                /\ u \in Stores
            BY <1>3, <5>2, <5>3, FileMaps
          <5> QED BY <1>4, <4>2, <5>2, <5>4 DEF Stores
        <4> QED BY <4>1, <4>2
      <3>2. FileLeads(t)
        <4> SUFFICES ASSUME NEW h \in Hosts, t.ip[h] # Absent
                     PROVE  t.ip[h] # 0 /\ t.host[t.ip[h]] = h
          BY DEF FileLeads
        <4>1. t.ip[h] = s.ip[h] /\ s.ip[h] # Absent /\ s.ip[h] \in Places
          BY <1>4, <3>1
        <4>2. s.ip[h] # 0 /\ s.host[s.ip[h]] = h
          BY <1>5, <1>6, <4>1 DEF FileLeads
        <4>3. s.ip[h] # a
          BY <1>4, <3>1, <4>1, <4>2, AddrsAreNot
        <4> QED BY <1>4, <3>1, <4>1, <4>2, <4>3
      <3>3. m.at = "putIP" /\ a # 0 /\ t.host[a] = Absent
        BY <1>3, <1>4, <1>5, <1>6, <2>1, <3>1 DEF Fits
      <3> QED BY <3>2, <3>3 DEF Fits
    <2>2. CASE l.at = "putIP" /\ m = [l EXCEPT !.at = "putHost", !.addr = a]
               /\ t = SetAddr(s, a, l.host)
      <3>1. t = [s EXCEPT !.host = [s.host EXCEPT ![a] = l.host]]
        BY <1>3, <1>4, <2>2, FileMaps
      <3>2. t.ip = s.ip /\ t.host = [s.host EXCEPT ![a] = l.host]
        BY <1>4, <3>1 DEF Stores
      <3>3. s.host[a] = Absent /\ a # 0
        BY <1>5, <1>6, <2>2 DEF Fits
      <3>4. FileLeads(t)
        <4> SUFFICES ASSUME NEW h \in Hosts, s.ip[h] # Absent
                     PROVE  s.ip[h] # 0 /\ t.host[s.ip[h]] = h
          BY <3>2 DEF FileLeads
        <4>1. s.ip[h] # 0 /\ s.host[s.ip[h]] = h
          BY <1>5, <1>6 DEF FileLeads
        <4> QED BY <1>4, <3>2, <3>3, <4>1, AddrsAreNot
      <3>5. m.at = "putHost" /\ m.addr = a /\ m.host = l.host /\ t.host[a] = l.host
        BY <1>3, <1>4, <2>2, <3>2
      <3> QED BY <3>3, <3>4, <3>5 DEF Fits
    <2>3. CASE l.at = "putHost" /\ m = NoLookup /\ t = SetName(s, l.host, l.addr)
      <3>1. t = [s EXCEPT !.ip = [s.ip EXCEPT ![l.host] = l.addr]]
        BY <1>3, <1>4, <2>3, FileMaps
      <3>2. t.host = s.host /\ t.ip = [s.ip EXCEPT ![l.host] = l.addr]
        BY <1>4, <3>1 DEF Stores
      <3>3. l.addr # 0 /\ s.host[l.addr] = l.host
        BY <1>5, <1>6, <2>3 DEF Fits
      <3>4. FileLeads(t)
        BY <1>3, <1>4, <1>5, <1>6, <3>2, <3>3 DEF FileLeads
      <3> QED BY <2>3, <3>4 DEF Fits, NoLookup
    <2> QED BY <1>2, <2>1, <2>2, <2>3
  <1>7. ASSUME ~torn[1] PROVE OneAsks'
        /\ \A p \in Pools : Fits(t, gen[p].offset, look'[p])
    <2>1. \A p \in Pools : p # q => look'[p].at = "idle"
      BY <1>1, <1>5, <1>7
    <2>2. OneAsks'
      BY <2>1 DEF OneAsks
    <2> QED BY <1>6, <1>7, <2>1, <2>2 DEF Fits, m, a
  <1> QED BY <1>1, <1>6, <1>7 DEF FileWhole, t

(* A flush or a start leaves the file alone, or empties it with nobody       *)
(* asking; no Lookup that is under way gets another offset.                  *)
LEMMA FileKept ==
  ASSUME PoolProofInv, persistent, UNCHANGED persistent,
         \/ UNCHANGED <<store, torn>>
         \/ store' = [store EXCEPT ![1] = EmptyStore] /\ (~torn'[1] => ~LookedAt(1))
         \/ UNCHANGED store /\ (~torn'[1] => ~torn[1]),
         UNCHANGED look \/ look' = [p \in Pools |-> NoLookup],
         \A p \in Pools : gen'[p] = gen[p] \/ look[p].at = "idle" \/ torn'[1]
  PROVE  FileWhole'
  <1> SUFFICES ASSUME ~torn'[1]
               PROVE  OneAsks' /\ FileLeads(store'[1])
                      /\ \A p \in Pools : Fits(store'[1], gen'[p].offset, look'[p])
    BY DEF FileWhole
  <1>0. IsFile(store[1]) /\ 1 \in Pools
    BY InFile, PoolNames
  <1>1. CASE store' = [store EXCEPT ![1] = EmptyStore] /\ ~LookedAt(1)
    <2>1. store'[1] = EmptyStore
      BY <1>0, <1>1, Domains
    <2>2. \A p \in Pools : look'[p].at = "idle"
      BY <1>0, <1>1 DEF LookedAt, IsFile, NoLookup
    <2> QED BY <2>1, <2>2 DEF OneAsks, FileLeads, Fits, EmptyStore
  <1>2. CASE UNCHANGED store /\ ~torn[1]
    <2>1. /\ OneAsks /\ FileLeads(store[1])
          /\ \A p \in Pools : Fits(store[1], gen[p].offset, look[p])
      BY <1>2 DEF PoolProofInv, FileWhole
    <2>2. \A p \in Pools : look'[p] = look[p] \/ look'[p].at = "idle"
      BY DEF NoLookup
    <2>3. OneAsks'
      BY <2>1, <2>2 DEF OneAsks
    <2>4. ASSUME NEW p \in Pools PROVE Fits(store[1], gen'[p].offset, look'[p])
      <3>1. CASE look'[p].at = "idle"
        BY <3>1 DEF Fits
      <3>2. CASE look'[p].at # "idle"
        BY <2>1, <2>2, <3>2
      <3> QED BY <3>1, <3>2
    <2> QED BY <1>2, <2>1, <2>3, <2>4
  <1> QED BY <1>1, <1>2

LEMMA FileStep ==
  ASSUME PoolProofInv, [FakeNext]_poolVars
  PROVE  FileWhole'
  <1>0. UNCHANGED persistent
    BY Persists
  <1>1. CASE ~persistent
    BY <1>0, <1>1 DEF FileWhole
  <1>2. CASE persistent
    <2> USE <1>0, <1>2
    <2>0. IsFile(store[1]) /\ 1 \in Pools /\ copied = "none"
      BY InFile, PoolNames DEF PoolProofInv, PoolTypes, SetupTypes
    <2>1. CASE UNCHANGED <<gen, look, store, torn>>
      BY <2>1, FileKept
    <2>2. ASSUME NEW p \in Pools, FlushNames(p) \/ FlushAddrs(p) \/ FlushBucket(p) PROVE FileWhole'
      <3>1. FlushBucket(p)
        BY <2>2 DEF FlushNames, FlushAddrs, PoolProofInv, PoolTypes, FlushTypes
      <3>2. /\ store' = [store EXCEPT ![1] = EmptyStore] /\ UNCHANGED <<look, gen>>
            /\ (~torn'[1] => ~LookedAt(1))
        BY <2>0, <3>1, Domains DEF FlushBucket
      <3> QED BY <3>2, FileKept
    <2>3. ASSUME NEW p \in Pools, FlushOffset(p) PROVE FileWhole'
      <3>1. /\ UNCHANGED <<look, store>> /\ gen' = [gen EXCEPT ![p] = NewPool]
            /\ (~torn'[1] => ~torn[1] /\ look[p].at = "idle")
        BY <2>0, <2>3, Domains DEF FlushOffset, IsFile
      <3>2. \A q \in Pools : gen'[q] = gen[q] \/ look[q].at = "idle" \/ torn'[1]
        BY <3>1, Domains
      <3> QED BY <3>1, <3>2, FileKept
    <2>4. ASSUME NEW p \in Pools, New(p), UNCHANGED look, look[p].at = "idle" PROVE FileWhole'
      <3>1. \A q \in Pools : gen'[q] = gen[q] \/ look[q].at = "idle" \/ torn'[1]
        BY <2>4, Domains DEF New
      <3>2. CASE Orphaned
        <4>1. store' = [store EXCEPT ![1] = EmptyStore]
              /\ (~torn'[1] => ~LookedAt(1))
          BY <2>0, <2>4, <3>2, Domains DEF New
        <4> QED BY <2>4, <3>1, <4>1, FileKept
      <3>3. CASE ~Orphaned
        <4>1. UNCHANGED <<store, torn>>
          BY <2>4, <3>3 DEF New
        <4> QED BY <2>4, <3>1, <4>1, FileKept
      <3> QED BY <3>2, <3>3
    <2>5. CASE \E p \in Pools : Parse(p)
      BY <2>4, <2>5 DEF Parse
    <2>6. CASE NewFails \/ Switch
      BY <2>1, <2>6 DEF NewFails, Switch, Forget
    <2>7. ~CopyNames /\ ~CopyAddrs
      BY <2>0 DEF CopyNames, CopyAddrs
    <2>8. CASE Die
      <3>1. UNCHANGED <<store, torn, gen>> /\ look' = [p \in Pools |-> NoLookup]
        BY <2>8 DEF Die
      <3> QED BY <3>1, FileKept
    <2>9. CASE Start
      <3>1. live = Absent /\ New(1) /\ UNCHANGED look
        BY <2>9 DEF Start
      <3>2. look[1].at = "idle"
        BY <2>0, <3>1, PoolNames DEF PoolProofInv, OthersRest
      <3> QED BY <2>0, <2>4, <3>1, <3>2
    <2> QED BY <2>1, <2>2, <2>3, <2>5, <2>6, <2>7, <2>8, <2>9, AskStep, WriteStep
         DEF FakeNext, poolVars, StoreOffset, StoreCycle
  <1> QED BY <1>1, <1>2

-----------------------------------------------------------------------------
LEMMA PoolStep == PoolProofInv /\ [FakeNext]_poolVars => PoolProofInv'
  <1> SUFFICES ASSUME PoolProofInv, [FakeNext]_poolVars PROVE PoolProofInv'
    OBVIOUS
  <1>1. PoolTypes /\ LookTypes /\ StoresKept /\ OthersRest
    BY DEF PoolProofInv
  <1>2. PoolTypes'
    BY <1>1, SetupStep, GenStep, FlushStep, TornStep DEF PoolTypes
  <1>3. LookTypes' /\ StoresKept' /\ OthersRest'
    BY <1>1, LookStep, StoresStep, OthersStep
  <1>4. CachesWhole' /\ FileWhole'
    BY CachesStep, FileStep
  <1> QED BY <1>2, <1>3, <1>4 DEF PoolProofInv

LEMMA PoolInvFollows == PoolProofInv => PoolInv
  <1> SUFFICES ASSUME PoolProofInv PROVE PoolInv
    OBVIOUS
  <1>1. FakeTypeOK
    <2>1. \A p \in Pools : /\ store[p].ip \in [Hosts -> Places \cup {Absent}]
                          /\ store[p].host \in [Places -> Hosts \cup {Absent}]
                          /\ Len(store[p].names) <= Size
                          /\ Len(store[p].addrs) <= Size
      <3> TAKE p \in Pools
      <3>1. Kept(store[p]) /\ store[p] \in Stores
        BY DEF PoolProofInv, StoresKept
      <3>2. Len(<<>>) = 0 /\ 0 <= Size
        BY AddrsAreNot
      <3> QED BY <3>1, <3>2 DEF Kept, Stores
    <2>2. \A p \in Pools : gen[p].offset \in Places /\ flush[p] \in {"idle", "names", "offset"}
                          /\ look[p].at \in {"idle", "del", "delIP", "putIP", "putHost"}
      BY DEF PoolProofInv, PoolTypes, GenTypes, Gens, FlushTypes, LookTypes
    <2>3. /\ {live, next} \subseteq Pools \cup {Absent}
          /\ (next # Absent => next # live)
          /\ copied \in {"none", "names", "all"} /\ storing \in BOOLEAN
      BY DEF PoolProofInv, PoolTypes, SetupTypes
    <2> QED BY <2>1, <2>2, <2>3 DEF FakeTypeOK
  <1>2. ASSUME ~persistent, Rests(live)
        PROVE  /\ live \in Pools /\ Store(live) = store[live] /\ Caches(store[live])
    <2>1. live \in Pools /\ IsMemory(live)
      BY <1>2, InMemory
    <2>2. ~torn[live] /\ look[live].at = "idle" /\ flush[live] = "idle"
      BY <1>2, <2>1 DEF Rests, LookedAt, IsMemory
    <2>3. Zipped(store[live])
      BY <1>2, <2>1, <2>2 DEF PoolProofInv, CachesWhole, Whole, WholeOf
    <2> QED BY <2>1, <2>3 DEF IsMemory
  <1>3. LeadsBack
    <2> SUFFICES ASSUME live # Absent, Rests(live), NEW h \in Hosts, Store(live).ip[h] # Absent
                 PROVE  /\ Store(live).ip[h] # 0
                        /\ Store(live).host[Store(live).ip[h]] = h
      BY DEF LeadsBack
    <2>1. CASE persistent
      <3>1. live \in Pools /\ IsFile(store[1])
        BY <2>1, InFile DEF PoolProofInv, PoolTypes, SetupTypes
      <3>2. ~torn[1] /\ Store(live) = store[1]
        BY <3>1 DEF Rests, IsFile
      <3> QED BY <2>1, <3>2 DEF PoolProofInv, FileWhole, FileLeads
    <2>2. CASE ~persistent
      <3> DEFINE s == store[live]
      <3>1. Caches(s) /\ Store(live) = s
        BY <1>2, <2>2
      <3> HIDE DEF s
      <3>2. PICK i \in 1 .. Len(s.names) : s.names[i] = h
        BY <3>1, CacheParts
      <3>3. s.addrs[i] # 0 /\ s.ip[h] = s.addrs[i] /\ s.host[s.addrs[i]] = h
        BY <3>1, <3>2, CacheParts
      <3> QED BY <3>1, <3>3
    <2> QED BY <2>1, <2>2
  <1>4. CachesAgree
    <2> SUFFICES ASSUME ~persistent, Rests(live)
                 PROVE  Store(live).names
                          = [i \in DOMAIN Store(live).addrs |->
                               Store(live).host[Store(live).addrs[i]]]
      BY DEF CachesAgree
    <2> DEFINE s == store[live]
    <2>1. Caches(s) /\ Store(live) = s
      BY <1>2
    <2> HIDE DEF s
    <2>2. /\ s.names \in Seq(Hosts) /\ s.addrs \in Seq(Places)
          /\ Len(s.addrs) = Len(s.names)
          /\ \A i \in 1 .. Len(s.names) : s.host[s.addrs[i]] = s.names[i]
      BY <2>1, CacheParts
    <2>3. DOMAIN s.names = 1 .. Len(s.names) /\ DOMAIN s.addrs = 1 .. Len(s.names)
          /\ s.names = [i \in DOMAIN s.names |-> s.names[i]]
      BY <2>2
    <2> QED BY <2>1, <2>2, <2>3
  <1> QED BY <1>1, <1>3, <1>4 DEF PoolInv

(* Through any number of addresses given again, of full caches, of flushes,  *)
(* reloads and deaths, an address that a name has leads back to that name in *)
(* a pool at rest, and the two caches in memory evict the same pairs.        *)
THEOREM PoolInvHolds == FakeSpec => []PoolInv
  BY PoolInit, PoolStep, PoolInvFollows, PTL DEF FakeSpec
=============================================================================
