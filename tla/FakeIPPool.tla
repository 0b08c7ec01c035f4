----------------------------- MODULE FakeIPPool -----------------------------
(* The pool of fake addresses of the proxy core                              *)
(* (Clash.Meta/component/fakeip, cachefile/fakeip.go, dns/enhancer.go,       *)
(* common/lru).  A name that is asked for gets the next address of a range,  *)
(* and a connection to the address is led back to the name.  The two         *)
(* directions are two maps: LRU caches in memory, or one bucket of the cache *)
(* file, which outlives the process.                                         *)
(*                                                                           *)
(* A pool's mutex is held by Lookup and LookBack, but neither by a flush nor *)
(* by the copy into the pool of a new configuration: an action is a change   *)
(* of one map, or a transaction of the file.  LookBack is one step.          *)
EXTENDS Integers, Sequences, FiniteSets, SequencesExt

CONSTANTS
    Hosts, Absent,
    LastAddr,     \* addresses 1 .. LastAddr; 0 is the one before the first
    Size,         \* entries of each LRU cache
    MaxReloads, MaxDeaths

ASSUME PoolAssumption ==
    /\ {LastAddr, Size} \subseteq Nat \ {0} /\ {MaxReloads, MaxDeaths} \subseteq Nat
    /\ Absent \notin Hosts \cup Nat

Places == 0 .. LastAddr
Pools == {1, 2}

VARIABLES
    persistent,
    live,     \* the pool of the present configuration, Absent in no process
    next,     \* the pool of a configuration being set up, or Absent
    copied,   \* what the new pool has of the old one: "none", "names", "all"
    gen,      \* of each pool: [offset, cycle]
    look,     \* of each pool: the Lookup that holds its mutex
    flush,    \* of each pool: where a FlushFakeIP is
    storing,  \* is StoreState between its two keys?
    store,    \* of each pool, or in the place of pool 1 the file: both maps
    saved,    \* the keys of StoreState in the file
    torn,     \* history: for each store, whether a Lookup and a flush, a copy
              \* or a Lookup of another pool have run in between each other
    reloads, deaths

counts == <<persistent, reloads, deaths>>
setup == <<live, next, copied>>
poolVars == <<counts, setup, gen, look, flush, storing, store, saved, torn>>

(* cacheIP and cacheHost, and their keys from the least to the most recent. *)
EmptyStore == [ip |-> [h \in Hosts |-> Absent], host |-> [a \in Places |-> Absent],
               names |-> <<>>, addrs |-> <<>>]
NoLookup == [at |-> "idle", host |-> Absent, addr |-> Absent]
NewPool == [offset |-> 0, cycle |-> FALSE]
NoState == [offset |-> Absent, cycle |-> FALSE]

Key(p) == IF persistent THEN 1 ELSE p
Store(p) == store[Key(p)]

FakeTypeOK ==
    /\ {live, next} \subseteq Pools \cup {Absent} /\ (next # Absent => next # live)
    /\ copied \in {"none", "names", "all"} /\ storing \in BOOLEAN
    /\ \A p \in Pools :
          /\ gen[p].offset \in Places
          /\ look[p].at \in {"idle", "del", "delIP", "putIP", "putHost"}
          /\ flush[p] \in {"idle", "names", "offset"}
          /\ store[p].ip \in [Hosts -> Places \cup {Absent}]
          /\ store[p].host \in [Places -> Hosts \cup {Absent}]
          /\ Len(store[p].names) <= Size /\ Len(store[p].addrs) <= Size

FakeInit ==
    /\ persistent \in BOOLEAN
    /\ live = 1 /\ next = Absent /\ copied = "none"
    /\ gen = [p \in Pools |-> NewPool]
    /\ look = [p \in Pools |-> NoLookup] /\ flush = [p \in Pools |-> "idle"]
    /\ storing = FALSE
    /\ store = [p \in Pools |-> EmptyStore] /\ saved = NoState
    /\ torn = [p \in Pools |-> FALSE] /\ reloads = 0 /\ deaths = 0

-----------------------------------------------------------------------------
(* The maps.  The file has no order and no limit. *)
Touch(order, x) ==
    IF persistent THEN order ELSE Append(RemoveFirst(order, x), x)
Drop(order, x) == RemoveFirst(order, x)

SetName(s, h, a) ==
    LET order == Touch(s.names, h)
        new == [s EXCEPT !.ip[h] = a, !.names = order]
    IN IF Len(order) <= Size THEN new
       ELSE [new EXCEPT !.ip[Head(order)] = Absent, !.names = Tail(order)]

SetAddr(s, a, h) ==
    LET order == Touch(s.addrs, a)
        new == [s EXCEPT !.host[a] = h, !.addrs = order]
    IN IF Len(order) <= Size THEN new
       ELSE [new EXCEPT !.host[Head(order)] = Absent, !.addrs = Tail(order)]

DelName(s, h) == [s EXCEPT !.ip[h] = Absent, !.names = Drop(@, h)]
DelAddr(s, a) == [s EXCEPT !.host[a] = Absent, !.addrs = Drop(@, a)]
DelNameOf(s, a) == IF s.host[a] = Absent THEN s ELSE DelName(s, s.host[a])

(* A hit makes the entries of both directions the most recent. *)
GetByHost(s, h) ==
    LET a == s.ip[h] IN
    [s EXCEPT !.names = Touch(@, h),
              !.addrs = IF s.host[a] = Absent THEN @ ELSE Touch(@, a)]

GetByIP(s, a) ==
    LET h == s.host[a] IN
    [s EXCEPT !.addrs = Touch(@, a),
              !.names = IF s.ip[h] = Absent THEN @ ELSE Touch(@, h)]

-----------------------------------------------------------------------------
(* Another pool's Lookup under way in the same maps, or a flush of them that *)
(* is half done.                                                             *)
LookedAt(k) == \E p \in Pools : Key(p) = k /\ look[p].at # "idle"
Disturbed(p) == LookedAt(Key(p)) \/ flush[p] = "names"

Advance(g) ==
    IF g.offset >= LastAddr THEN [offset |-> 1, cycle |-> TRUE]
    ELSE [g EXCEPT !.offset = @ + 1]

(* Mutant: an address is taken from its host in a second round only. *)
MustDeleteInCycle(p, g) == g.cycle

MustDelete(p, g) == g.cycle \/ Store(p).host[g.offset] # Absent

LookupFinds(p, h) ==
    /\ p = live /\ look[p].at = "idle" /\ Store(p).ip[h] # Absent
    /\ store' = [store EXCEPT ![Key(p)] = GetByHost(@, h)]
    /\ UNCHANGED <<counts, setup, gen, look, flush, storing, saved, torn>>

LookupMisses(p, h) ==
    LET g == Advance(gen[p]) IN
    /\ p = live /\ look[p].at = "idle" /\ Store(p).ip[h] = Absent
    /\ gen' = [gen EXCEPT ![p] = g]
    /\ look' = [look EXCEPT ![p] =
          [NoLookup EXCEPT !.at = IF MustDelete(p, g) THEN "del" ELSE "putIP",
                           !.host = h]]
    /\ torn' = [torn EXCEPT ![Key(p)] = @ \/ Disturbed(p)]
    /\ UNCHANGED <<counts, setup, flush, storing, store, saved>>

(* A change by a Lookup that goes on.  The offset is read each time: a    *)
(* flush may have put it back meanwhile.                                     *)
Alters(p, from, s, to) ==
    /\ look[p].at = from /\ look' = [look EXCEPT ![p] = to]
    /\ store' = [store EXCEPT ![Key(p)] = s]
    /\ UNCHANGED <<counts, setup, gen, flush, storing, saved, torn>>

(* Two caches, or one transaction. *)
DelByIP(p) ==
    LET a == gen[p].offset
        goes(at) == [look[p] EXCEPT !.at = at]
        named == DelNameOf(Store(p), a)
    IN \/ ~persistent /\ Alters(p, "del", named, goes("delIP"))
       \/ ~persistent /\ Alters(p, "delIP", DelAddr(Store(p), a), goes("putIP"))
       \/ persistent /\ Alters(p, "del", DelAddr(named, a), goes("putIP"))

PutByIP(p) ==
    LET a == gen[p].offset IN
    Alters(p, "putIP", SetAddr(Store(p), a, look[p].host),
           [look[p] EXCEPT !.at = "putHost", !.addr = a])

PutByHost(p) ==
    Alters(p, "putHost", SetName(Store(p), look[p].host, look[p].addr), NoLookup)

LookBack(p, a) ==
    /\ p = live /\ look[p].at = "idle" /\ Store(p).host[a] # Absent
    /\ store' = [store EXCEPT ![Key(p)] = GetByIP(@, a)]
    /\ UNCHANGED <<counts, setup, gen, look, flush, storing, saved, torn>>

-----------------------------------------------------------------------------
(* FlushFakeIP: the maps, then the offset. *)
FlushNames(p) ==
    /\ ~persistent /\ p = live /\ flush[p] = "idle"
    /\ store' = [store EXCEPT ![p].ip = EmptyStore.ip, ![p].names = <<>>]
    /\ flush' = [flush EXCEPT ![p] = "names"]
    /\ torn' = [torn EXCEPT ![p] = LookedAt(p)]
    /\ UNCHANGED <<counts, setup, gen, look, storing, saved>>

FlushAddrs(p) ==
    /\ flush[p] = "names"
    /\ store' = [store EXCEPT ![p].host = EmptyStore.host, ![p].addrs = <<>>]
    /\ flush' = [flush EXCEPT ![p] = "offset"]
    /\ UNCHANGED <<counts, setup, gen, look, storing, saved, torn>>

(* The bucket is deleted, with the keys of StoreState. *)
FlushBucket(p) ==
    /\ persistent /\ p = live /\ flush[p] = "idle"
    /\ store' = [store EXCEPT ![1] = EmptyStore] /\ saved' = NoState
    /\ flush' = [flush EXCEPT ![p] = "offset"]
    /\ torn' = [torn EXCEPT ![1] = LookedAt(1)]
    /\ UNCHANGED <<counts, setup, gen, look, storing>>

FlushOffset(p) ==
    /\ flush[p] = "offset"
    /\ gen' = [gen EXCEPT ![p] = NewPool]
    /\ flush' = [flush EXCEPT ![p] = "idle"]
    /\ torn' = [torn EXCEPT ![Key(p)] = @ \/ look[p].at # "idle"]
    /\ UNCHANGED <<counts, setup, look, storing, store, saved>>

-----------------------------------------------------------------------------
(* New, with restoreState: the pool goes on where StoreState left it.  A     *)
(* file with addresses and without that state is flushed.                    *)
Restored ==
    IF persistent /\ saved.offset # Absent THEN saved
    ELSE [NewPool EXCEPT !.cycle = persistent /\ saved.cycle]

Orphaned == persistent /\ saved.offset = Absent /\ store[1].host[1] # Absent

New(p) ==
    /\ gen' = [gen EXCEPT ![p] = IF Orphaned THEN NewPool ELSE Restored]
    /\ IF Orphaned
       THEN /\ store' = [store EXCEPT ![1] = EmptyStore] /\ saved' = NoState
            /\ torn' = [torn EXCEPT ![1] = LookedAt(1)]
       ELSE /\ store' = IF persistent THEN store
                        ELSE [store EXCEPT ![p] = EmptyStore]
            /\ torn' = IF persistent THEN torn ELSE [torn EXCEPT ![p] = FALSE]
            /\ UNCHANGED saved

(* A pool that nobody can ask any more.  In memory a Lookup that still runs  *)
(* changes what nobody sees; in the file it goes on.                         *)
Forget(p) ==
    IF persistent THEN UNCHANGED <<gen, look, flush, store, torn>>
    ELSE /\ gen' = [gen EXCEPT ![p] = NewPool]
         /\ look' = [look EXCEPT ![p] = NoLookup]
         /\ flush' = [flush EXCEPT ![p] = "idle"]
         /\ store' = [store EXCEPT ![p] = EmptyStore]
         /\ torn' = [torn EXCEPT ![p] = FALSE]

(* A configuration is parsed while the old one is live, ... *)
Parse(p) ==
    /\ live # Absent /\ p # live /\ next = Absent /\ reloads < MaxReloads
    /\ look[p].at = "idle" /\ flush[p] = "idle"
    /\ next' = p /\ reloads' = reloads + 1 /\ New(p)
    /\ UNCHANGED <<persistent, deaths, live, copied, look, flush, storing>>

NewFails ==
    /\ next # Absent /\ copied = "none" /\ next' = Absent /\ Forget(next)
    /\ UNCHANGED <<counts, live, copied, storing, saved>>

(* ... the caches in memory are copied one after the other (CloneTo), ... *)
CopyNames ==
    /\ ~persistent /\ next # Absent /\ copied = "none" /\ copied' = "names"
    /\ store' = [store EXCEPT ![next].ip = store[live].ip,
                              ![next].names = store[live].names]
    /\ torn' = [torn EXCEPT ![next] = LookedAt(live) \/ flush[live] = "names"]
    /\ UNCHANGED <<counts, live, next, gen, look, flush, storing, saved>>

CopyAddrs ==
    /\ copied = "names" /\ copied' = "all"
    /\ store' = [store EXCEPT ![next].host = store[live].host,
                              ![next].addrs = store[live].addrs]
    /\ torn' = [torn EXCEPT ![next] =
          @ \/ torn[live] \/ LookedAt(live) \/ flush[live] = "names"
            \/ store[next].names # store[live].names \/ store[next].ip # store[live].ip]
    /\ UNCHANGED <<counts, live, next, gen, look, flush, storing, saved>>

(* ... and the pool is the live one. *)
Switch ==
    /\ next # Absent /\ copied = (IF persistent THEN "none" ELSE "all")
    /\ live' = next /\ next' = Absent /\ copied' = "none" /\ Forget(live)
    /\ UNCHANGED <<counts, storing, saved>>

-----------------------------------------------------------------------------
(* StoreState of an orderly end, in two transactions; the end of the process *)
(* at any moment; its next start.                                            *)
StoreOffset ==
    /\ persistent /\ live # Absent /\ ~storing /\ storing' = TRUE
    /\ saved' = [saved EXCEPT !.offset = gen[live].offset]
    /\ UNCHANGED <<counts, setup, gen, look, flush, store, torn>>

StoreCycle ==
    /\ live # Absent /\ storing /\ storing' = FALSE
    /\ saved' = [saved EXCEPT !.cycle = @ \/ gen[live].cycle]
    /\ UNCHANGED <<counts, setup, gen, look, flush, store, torn>>

Die ==
    /\ persistent /\ live # Absent /\ deaths < MaxDeaths
    /\ live' = Absent /\ next' = Absent /\ deaths' = deaths + 1
    /\ look' = [p \in Pools |-> NoLookup] /\ flush' = [p \in Pools |-> "idle"]
    /\ storing' = FALSE
    /\ UNCHANGED <<persistent, reloads, copied, gen, store, saved, torn>>

Start ==
    /\ live = Absent /\ live' = 1 /\ New(1)
    /\ UNCHANGED <<counts, next, copied, look, flush, storing>>

-----------------------------------------------------------------------------
FakeNext ==
    \/ \E p \in Pools :
          \/ \E h \in Hosts : LookupFinds(p, h) \/ LookupMisses(p, h)
          \/ \E a \in Places : LookBack(p, a)
          \/ DelByIP(p) \/ PutByIP(p) \/ PutByHost(p)
          \/ FlushNames(p) \/ FlushAddrs(p) \/ FlushBucket(p) \/ FlushOffset(p)
          \/ Parse(p)
    \/ NewFails \/ CopyNames \/ CopyAddrs \/ Switch
    \/ StoreOffset \/ StoreCycle \/ Die \/ Start

FakeSpec == FakeInit /\ [][FakeNext]_poolVars

-----------------------------------------------------------------------------
Rests(p) == ~torn[Key(p)] /\ ~LookedAt(Key(p)) /\ flush[p] = "idle"

(* The address that a name has leads back to the name, through full caches,  *)
(* reuse of addresses, reloads, deaths of the process between two writes and *)
(* restarts with an old offset: a connection goes to no other name.  It is   *)
(* so unless a flush or a reload has met a Lookup halfway (torn).            *)
LeadsBack ==
    live # Absent /\ Rests(live) =>
        LET s == Store(live) IN
        \A h \in Hosts : s.ip[h] # Absent =>
            s.ip[h] # 0 /\ s.host[s.ip[h]] = h

(* The two caches evict the same pairs: each lists its keys in the order of  *)
(* the other.                                                                *)
CachesAgree ==
    ~persistent /\ Rests(live) =>
        LET s == Store(live) IN
        s.names = [i \in DOMAIN s.addrs |-> s.host[s.addrs[i]]]

(* The pool keeps its types and its bounds, every pair leads back, and the   *)
(* two directions of the memory store agree on what they evict.              *)
PoolInv == FakeTypeOK /\ LeadsBack /\ CachesAgree
=============================================================================
