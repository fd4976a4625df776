----------------------------- MODULE DnsProofs -----------------------------
(***************************************************************************)
(* Proofs about Dns, for every set of users and zones, TTL and bound.      *)
(*                                                                         *)
(* The argument: the map gives a zone one cache for good, every zoneNode   *)
(* of the zone points to it, and its content only moves forward, as what a *)
(* call brings is never older than what the cache has when the call ends;  *)
(* so what a user has read is never ahead of what the next get() returns.  *)
(***************************************************************************)
EXTENDS Dns, TLAPS

\* A cache whose data are in D.
CacheOf(D) == [data : D, fetched : Nat, asked : Nat, answer : SUBSET D]

ZoneList == [listed : SUBSET Zones, at : Nat]
Node == [zone : Zones, at : Nat, failed : BOOLEAN, cache : Nat]
Name == [node : Node, until : Nat]
Set == [version : Nat, zone : Zones, before : Nat]
HeapNode == [zone : Zones, cache : CacheOf(Nat)]

Typed ==
  /\ now \in Nat /\ now # 0
  /\ remote \in [Zones -> Nat]
  /\ deleted \subseteq Zones
  /\ recordCaches \in [Zones -> 0..Len(heap)]
  /\ dentry \in [Zones -> Name \cup {NoName}]
  /\ inside \in [Users -> Node \cup {NoNode}]
  /\ held \in [Users -> Set \cup {NoSet}]
  /\ seen \in [Users -> [Zones -> Nat]]

\* The zones that a cache lists are what the API had FetchMax before its stamp
\* or later.
ZonesOK(c) ==
  /\ c \in CacheOf(ZoneList)
  /\ c.fetched <= now /\ c.fetched - c.data.at <= FetchMax
  /\ Locked(c) => c.asked <= now /\ now - c.asked <= FetchMax
  /\ \A d \in c.answer : Locked(c) /\ c.asked <= d.at

\* The cache of a zone's record sets holds no more than the API has had, and
\* an answer on its way is not older than what the cache holds.
RecordsOK(z, c) ==
  /\ c.fetched <= now /\ c.data <= remote[z]
  /\ \A d \in c.answer : c.data <= d /\ d <= remote[z]

HeapOK ==
  /\ heap \in Seq(HeapNode)
  /\ \A c \in 1..Len(heap) : RecordsOK(heap[c].zone, heap[c].cache)

\* Each cache belongs to one zone, and is the one that the map has for it.
OneCachePerZone ==
  /\ \A z \in Zones : recordCaches[z] # NoCache => heap[recordCaches[z]].zone = z
  /\ \A c \in 1..Len(heap) : recordCaches[heap[c].zone] = c

Shares(node) == recordCaches[node.zone] # NoCache /\ node.cache = recordCaches[node.zone]

\* Every zoneNode in use has the cache of its zone.
NodesShare ==
  /\ \A u \in Users : inside[u] # NoNode => Shares(inside[u])
  /\ \A z \in Zones : dentry[z] # NoName => Shares(dentry[z].node)

\* What was read of a zone is in its cache, or older.
SeenStored ==
  \A u \in Users, z \in Zones :
    IF recordCaches[z] = NoCache THEN seen[u][z] = 0
    ELSE seen[u][z] <= heap[recordCaches[z]].cache.data

\* A name that the kernel knows has not timed out; its node is as old as the
\* listing that it comes from allows.
NameRecent(n) ==
  now <= n.until /\ (n.node.failed \/ n.until - n.node.at < 2 * TTL + FetchMax)
NamesRecent == \A z \in Zones : dentry[z] # NoName => NameRecent(dentry[z])

\* A record set's directory shows nothing older than its user had read before.
HeldKeeps == \A u \in Users : held[u] # NoSet => held[u].version >= held[u].before

IInv ==
  /\ Typed /\ ZonesOK(zones) /\ HeapOK /\ OneCachePerZone
  /\ NodesShare /\ SeenStored /\ NamesRecent /\ HeldKeeps

USE TTLAssumption, FetchMaxAssumption, BoundsAssumption DEF NoCache

-----------------------------------------------------------------------------
(* Lemmas about values *)

LEMMA Sentinels == NoNode \notin Node /\ NoName \notin Name /\ NoSet \notin Set
<1>1. NoNode \notin Node  BY DEF NoNode, Node
<1>2. NoName \notin Name  BY <1>1 DEF NoName, Name
<1>3. NoSet \notin Set  BY DEF NoSet, Set
<1> QED  BY <1>1, <1>2, <1>3

\* The i-th element of a sequence, and a sequence with another i-th element.
LEMMA Element ==
  ASSUME NEW S, NEW q \in Seq(S), NEW i \in 1..Len(q)
  PROVE  q[i] \in S
  OBVIOUS

LEMMA Replaced ==
  ASSUME NEW S, NEW q \in Seq(S), NEW i \in 1..Len(q), NEW x \in S
  PROVE  /\ [q EXCEPT ![i] = x] \in Seq(S) /\ Len([q EXCEPT ![i] = x]) = Len(q)
         /\ \A j \in 1..Len(q) : [q EXCEPT ![i] = x][j] = IF j = i THEN x ELSE q[j]
  OBVIOUS

\* What the steps of a get() change in a cache.
LEMMA LockSteps ==
  ASSUME NEW D, NEW c \in CacheOf(D), now \in Nat
  PROVE  /\ Asking(c) \in CacheOf(D)
         /\ Asking(c).data = c.data /\ Asking(c).fetched = c.fetched
         /\ Asking(c).asked = now /\ Asking(c).answer = c.answer
         /\ Unlocked(c) \in CacheOf(D)
         /\ Unlocked(c).data = c.data /\ Unlocked(c).fetched = c.fetched
         /\ Unlocked(c).asked = 0 /\ Unlocked(c).answer = {}
<1>1. /\ Asking(c) \in CacheOf(D)
      /\ Asking(c).data = c.data /\ Asking(c).fetched = c.fetched
      /\ Asking(c).asked = now /\ Asking(c).answer = c.answer
  BY DEF Asking, CacheOf
<1>2. /\ Unlocked(c) \in CacheOf(D)
      /\ Unlocked(c).data = c.data /\ Unlocked(c).fetched = c.fetched
      /\ Unlocked(c).asked = 0 /\ Unlocked(c).answer = {}
  BY DEF Unlocked, CacheOf
<1> QED  BY <1>1, <1>2

LEMMA DataSteps ==
  ASSUME NEW D, NEW c \in CacheOf(D), NEW d \in D, now \in Nat
  PROVE  /\ Answered(c, d) \in CacheOf(D)
         /\ Answered(c, d).data = c.data /\ Answered(c, d).fetched = c.fetched
         /\ Answered(c, d).asked = c.asked /\ Answered(c, d).answer = {d}
         /\ Stored(c, d) \in CacheOf(D)
         /\ Stored(c, d).data = d /\ Stored(c, d).fetched = now
         /\ Stored(c, d).asked = 0 /\ Stored(c, d).answer = {}
<1>1. /\ Answered(c, d) \in CacheOf(D)
      /\ Answered(c, d).data = c.data /\ Answered(c, d).fetched = c.fetched
      /\ Answered(c, d).asked = c.asked /\ Answered(c, d).answer = {d}
  BY DEF Answered, CacheOf
<1>2. /\ Stored(c, d) \in CacheOf(D)
      /\ Stored(c, d).data = d /\ Stored(c, d).fetched = now
      /\ Stored(c, d).asked = 0 /\ Stored(c, d).answer = {}
  BY DEF Stored, NewCache, CacheOf
<1> QED  BY <1>1, <1>2

\* What a get() returns: the fresh data, the answer of its call, or, when that
\* has failed, the data as they were.
Hit(c, g) == ~Locked(c) /\ g.cache = c /\ g.failed = FALSE /\ now - c.fetched < TTL
Miss(c, g) ==
  /\ Locked(c) /\ g.failed = FALSE /\ g.cache.data \in c.answer
  /\ g.cache.fetched = now /\ g.cache.asked = 0 /\ g.cache.answer = {}
Failure(c, g) ==
  /\ Locked(c) /\ g.failed = TRUE /\ g.cache.data = c.data
  /\ g.cache.fetched = c.fetched /\ g.cache.asked = 0 /\ g.cache.answer = {}

LEMMA GetReturns ==
  ASSUME NEW D, NEW c \in CacheOf(D), now \in Nat, NEW g \in Returns(c)
  PROVE  /\ g.cache \in CacheOf(D)
         /\ Hit(c, g) \/ Miss(c, g) \/ Failure(c, g)
<1>1. CASE ~Locked(c)
  <2>1. g = Returned(c, FALSE) /\ Fresh(c)  BY <1>1 DEF Returns
  <2>2. g.cache = c /\ g.failed = FALSE  BY <2>1 DEF Returned
  <2> QED  BY <1>1, <2>1, <2>2 DEF Hit, Fresh
<1>2. ASSUME Locked(c), NEW d \in c.answer, g = Returned(Stored(c, d), FALSE)
      PROVE  g.cache \in CacheOf(D) /\ Miss(c, g)
  <2>1. g.cache = Stored(c, d) /\ g.failed = FALSE  BY <1>2 DEF Returned
  <2>2. d \in D  BY <1>2 DEF CacheOf
  <2>3. /\ Stored(c, d) \in CacheOf(D)
        /\ Stored(c, d).data = d /\ Stored(c, d).fetched = now
        /\ Stored(c, d).asked = 0 /\ Stored(c, d).answer = {}
    BY <2>2, DataSteps
  <2> QED  BY <1>2, <2>1, <2>3 DEF Miss
<1>3. ASSUME Locked(c), g = Returned(Unlocked(c), TRUE)
      PROVE  g.cache \in CacheOf(D) /\ Failure(c, g)
  <2>1. g.cache = Unlocked(c) /\ g.failed = TRUE  BY <1>3 DEF Returned
  <2>2. /\ Unlocked(c) \in CacheOf(D)
        /\ Unlocked(c).data = c.data /\ Unlocked(c).fetched = c.fetched
        /\ Unlocked(c).asked = 0 /\ Unlocked(c).answer = {}
    BY LockSteps
  <2> QED  BY <1>3, <2>1, <2>2 DEF Failure
<1>4. CASE Locked(c)
  <2>1. (\E d \in c.answer : g = Returned(Stored(c, d), FALSE)) \/ g = Returned(Unlocked(c), TRUE)
    BY <1>4 DEF Returns
  <2> QED  BY <1>2, <1>3, <1>4, <2>1
<1> QED  BY <1>1, <1>4

-----------------------------------------------------------------------------
(* The zones' cache *)

LEMMA ZonesCalls ==
  ASSUME now \in Nat, now # 0, NEW c, ZonesOK(c)
  PROVE  /\ Expired(c) => ZonesOK(Asking(c))
         /\ \A l \in SUBSET Zones :
              Waiting(c) => ZonesOK(Answered(c, [listed |-> l, at |-> now]))
<1>1. c \in CacheOf(ZoneList) /\ c.data \in ZoneList  BY DEF ZonesOK, CacheOf
<1>2. ASSUME Expired(c)  PROVE ZonesOK(Asking(c))
  <2>1. /\ Asking(c) \in CacheOf(ZoneList)
        /\ Asking(c).data = c.data /\ Asking(c).fetched = c.fetched
        /\ Asking(c).asked = now /\ Asking(c).answer = c.answer
    BY <1>1, LockSteps
  <2>2. c.answer = {}  BY <1>2 DEF Expired, ZonesOK
  <2> QED  BY <2>1, <2>2 DEF ZonesOK
<1>3. ASSUME NEW l \in SUBSET Zones, Waiting(c)
      PROVE  ZonesOK(Answered(c, [listed |-> l, at |-> now]))
  <2> DEFINE d == [listed |-> l, at |-> now]
  <2>1. d \in ZoneList /\ d.at = now  BY DEF ZoneList
  <2> HIDE DEF d
  <2>2. /\ Answered(c, d) \in CacheOf(ZoneList)
        /\ Answered(c, d).data = c.data /\ Answered(c, d).fetched = c.fetched
        /\ Answered(c, d).asked = c.asked /\ Answered(c, d).answer = {d}
    BY <1>1, <2>1 DEF Answered, CacheOf
  <2>3. Locked(c) /\ c.asked <= now  BY <1>3 DEF Waiting, ZonesOK
  <2>4. ZonesOK(Answered(c, d))  BY <2>1, <2>2, <2>3 DEF ZonesOK, Locked
  <2> QED  BY <2>4 DEF d
<1> QED  BY <1>2, <1>3

\* The listing that a get() returns without an error: what the API had less
\* than TTL + FetchMax before.
LEMMA ZonesReturns ==
  ASSUME now \in Nat, NEW c, ZonesOK(c), NEW g \in Returns(c)
  PROVE  /\ ZonesOK(g.cache) /\ g.cache.data \in ZoneList /\ g.failed \in BOOLEAN
         /\ g.failed \/ now - g.cache.data.at < TTL + FetchMax
<1>1. c \in CacheOf(ZoneList)  BY DEF ZonesOK
<1>2. g.cache \in CacheOf(ZoneList) /\ (Hit(c, g) \/ Miss(c, g) \/ Failure(c, g))
  BY <1>1, GetReturns
<1>3. /\ g.cache.data \in ZoneList /\ g.cache.data.at \in Nat /\ g.cache.fetched \in Nat
      /\ c.fetched \in Nat /\ c.data.at \in Nat /\ c.asked \in Nat
      /\ \A d \in c.answer : d.at \in Nat
  BY <1>1, <1>2 DEF CacheOf, ZoneList
<1>4. CASE Hit(c, g)
  <2>1. now - c.data.at < TTL + FetchMax  BY <1>3, <1>4 DEF Hit, ZonesOK
  <2> QED  BY <1>3, <1>4, <2>1 DEF Hit
<1>5. CASE Miss(c, g)
  <2>1. now - g.cache.data.at <= FetchMax  BY <1>3, <1>5 DEF Miss, ZonesOK
  <2>2. ZonesOK(g.cache)  BY <1>2, <1>5, <2>1 DEF Miss, ZonesOK, Locked
  <2>3. now - g.cache.data.at < TTL + FetchMax  BY <1>3, <2>1
  <2> QED  BY <1>3, <1>5, <2>2, <2>3 DEF Miss
<1>6. CASE Failure(c, g)
  <2>1. ZonesOK(g.cache)  BY <1>2, <1>6 DEF Failure, ZonesOK, Locked
  <2> QED  BY <1>3, <1>6, <2>1 DEF Failure
<1> QED  BY <1>2, <1>4, <1>5, <1>6

-----------------------------------------------------------------------------
(* The records' caches *)

\* What every reachable state has of the cache at c.
LEMMA HeapElement ==
  ASSUME HeapOK, NEW c \in 1..Len(heap)
  PROVE  /\ heap[c] \in HeapNode /\ heap[c].zone \in Zones /\ heap[c].cache \in CacheOf(Nat)
         /\ heap[c].cache.data \in Nat /\ heap[c].cache.fetched \in Nat
         /\ heap[c].cache.answer \subseteq Nat
         /\ RecordsOK(heap[c].zone, heap[c].cache)
<1>1. heap[c] \in HeapNode  BY Element DEF HeapOK
<1>2. heap[c].zone \in Zones /\ heap[c].cache \in CacheOf(Nat)  BY <1>1 DEF HeapNode
<1> QED  BY <1>1, <1>2 DEF HeapOK, CacheOf

LEMMA RecordsCalls ==
  ASSUME now \in Nat, NEW z \in Zones, NEW c \in CacheOf(Nat), RecordsOK(z, c), remote[z] \in Nat
  PROVE  /\ RecordsOK(z, Asking(c)) /\ Asking(c) \in CacheOf(Nat) /\ Asking(c).data = c.data
         /\ RecordsOK(z, Answered(c, remote[z])) /\ Answered(c, remote[z]) \in CacheOf(Nat)
         /\ Answered(c, remote[z]).data = c.data
<1>1. c.data \in Nat  BY DEF CacheOf
<1> QED  BY <1>1, LockSteps, DataSteps DEF RecordsOK

\* Records that a get() returns are not older than those it has found.
LEMMA RecordsReturns ==
  ASSUME now \in Nat, NEW z \in Zones, NEW c \in CacheOf(Nat), RecordsOK(z, c), remote[z] \in Nat,
         NEW g \in Returns(c)
  PROVE  /\ RecordsOK(z, g.cache) /\ g.cache \in CacheOf(Nat) /\ g.cache.data \in Nat
         /\ c.data <= g.cache.data
<1>1. g.cache \in CacheOf(Nat) /\ (Hit(c, g) \/ Miss(c, g) \/ Failure(c, g))  BY GetReturns
<1>2. /\ g.cache.data \in Nat /\ c.data \in Nat /\ c.fetched \in Nat /\ c.answer \subseteq Nat
  BY <1>1 DEF CacheOf
<1>3. CASE Hit(c, g)  BY <1>1, <1>2, <1>3 DEF Hit
<1>4. CASE Miss(c, g)
  <2>1. c.data <= g.cache.data /\ g.cache.data <= remote[z]  BY <1>4 DEF Miss, RecordsOK
  <2> QED  BY <1>1, <1>2, <1>4, <2>1 DEF Miss, RecordsOK
<1>5. CASE Failure(c, g)  BY <1>1, <1>2, <1>5 DEF Failure, RecordsOK
<1> QED  BY <1>1, <1>3, <1>4, <1>5

\* A step of a get() on the cache at c keeps what the invariant says of the
\* caches, and leaves none with older data.
LEMMA UpdateKeepsHeap ==
  ASSUME IInv, NEW c \in 1..Len(heap), NEW new \in CacheOf(Nat), Update(c, new),
         RecordsOK(heap[c].zone, new), heap[c].cache.data <= new.data,
         UNCHANGED <<now, remote, recordCaches>>
  PROVE  /\ Len(heap') = Len(heap) /\ heap'[c].cache = new
         /\ \A d \in 1..Len(heap) :
              /\ heap'[d].zone = heap[d].zone
              /\ heap[d].cache.data \in Nat /\ heap'[d].cache.data \in Nat
              /\ heap[d].cache.data <= heap'[d].cache.data
         /\ HeapOK' /\ OneCachePerZone'
<1> DEFINE m == [heap[c] EXCEPT !.cache = new]
<1>1. HeapOK /\ heap \in Seq(HeapNode)  BY DEF IInv, HeapOK
<1>2. /\ heap[c] \in HeapNode /\ heap[c].zone \in Zones /\ heap[c].cache.data \in Nat
  BY <1>1, HeapElement
<1>3. m \in HeapNode /\ m.zone = heap[c].zone /\ m.cache = new  BY <1>2 DEF HeapNode
<1>4. heap' = [heap EXCEPT ![c] = m]  BY DEF Update
<1> HIDE DEF m
<1>5. /\ heap' \in Seq(HeapNode) /\ Len(heap') = Len(heap)
      /\ \A d \in 1..Len(heap) : heap'[d] = IF d = c THEN m ELSE heap[d]
  BY <1>1, <1>3, <1>4, Replaced
<1>6. new.data \in Nat  BY DEF CacheOf
<1>7. ASSUME NEW d \in 1..Len(heap)
      PROVE  /\ heap'[d].zone = heap[d].zone
             /\ heap[d].cache.data \in Nat /\ heap'[d].cache.data \in Nat
             /\ heap[d].cache.data <= heap'[d].cache.data
             /\ RecordsOK(heap'[d].zone, heap'[d].cache)
  <2>1. heap[d].cache.data \in Nat /\ RecordsOK(heap[d].zone, heap[d].cache)
    BY <1>1, HeapElement
  <2>2. CASE d = c  BY <1>2, <1>3, <1>5, <1>6, <2>2
  <2>3. CASE d # c  BY <1>5, <2>1, <2>3
  <2> QED  BY <2>2, <2>3
<1>8. HeapOK'  BY <1>5, <1>7 DEF HeapOK, RecordsOK
<1>9. OneCachePerZone'
  <2>1. \A z \in Zones : recordCaches[z] # NoCache => recordCaches[z] \in 1..Len(heap)
    BY DEF IInv, Typed
  <2> QED  BY <1>5, <1>7, <2>1 DEF IInv, OneCachePerZone
<1> QED  BY <1>3, <1>5, <1>7, <1>8, <1>9

\* getRecordsCache: the zone has a cache afterwards, which the map keeps.
LEMMA GetRecordsCacheIInv ==
  ASSUME IInv, NEW z \in Zones, GetRecordsCache(z), UNCHANGED <<now, remote, seen>>
  PROVE  /\ HeapOK' /\ OneCachePerZone' /\ SeenStored'
         /\ recordCaches' \in [Zones -> 0..Len(heap')]
         /\ recordCaches'[z] # NoCache
         /\ \A y \in Zones : recordCaches[y] # NoCache => recordCaches'[y] = recordCaches[y]
<1> DEFINE l == Len(heap)
           m == [zone |-> z, cache |-> NewCache(0)]
<1>1. /\ HeapOK /\ heap \in Seq(HeapNode) /\ l \in Nat /\ now \in Nat
      /\ recordCaches \in [Zones -> 0..l] /\ remote \in [Zones -> Nat]
  BY DEF IInv, HeapOK, Typed
<1>2. CASE recordCaches[z] # NoCache
  <2>1. UNCHANGED <<recordCaches, heap>>  BY <1>2 DEF GetRecordsCache
  <2> QED
    BY <1>1, <1>2, <2>1 DEF IInv, HeapOK, RecordsOK, OneCachePerZone, SeenStored
<1>3. CASE recordCaches[z] = NoCache
  <2>1. heap' = Append(heap, m) /\ recordCaches' = [recordCaches EXCEPT ![z] = Len(heap')]
    BY <1>3 DEF GetRecordsCache
  <2>2. m \in HeapNode /\ m.zone = z /\ m.cache = NewCache(0)
    BY DEF HeapNode, NewCache, CacheOf
  <2>3. /\ m.cache.data = 0 /\ m.cache.fetched = 0 /\ m.cache.answer = {}
    BY <2>2 DEF NewCache
  <2> HIDE DEF m
  <2>4. /\ heap' \in Seq(HeapNode) /\ Len(heap') = l + 1 /\ heap'[l + 1] = m
        /\ \A c \in 1..l : heap'[c] = heap[c]
    BY <1>1, <2>1, <2>2
  <2>5. recordCaches' = [recordCaches EXCEPT ![z] = l + 1]  BY <2>1, <2>4
  <2>6. \A c \in 1..Len(heap') : c \in 1..l \/ c = l + 1  BY <1>1, <2>4
  <2>7. ASSUME NEW c \in 1..l  PROVE heap[c].zone \in Zones /\ heap[c].zone # z
    <3>1. heap[c].zone \in Zones /\ recordCaches[heap[c].zone] = c
      BY <1>1, HeapElement DEF IInv, OneCachePerZone
    <3> QED  BY <1>1, <1>3, <3>1
  <2>8. HeapOK'
    <3>1. RecordsOK(z, m.cache)  BY <1>1, <2>3 DEF RecordsOK
    <3>2. \A c \in 1..Len(heap') : RecordsOK(heap'[c].zone, heap'[c].cache)
      BY <1>1, <2>2, <2>4, <2>6, <3>1 DEF HeapOK
    <3> QED  BY <2>4, <3>2 DEF HeapOK, RecordsOK
  <2>9. OneCachePerZone'
    <3>1. ASSUME NEW y \in Zones, recordCaches'[y] # NoCache
          PROVE  heap'[recordCaches'[y]].zone = y
      <4>1. CASE y = z  BY <1>1, <2>2, <2>4, <2>5, <4>1
      <4>2. CASE y # z
        <5>1. recordCaches'[y] = recordCaches[y] /\ recordCaches[y] \in 1..l
          BY <1>1, <2>5, <3>1, <4>2
        <5> QED  BY <2>4, <3>1, <5>1 DEF IInv, OneCachePerZone
      <4> QED  BY <4>1, <4>2
    <3>2. ASSUME NEW c \in 1..Len(heap')  PROVE recordCaches'[heap'[c].zone] = c
      <4>1. CASE c \in 1..l
        BY <1>1, <2>4, <2>5, <2>7, <4>1 DEF IInv, OneCachePerZone
      <4>2. CASE c = l + 1  BY <1>1, <2>2, <2>4, <2>5, <4>2
      <4> QED  BY <2>6, <4>1, <4>2
    <3> QED  BY <3>1, <3>2 DEF OneCachePerZone
  <2>10. SeenStored'
    <3> SUFFICES ASSUME NEW u \in Users, NEW y \in Zones
                 PROVE  IF recordCaches'[y] = NoCache THEN seen[u][y] = 0
                        ELSE seen[u][y] <= heap'[recordCaches'[y]].cache.data
      BY DEF SeenStored
    <3>1. CASE y = z
      BY <1>1, <1>3, <2>3, <2>4, <2>5, <3>1 DEF IInv, SeenStored
    <3>2. CASE y # z
      <4>1. recordCaches'[y] = recordCaches[y] /\ recordCaches[y] \in 0..l
        BY <1>1, <2>5, <3>2
      <4>2. recordCaches[y] # NoCache => heap'[recordCaches[y]] = heap[recordCaches[y]]
        BY <1>1, <2>4, <4>1
      <4> QED  BY <4>1, <4>2 DEF IInv, SeenStored
    <3> QED  BY <3>1, <3>2
  <2>11. /\ recordCaches' \in [Zones -> 0..Len(heap')]
         /\ recordCaches'[z] # NoCache
         /\ \A y \in Zones : recordCaches[y] # NoCache => recordCaches'[y] = recordCaches[y]
    BY <1>1, <1>3, <2>4, <2>5
  <2> QED  BY <2>8, <2>9, <2>10, <2>11
<1> QED  BY <1>2, <1>3

-----------------------------------------------------------------------------
(* The steps.  One lemma for each group of actions that change the same. *)

LEMMA InitIInv == Init => IInv
<1> SUFFICES ASSUME Init PROVE IInv  OBVIOUS
<1> DEFINE nil == [listed |-> {}, at |-> 0]
<1>1. nil \in ZoneList /\ nil.at = 0  BY DEF ZoneList
<1> HIDE DEF nil
<1>2. /\ NewCache(nil) \in CacheOf(ZoneList) /\ NewCache(nil).data = nil
      /\ NewCache(nil).fetched = 0 /\ NewCache(nil).asked = 0 /\ NewCache(nil).answer = {}
  BY <1>1 DEF NewCache, CacheOf
<1>3. zones = NewCache(nil) /\ now = TTL  BY DEF Init, nil
<1>4. ZonesOK(zones)  BY <1>1, <1>2, <1>3 DEF ZonesOK, Locked
<1>5. heap = << >> /\ heap \in Seq(HeapNode) /\ Len(heap) = 0  BY DEF Init
<1>6. HeapOK /\ OneCachePerZone  BY <1>5 DEF Init, HeapOK, OneCachePerZone
<1>7. Typed  BY <1>5 DEF Init, Typed
<1> QED
  BY <1>4, <1>6, <1>7 DEF Init, IInv, NodesShare, SeenStored, NamesRecent, HeldKeeps

\* Time passes, or the API's state changes.
LEMMA StepEnvironment ==
  ASSUME IInv, Tick \/ \E z \in Zones : Change(z) \/ Delete(z)
  PROVE  IInv'
<1>1. /\ UNCHANGED <<zones, recordCaches, heap, inside, held, seen>>
      /\ now \in Nat /\ now # 0 /\ remote \in [Zones -> Nat]
  BY DEF Tick, Change, Delete, dnsVars, userVars, IInv, Typed
<1>2. /\ now' \in Nat /\ now <= now' /\ now' # 0
      /\ remote' \in [Zones -> Nat] /\ \A z \in Zones : remote[z] <= remote'[z]
      /\ deleted' \subseteq Zones
  <2>1. deleted \subseteq Zones  BY DEF IInv, Typed
  <2>2. CASE Tick  BY <1>1, <2>1, <2>2 DEF Tick
  <2>3. ASSUME NEW z \in Zones, Change(z)
        PROVE  /\ UNCHANGED <<now, deleted>>
               /\ remote' \in [Zones -> Nat] /\ \A y \in Zones : remote[y] <= remote'[y]
    BY <1>1, <2>3 DEF Change
  <2>4. ASSUME NEW z \in Zones, Delete(z)
        PROVE  UNCHANGED <<now, remote>> /\ deleted' \subseteq Zones
    BY <2>1, <2>4 DEF Delete
  <2>5. \A z \in Zones : remote[z] \in Nat  BY <1>1
  <2> QED  BY <1>1, <2>1, <2>2, <2>3, <2>4, <2>5
<1>3. /\ dentry' \in [Zones -> Name \cup {NoName}]
      /\ \A z \in Zones : dentry'[z] # NoName => dentry'[z] = dentry[z] /\ now' <= dentry'[z].until
  <2>1. dentry \in [Zones -> Name \cup {NoName}]  BY DEF IInv, Typed
  <2>2. CASE Tick
    <3>1. /\ now' \in Nat
          /\ dentry' = [z \in Zones |-> IF dentry[z].until < now' THEN NoName ELSE dentry[z]]
      BY <1>1, <2>2 DEF Tick
    <3>2. \A z \in Zones : dentry[z] # NoName => dentry[z].until \in Nat
      BY <2>1 DEF Name
    <3> QED  BY <2>1, <3>1, <3>2
  <2>3. CASE \E z \in Zones : Change(z) \/ Delete(z)
    BY <2>1, <2>3 DEF Change, Delete, IInv, NamesRecent, NameRecent
  <2> QED  BY <2>2, <2>3
<1>4. Typed'  BY <1>1, <1>2, <1>3 DEF IInv, Typed
<1>5. ZonesOK(zones)'
  <2>1. ZonesOK(zones) /\ zones \in CacheOf(ZoneList)  BY DEF IInv, ZonesOK
  <2>2. zones.fetched \in Nat /\ zones.asked \in Nat  BY <2>1 DEF CacheOf
  <2>3. Locked(zones) => now' - zones.asked <= FetchMax
    <3>1. CASE Tick  BY <1>1, <2>2, <3>1 DEF Tick, InTime
    <3>2. CASE \E z \in Zones : Change(z) \/ Delete(z)
      BY <2>1, <3>2 DEF Change, Delete, ZonesOK
    <3> QED  BY <3>1, <3>2
  <2>4. zones.fetched <= now /\ (Locked(zones) => zones.asked <= now)  BY <2>1 DEF ZonesOK
  <2>5. zones.fetched <= now' /\ (Locked(zones) => zones.asked <= now')
    BY <1>1, <1>2, <2>2, <2>4
  <2> QED  BY <1>1, <2>1, <2>3, <2>5 DEF ZonesOK, Locked
<1>6. HeapOK'
  <2>1. ASSUME NEW c \in 1..Len(heap)
        PROVE  /\ heap[c].cache.fetched <= now' /\ heap[c].cache.data <= remote'[heap[c].zone]
               /\ \A d \in heap[c].cache.answer :
                    heap[c].cache.data <= d /\ d <= remote'[heap[c].zone]
    <3>1. /\ heap[c].zone \in Zones /\ heap[c].cache.data \in Nat
          /\ heap[c].cache.fetched \in Nat /\ heap[c].cache.answer \subseteq Nat
          /\ RecordsOK(heap[c].zone, heap[c].cache)
      BY HeapElement DEF IInv
    <3>2. /\ remote[heap[c].zone] \in Nat /\ remote'[heap[c].zone] \in Nat
          /\ remote[heap[c].zone] <= remote'[heap[c].zone]
      BY <1>1, <1>2, <3>1
    <3> QED  BY <1>1, <1>2, <3>1, <3>2 DEF RecordsOK
  <2> QED  BY <1>1, <2>1 DEF IInv, HeapOK, RecordsOK
<1>7. OneCachePerZone' /\ SeenStored' /\ HeldKeeps'
  BY <1>1 DEF IInv, OneCachePerZone, SeenStored, HeldKeeps
<1>8. NodesShare'  BY <1>1, <1>3 DEF IInv, NodesShare, Shares, NoName, NoNode
<1>9. NamesRecent'
  BY <1>3 DEF IInv, NamesRecent, NameRecent, NoName, NoNode
<1> QED  BY <1>4, <1>5, <1>6, <1>7, <1>8, <1>9 DEF IInv

\* The zones' listing is asked for, answered, or listed; a zone is not found.
LEMMA StepZones ==
  ASSUME IInv,
         AskZones \/ ZonesAnswered \/ ListZones \/ \E z \in Zones : LookupNoZone(z)
  PROVE  IInv'
<1>1. /\ UNCHANGED <<now, remote, deleted, recordCaches, heap, inside, held, seen>>
      /\ now \in Nat /\ now # 0 /\ ZonesOK(zones)
  BY DEF AskZones, ZonesAnswered, ListZones, LookupNoZone, envVars, userVars, IInv, Typed
<1>2. ZonesOK(zones')
  <2>1. CASE AskZones  BY <1>1, <2>1, ZonesCalls DEF AskZones
  <2>2. CASE ZonesAnswered
    <3>1. Zones \ deleted \in SUBSET Zones  OBVIOUS
    <3>2. Waiting(zones) /\ zones' = Answered(zones, [listed |-> Zones \ deleted, at |-> now])
      BY <2>2 DEF ZonesAnswered
    <3> QED  BY <1>1, <3>1, <3>2, ZonesCalls
  <2>3. CASE ListZones \/ \E z \in Zones : LookupNoZone(z)
    <3>1. PICK g \in Returns(zones) : zones' = g.cache  BY <2>3 DEF ListZones, LookupNoZone
    <3>2. ZonesOK(g.cache)  BY <1>1, ZonesReturns
    <3> QED  BY <3>1, <3>2
  <2> QED  BY <2>1, <2>2, <2>3
<1>3. ZonesOK(zones)'  BY <1>1, <1>2 DEF ZonesOK
<1>4. /\ dentry' \in [Zones -> Name \cup {NoName}]
      /\ \A z \in Zones : dentry'[z] # NoName => dentry'[z] = dentry[z]
  <2>1. dentry \in [Zones -> Name \cup {NoName}]  BY DEF IInv, Typed
  <2>2. dentry' = dentry \/ \E z \in Zones : dentry' = [dentry EXCEPT ![z] = NoName]
    BY DEF AskZones, ZonesAnswered, ListZones, LookupNoZone
  <2> QED  BY <2>1, <2>2
<1>5. Typed'  BY <1>1, <1>4 DEF IInv, Typed
<1>6. HeapOK' /\ OneCachePerZone' /\ SeenStored' /\ HeldKeeps'
  BY <1>1 DEF IInv, HeapOK, RecordsOK, OneCachePerZone, SeenStored, HeldKeeps
<1>7. NodesShare'  BY <1>1, <1>4 DEF IInv, NodesShare, Shares, NoName, NoNode
<1>8. NamesRecent'  BY <1>1, <1>4 DEF IInv, NamesRecent, NameRecent, NoName, NoNode
<1> QED  BY <1>3, <1>5, <1>6, <1>7, <1>8 DEF IInv

\* A new name of a zone: its node shows what the listing shows, and has the
\* cache of the zone.
LEMMA StepLookupZone ==
  ASSUME IInv, NEW z \in Zones, LookupZone(z)
  PROVE  IInv'
<1>1. PICK g \in Returns(zones) :
        /\ zones' = g.cache /\ GetRecordsCache(z)
        /\ LET cache == IF recordCaches'[z] # NoCache THEN recordCaches'[z] ELSE Len(heap')
               node == [zone |-> z, at |-> g.cache.data.at, failed |-> g.failed, cache |-> cache]
           IN  dentry' = [dentry EXCEPT ![z] = [node |-> node, until |-> now + EntryTimeout]]
  BY DEF LookupZone
<1>2. UNCHANGED <<now, remote, deleted, inside, held, seen>>
  BY DEF LookupZone, envVars, userVars
<1>3. /\ now \in Nat /\ ZonesOK(zones)
      /\ dentry \in [Zones -> Name \cup {NoName}] /\ inside \in [Users -> Node \cup {NoNode}]
  BY DEF IInv, Typed
<1>4. /\ ZonesOK(g.cache) /\ g.cache.data \in ZoneList /\ g.failed \in BOOLEAN
      /\ g.failed \/ now - g.cache.data.at < TTL + FetchMax
  BY <1>3, ZonesReturns
<1>5. /\ HeapOK' /\ OneCachePerZone' /\ SeenStored'
      /\ recordCaches' \in [Zones -> 0..Len(heap')]
      /\ recordCaches'[z] # NoCache
      /\ \A y \in Zones : recordCaches[y] # NoCache => recordCaches'[y] = recordCaches[y]
  BY <1>1, <1>2, GetRecordsCacheIInv
<1> DEFINE node == [zone |-> z, at |-> g.cache.data.at, failed |-> g.failed,
                    cache |-> recordCaches'[z]]
           name == [node |-> node, until |-> now + TTL]
<1>6. recordCaches'[z] \in Nat
  <2>1. Len(heap') \in Nat  BY <1>5 DEF HeapOK
  <2> QED  BY <1>5, <2>1
<1>7. /\ node \in Node /\ node.zone = z /\ node.cache = recordCaches'[z]
      /\ node.at = g.cache.data.at /\ node.failed = g.failed
  BY <1>4, <1>6 DEF Node, ZoneList
<1>8. dentry' = [dentry EXCEPT ![z] = name]  BY <1>1, <1>5 DEF EntryTimeout
<1> HIDE DEF node
<1>9. name \in Name /\ name.node = node /\ name.until = now + TTL  BY <1>3, <1>7 DEF Name
<1> HIDE DEF name
<1>10. /\ dentry' \in [Zones -> Name \cup {NoName}] /\ dentry'[z] = name
       /\ \A y \in Zones : y # z => dentry'[y] = dentry[y]
  BY <1>3, <1>8, <1>9
<1>11. Typed'  BY <1>2, <1>5, <1>10 DEF IInv, Typed
<1>12. ZonesOK(zones)'  BY <1>1, <1>2, <1>4 DEF ZonesOK
<1>13. NodesShare'
  <2>1. ASSUME NEW u \in Users, inside[u] # NoNode
        PROVE  recordCaches'[inside[u].zone] # NoCache
               /\ inside[u].cache = recordCaches'[inside[u].zone]
    <3>1. Shares(inside[u]) /\ inside[u] \in Node  BY <1>3, <2>1 DEF IInv, NodesShare
    <3>2. inside[u].zone \in Zones  BY <3>1 DEF Node
    <3> QED  BY <1>5, <3>1, <3>2 DEF Shares
  <2>2. ASSUME NEW y \in Zones, dentry'[y] # NoName
        PROVE  recordCaches'[dentry'[y].node.zone] # NoCache
               /\ dentry'[y].node.cache = recordCaches'[dentry'[y].node.zone]
    <3>1. CASE y = z  BY <1>5, <1>7, <1>9, <1>10, <3>1
    <3>2. CASE y # z
      <4>1. dentry'[y] = dentry[y] /\ dentry[y] \in Name /\ Shares(dentry[y].node)
        BY <1>3, <1>10, <2>2, <3>2 DEF IInv, NodesShare
      <4>2. dentry[y].node.zone \in Zones  BY <4>1 DEF Name, Node
      <4> QED  BY <1>5, <4>1, <4>2 DEF Shares
    <3> QED  BY <3>1, <3>2
  <2> QED  BY <1>2, <2>1, <2>2 DEF NodesShare, Shares, NoName, NoNode
<1>14. NamesRecent'
  <2>1. NameRecent(name)
    <3>1. g.cache.data.at \in Nat  BY <1>4 DEF ZoneList
    <3>2. now <= now + TTL  BY <1>3
    <3>3. now - g.cache.data.at < TTL + FetchMax =>
            (now + TTL) - g.cache.data.at < 2 * TTL + FetchMax
      BY <1>3, <3>1
    <3> QED  BY <1>4, <1>7, <1>9, <3>2, <3>3 DEF NameRecent
  <2>2. ASSUME NEW y \in Zones, dentry'[y] # NoName  PROVE NameRecent(dentry'[y])
    BY <1>10, <2>1, <2>2 DEF IInv, NamesRecent
  <2> QED  BY <1>2, <2>2 DEF NamesRecent, NameRecent, NoName, NoNode
<1>15. HeldKeeps'  BY <1>2 DEF IInv, HeldKeeps
<1> QED  BY <1>5, <1>11, <1>12, <1>13, <1>14, <1>15 DEF IInv

\* The user enters the directory that the kernel knows.
LEMMA StepWalk ==
  ASSUME IInv, NEW u \in Users, NEW z \in Zones, Walk(u, z)
  PROVE  IInv'
<1>1. /\ UNCHANGED <<now, remote, deleted, zones, recordCaches, heap, dentry, held, seen>>
      /\ dentry[z] # NoName /\ inside' = [inside EXCEPT ![u] = dentry[z].node]
  BY DEF Walk, envVars, dnsVars
<1>2. dentry[z].node \in Node /\ Shares(dentry[z].node)
  <2>1. dentry[z] \in Name  BY <1>1 DEF IInv, Typed
  <2> QED  BY <1>1, <2>1 DEF IInv, NodesShare, Name
<1>3. inside \in [Users -> Node \cup {NoNode}]  BY DEF IInv, Typed
<1>4. /\ inside' \in [Users -> Node \cup {NoNode}]
      /\ \A v \in Users : inside'[v] = IF v = u THEN dentry[z].node ELSE inside[v]
  BY <1>1, <1>2, <1>3
<1>5. Typed'  BY <1>1, <1>4 DEF IInv, Typed
<1>6. HeapOK' /\ OneCachePerZone' /\ SeenStored' /\ HeldKeeps' /\ ZonesOK(zones)'
  BY <1>1 DEF IInv, HeapOK, RecordsOK, OneCachePerZone, SeenStored, HeldKeeps, ZonesOK
<1>7. NodesShare'
  <2>1. \A v \in Users : inside'[v] # NoNode => Shares(inside'[v])
    BY <1>2, <1>4 DEF IInv, NodesShare
  <2> QED  BY <1>1, <2>1 DEF IInv, NodesShare, Shares, NoName, NoNode
<1>8. NamesRecent'  BY <1>1 DEF IInv, NamesRecent, NameRecent, NoName, NoNode
<1> QED  BY <1>5, <1>6, <1>7, <1>8 DEF IInv

\* A step on a records' cache, if what is read after it is not newer than it.
LEMMA CacheStep ==
  ASSUME IInv, NEW c \in 1..Len(heap), NEW new \in CacheOf(Nat), Update(c, new),
         RecordsOK(heap[c].zone, new), heap[c].cache.data <= new.data,
         UNCHANGED <<now, remote, deleted, zones, recordCaches, dentry, inside>>,
         seen' = seen \/ \E u \in Users : seen' = [seen EXCEPT ![u][heap[c].zone] = new.data],
         held' \in [Users -> Set \cup {NoSet}], HeldKeeps'
  PROVE  IInv'
<1>1. /\ Len(heap') = Len(heap) /\ heap'[c].cache = new
      /\ \A d \in 1..Len(heap) :
           /\ heap'[d].zone = heap[d].zone
           /\ heap[d].cache.data \in Nat /\ heap'[d].cache.data \in Nat
           /\ heap[d].cache.data <= heap'[d].cache.data
      /\ HeapOK' /\ OneCachePerZone'
  BY UpdateKeepsHeap
<1>2. /\ heap[c].zone \in Zones /\ new.data \in Nat /\ recordCaches[heap[c].zone] = c
      /\ seen \in [Users -> [Zones -> Nat]] /\ recordCaches \in [Zones -> 0..Len(heap)]
  BY HeapElement DEF IInv, OneCachePerZone, CacheOf, Typed
<1>3. /\ seen' \in [Users -> [Zones -> Nat]]
      /\ \A u \in Users, z \in Zones :
           seen'[u][z] = seen[u][z] \/ (z = heap[c].zone /\ seen'[u][z] = new.data)
  <2>1. ASSUME NEW v \in Users, seen' = [seen EXCEPT ![v][heap[c].zone] = new.data]
        PROVE  /\ seen' \in [Users -> [Zones -> Nat]]
               /\ \A u \in Users, z \in Zones :
                    seen'[u][z] = IF u = v /\ z = heap[c].zone THEN new.data ELSE seen[u][z]
    <3> DEFINE y == heap[c].zone
               x == new.data
    <3>1. y \in Zones /\ x \in Nat  BY <1>2
    <3> HIDE DEF x, y
    <3>2. seen' = [seen EXCEPT ![v][y] = x]  BY <2>1 DEF x, y
    <3>3. /\ seen' \in [Users -> [Zones -> Nat]]
          /\ \A u \in Users, z \in Zones :
               seen'[u][z] = IF u = v /\ z = y THEN x ELSE seen[u][z]
      BY <1>2, <3>1, <3>2
    <3> QED  BY <3>3 DEF x, y
  <2>2. CASE seen' = seen  BY <1>2, <2>2
  <2>3. CASE \E v \in Users : seen' = [seen EXCEPT ![v][heap[c].zone] = new.data]
    <3>1. PICK v \in Users : seen' = [seen EXCEPT ![v][heap[c].zone] = new.data]  BY <2>3
    <3>2. /\ seen' \in [Users -> [Zones -> Nat]]
          /\ \A u \in Users, z \in Zones :
               seen'[u][z] = IF u = v /\ z = heap[c].zone THEN new.data ELSE seen[u][z]
      BY <2>1, <3>1
    <3> QED  BY <3>2
  <2> QED  BY <2>2, <2>3
<1>4. Typed'  BY <1>1, <1>3 DEF IInv, Typed
<1>5. SeenStored'
  <2> SUFFICES ASSUME NEW u \in Users, NEW z \in Zones
               PROVE  IF recordCaches[z] = NoCache THEN seen'[u][z] = 0
                      ELSE seen'[u][z] <= heap'[recordCaches[z]].cache.data
    BY DEF SeenStored
  <2>1. CASE seen'[u][z] = seen[u][z]
    <3>1. CASE recordCaches[z] = NoCache  BY <2>1, <3>1 DEF IInv, SeenStored
    <3>2. CASE recordCaches[z] # NoCache
      <4> DEFINE d == recordCaches[z]
      <4>1. d \in 1..Len(heap)  BY <1>2, <3>2
      <4>2. seen[u][z] <= heap[d].cache.data /\ seen[u][z] \in Nat
        BY <1>2, <3>2 DEF IInv, SeenStored
      <4>3. /\ heap[d].cache.data \in Nat /\ heap'[d].cache.data \in Nat
            /\ heap[d].cache.data <= heap'[d].cache.data
        BY <1>1, <4>1
      <4>4. seen[u][z] <= heap'[d].cache.data  BY <4>2, <4>3
      <4> QED  BY <2>1, <3>2, <4>4
    <3> QED  BY <3>1, <3>2
  <2>2. CASE z = heap[c].zone /\ seen'[u][z] = new.data
    BY <1>1, <1>2, <2>2
  <2> QED  BY <1>3, <2>1, <2>2
<1>6. ZonesOK(zones)'  BY DEF IInv, ZonesOK
<1>7. NodesShare' /\ NamesRecent'
  BY DEF IInv, NodesShare, NamesRecent, Shares, NameRecent, NoName, NoNode
<1> QED  BY <1>1, <1>4, <1>5, <1>6, <1>7 DEF IInv

\* The record sets are asked for, answered, or read by others.
LEMMA StepRecords ==
  ASSUME IInv, NEW c \in 1..Len(heap), AskRecords(c) \/ RecordsAnswered(c) \/ OthersRead(c)
  PROVE  IInv'
<1> DEFINE z == heap[c].zone
           old == heap[c].cache
<1>1. UNCHANGED <<now, remote, deleted, zones, recordCaches, dentry, inside, held, seen>>
  BY DEF AskRecords, RecordsAnswered, OthersRead, envVars, userVars
<1>2. /\ z \in Zones /\ old \in CacheOf(Nat) /\ RecordsOK(z, old) /\ old.data \in Nat
      /\ now \in Nat /\ remote[z] \in Nat
  BY HeapElement DEF IInv, Typed
<1>3. held' \in [Users -> Set \cup {NoSet}] /\ HeldKeeps'
  BY <1>1 DEF IInv, Typed, HeldKeeps
<1>4. CASE AskRecords(c)
  <2>1. Update(c, Asking(old))  BY <1>4 DEF AskRecords
  <2>2. RecordsOK(z, Asking(old)) /\ Asking(old) \in CacheOf(Nat) /\ Asking(old).data = old.data
    BY <1>2, RecordsCalls
  <2>3. old.data <= Asking(old).data  BY <1>2, <2>2
  <2> QED  BY <1>1, <1>3, <2>1, <2>2, <2>3, CacheStep
<1>5. CASE RecordsAnswered(c)
  <2> DEFINE new == Answered(old, remote[z])
  <2>1. Update(c, new)  BY <1>5 DEF RecordsAnswered
  <2>2. RecordsOK(z, new) /\ new \in CacheOf(Nat) /\ new.data = old.data
    BY <1>2, RecordsCalls
  <2>3. old.data <= new.data  BY <1>2, <2>2
  <2> HIDE DEF new
  <2> QED  BY <1>1, <1>3, <2>1, <2>2, <2>3, CacheStep
<1>6. CASE OthersRead(c)
  <2>1. PICK g \in Returns(old) : Update(c, g.cache)  BY <1>6 DEF OthersRead
  <2>2. RecordsOK(z, g.cache) /\ g.cache \in CacheOf(Nat) /\ old.data <= g.cache.data
    BY <1>2, RecordsReturns
  <2> QED  BY <1>1, <1>3, <2>1, <2>2, CacheStep
<1> QED  BY <1>4, <1>5, <1>6

\* What a user reads: from the cache of its zone, and nothing older than what
\* it has read of the zone before.
LEMMA ReadsMoveOn ==
  ASSUME IInv, NEW u \in Users, inside[u] # NoNode,
         NEW g \in Returns(heap[inside[u].cache].cache)
  PROVE  /\ inside[u].cache \in 1..Len(heap) /\ inside[u].zone \in Zones
         /\ heap[inside[u].cache].zone = inside[u].zone
         /\ RecordsOK(inside[u].zone, g.cache) /\ g.cache \in CacheOf(Nat)
         /\ heap[inside[u].cache].cache.data <= g.cache.data
         /\ seen[u][inside[u].zone] \in Nat /\ g.cache.data \in Nat
         /\ g.cache.data >= seen[u][inside[u].zone]
<1> DEFINE c == inside[u].cache
           z == inside[u].zone
<1>1. inside[u] \in Node /\ Shares(inside[u])  BY DEF IInv, Typed, NodesShare
<1>2. z \in Zones /\ recordCaches[z] # NoCache /\ c = recordCaches[z]
  BY <1>1 DEF Node, Shares
<1>3. c \in 1..Len(heap) /\ heap[c].zone = z
  BY <1>2 DEF IInv, Typed, OneCachePerZone
<1>4. /\ heap[c].cache \in CacheOf(Nat) /\ RecordsOK(z, heap[c].cache)
      /\ heap[c].cache.data \in Nat /\ now \in Nat /\ remote[z] \in Nat
  BY <1>2, <1>3, HeapElement DEF IInv, Typed
<1>5. /\ RecordsOK(z, g.cache) /\ g.cache \in CacheOf(Nat) /\ g.cache.data \in Nat
      /\ heap[c].cache.data <= g.cache.data
  BY <1>2, <1>4, RecordsReturns
<1>6. seen[u][z] \in Nat /\ seen[u][z] <= heap[c].cache.data
  BY <1>2 DEF IInv, Typed, SeenStored
<1> QED  BY <1>2, <1>3, <1>4, <1>5, <1>6

LEMMA StepRead ==
  ASSUME IInv, NEW u \in Users, ReadRecords(u) \/ EnterSet(u)
  PROVE  /\ IInv'
         /\ shown'.from = "cache" /\ shown'.user = u
         /\ shown'.version >= seen[u][inside[u].zone]
<1> DEFINE c == inside[u].cache
           z == inside[u].zone
<1>1. PICK g \in Returns(heap[c].cache) :
        /\ ReadCache(u, g)
        /\ \/ held' = held
           \/ held' = [held EXCEPT ![u] =
                [version |-> g.cache.data, zone |-> z, before |-> seen[u][z]]]
  BY DEF ReadRecords, EnterSet
<1>2. inside[u] # NoNode  BY DEF ReadRecords, EnterSet
<1>3. /\ c \in 1..Len(heap) /\ z \in Zones /\ heap[c].zone = z
      /\ RecordsOK(z, g.cache) /\ g.cache \in CacheOf(Nat)
      /\ heap[c].cache.data <= g.cache.data
      /\ seen[u][z] \in Nat /\ g.cache.data \in Nat /\ g.cache.data >= seen[u][z]
  BY <1>2, ReadsMoveOn
<1>4. /\ Update(c, g.cache) /\ seen' = [seen EXCEPT ![u][z] = g.cache.data]
      /\ shown' = [user |-> u, zone |-> inside[u].zone, version |-> g.cache.data, from |-> "cache"]
      /\ UNCHANGED <<now, remote, deleted, zones, recordCaches, dentry, inside>>
  BY <1>1 DEF ReadCache, envVars
<1> DEFINE new == [version |-> g.cache.data, zone |-> z, before |-> seen[u][z]]
<1>5. new \in Set /\ new.version >= new.before  BY <1>3 DEF Set
<1>6. held \in [Users -> Set \cup {NoSet}] /\ HeldKeeps  BY DEF IInv, Typed
<1> HIDE DEF new
<1>7. held' = held \/ held' = [held EXCEPT ![u] = new]  BY <1>1 DEF new
<1>8. /\ held' \in [Users -> Set \cup {NoSet}]
      /\ \A v \in Users : held'[v] = held[v] \/ held'[v] = new
  BY <1>5, <1>6, <1>7
<1>9. HeldKeeps'  BY <1>5, <1>6, <1>8 DEF HeldKeeps, NoSet
<1>10. IInv'
  <2>1. \E v \in Users : seen' = [seen EXCEPT ![v][heap[c].zone] = g.cache.data]
    BY <1>3, <1>4
  <2> QED  BY <1>3, <1>4, <1>8, <1>9, <2>1, CacheStep
<1> QED  BY <1>3, <1>4, <1>10

LEMMA StepReadSet ==
  ASSUME IInv, NEW u \in Users, ReadSet(u)
  PROVE  /\ IInv'
         /\ shown'.from = "set" /\ shown'.user = u /\ shown'.version >= held[u].before
<1>1. /\ UNCHANGED <<now, remote, deleted, zones, recordCaches, heap, dentry, inside, held, seen>>
      /\ held[u] # NoSet
      /\ shown' = [user |-> u, zone |-> held[u].zone, version |-> held[u].version, from |-> "set"]
  BY DEF ReadSet, envVars, dnsVars
<1>2. IInv'
  BY <1>1 DEF IInv, Typed, ZonesOK, HeapOK, RecordsOK, OneCachePerZone, NodesShare, Shares,
              SeenStored, NamesRecent, NameRecent, HeldKeeps, NoName, NoNode, NoSet
<1>3. held[u].version >= held[u].before  BY <1>1 DEF IInv, HeldKeeps
<1> QED  BY <1>1, <1>2, <1>3

LEMMA NextIInv == IInv /\ [Next]_vars => IInv'
<1> SUFFICES ASSUME IInv, [Next]_vars PROVE IInv'  OBVIOUS
<1>1. CASE Tick \/ \E z \in Zones : Change(z) \/ Delete(z)  BY <1>1, StepEnvironment
<1>2. CASE AskZones \/ ZonesAnswered \/ ListZones \/ \E z \in Zones : LookupNoZone(z)
  BY <1>2, StepZones
<1>3. ASSUME NEW z \in Zones, LookupZone(z)  PROVE IInv'  BY <1>3, StepLookupZone
<1>4. ASSUME NEW c \in 1..Len(heap), AskRecords(c) \/ RecordsAnswered(c) \/ OthersRead(c)
      PROVE  IInv'
  BY <1>4, StepRecords
<1>5. ASSUME NEW u \in Users, NEW z \in Zones, Walk(u, z)  PROVE IInv'  BY <1>5, StepWalk
<1>6. ASSUME NEW u \in Users, ReadRecords(u) \/ EnterSet(u)  PROVE IInv'  BY <1>6, StepRead
<1>7. ASSUME NEW u \in Users, ReadSet(u)  PROVE IInv'  BY <1>7, StepReadSet
<1>8. CASE UNCHANGED vars
  BY <1>8 DEF vars, envVars, dnsVars, userVars, IInv, Typed, ZonesOK, HeapOK, RecordsOK,
              OneCachePerZone, NodesShare, Shares, SeenStored, NamesRecent, NameRecent, HeldKeeps,
              NoName, NoNode, NoSet
<1> QED  BY <1>1, <1>2, <1>3, <1>4, <1>5, <1>6, <1>7, <1>8 DEF Next

LEMMA AlwaysIInv == Spec => []IInv
  BY InitIInv, NextIInv, PTL DEF Spec

-----------------------------------------------------------------------------
(* The theorems *)

\* A zone's directories, however many its Lookups have made, share one records'
\* cache; no cache, and no user, has more than the API has had.
THEOREM OneCacheForEachZone == Spec => []TypeOK
<1>1. IInv => TypeOK
  <2> SUFFICES ASSUME IInv PROVE TypeOK  OBVIOUS
  <2>1. \A z \in Zones : CachesOf(z) = {recordCaches[z]} \ {NoCache}
    <3> TAKE z \in Zones
    <3>1. recordCaches[z] \in 0..Len(heap)  BY DEF IInv, Typed
    <3>2. \A c \in 1..Len(heap) : heap[c].zone = z => c = recordCaches[z] /\ c # NoCache
      BY DEF IInv, OneCachePerZone
    <3>3. recordCaches[z] # NoCache => recordCaches[z] \in CachesOf(z)
      BY <3>1 DEF IInv, OneCachePerZone, CachesOf
    <3> QED  BY <3>2, <3>3 DEF CachesOf
  <2>2. ASSUME NEW c \in 1..Len(heap)
        PROVE  heap[c].cache.data \in 0..remote[heap[c].zone] /\ heap[c].cache.fetched \in 0..now
    <3>1. /\ heap[c].zone \in Zones /\ heap[c].cache.data \in Nat /\ heap[c].cache.fetched \in Nat
          /\ RecordsOK(heap[c].zone, heap[c].cache)
      BY HeapElement DEF IInv
    <3>2. now \in Nat /\ remote[heap[c].zone] \in Nat  BY <3>1 DEF IInv, Typed
    <3> QED  BY <3>1, <3>2 DEF RecordsOK
  <2>3. ASSUME NEW u \in Users, NEW z \in Zones  PROVE seen[u][z] \in 0..remote[z]
    <3>1. seen[u][z] \in Nat /\ remote[z] \in Nat /\ recordCaches[z] \in 0..Len(heap)
      BY DEF IInv, Typed
    <3>2. CASE recordCaches[z] = NoCache  BY <3>1, <3>2 DEF IInv, SeenStored
    <3>3. CASE recordCaches[z] # NoCache
      <4> DEFINE c == recordCaches[z]
      <4>1. c \in 1..Len(heap) /\ heap[c].zone = z  BY <3>1, <3>3 DEF IInv, OneCachePerZone
      <4>2. heap[c].cache.data \in 0..remote[z]  BY <2>2, <4>1
      <4>3. seen[u][z] <= heap[c].cache.data  BY <3>3 DEF IInv, SeenStored
      <4> QED  BY <3>1, <4>2, <4>3
    <3> QED  BY <3>2, <3>3
  <2>4. zones.data.listed \subseteq Zones /\ zones.fetched \in 0..now
    <3>1. zones.data \in ZoneList /\ zones.fetched \in Nat /\ zones.fetched <= now /\ now \in Nat
      BY DEF IInv, Typed, ZonesOK, CacheOf
    <3> QED  BY <3>1 DEF ZoneList
  <2>5. \A u \in Users : inside[u] # NoNode => inside[u].cache = recordCaches[inside[u].zone]
    BY DEF IInv, NodesShare, Shares
  <2> QED  BY <2>1, <2>2, <2>3, <2>4, <2>5 DEF IInv, Typed, TypeOK
<1> QED  BY <1>1, AlwaysIInv, PTL

\* What a path walk shows of a zone is less than 2 * TTL + FetchMax old.
THEOREM WalksRecent == Spec => []WalksAreRecent
<1>1. IInv => WalksAreRecent
  <2> SUFFICES ASSUME IInv, NEW z \in Zones, dentry[z] # NoName
               PROVE  dentry[z].node.failed \/ now - dentry[z].node.at < 2 * TTL + FetchMax
    BY DEF WalksAreRecent
  <2>1. dentry[z] \in Name /\ NameRecent(dentry[z])  BY DEF IInv, Typed, NamesRecent
  <2>2. dentry[z].until \in Nat /\ dentry[z].node.at \in Nat /\ now \in Nat
    BY <2>1 DEF Name, Node, IInv, Typed
  <2> QED  BY <2>1, <2>2 DEF NameRecent
<1> QED  BY <1>1, AlwaysIInv, PTL

\* What a user reads of a zone in zone_file and in records never goes back; the
\* files of a record set's directory show nothing older than its user had read
\* when it entered.
THEOREM RecordsInOrder == Spec => RecordsNeverRegress
<1>1. IInv /\ [Next]_vars =>
        [shown' # shown =>
           LET u == shown'.user
           IN  shown'.version >=
                 IF shown'.from = "set" THEN held[u].before ELSE seen[u][inside[u].zone]]_vars
  <2> SUFFICES ASSUME IInv, Next, shown' # shown
               PROVE  shown'.version >=
                        IF shown'.from = "set" THEN held[shown'.user].before
                        ELSE seen[shown'.user][inside[shown'.user].zone]
    BY DEF vars
  <2>1. PICK u \in Users : ReadRecords(u) \/ EnterSet(u) \/ ReadSet(u)
    BY DEF Next, Tick, Change, Delete, AskZones, ZonesAnswered, ListZones, LookupZone, LookupNoZone,
           AskRecords, RecordsAnswered, OthersRead, Walk, userVars
  <2>2. CASE ReadRecords(u) \/ EnterSet(u)  BY <2>2, StepRead
  <2>3. CASE ReadSet(u)  BY <2>3, StepReadSet
  <2> QED  BY <2>1, <2>2, <2>3
<1> QED  BY <1>1, AlwaysIInv, PTL DEF Spec, RecordsNeverRegress

\* A cache is locked only by a get() that has found it expired.
LEMMA LocksByAsking ==
  ASSUME IInv, Next, NEW c \in 1..Len(heap), Locked(heap'[c].cache), ~Locked(heap[c].cache)
  PROVE  Expired(heap[c].cache)
<1>1. heap \in Seq(HeapNode) /\ now \in Nat  BY DEF IInv, HeapOK, Typed
<1>2. ASSUME NEW e \in 1..Len(heap), NEW new \in CacheOf(Nat), Update(e, new)
      PROVE  c = e /\ Locked(new)
  <2> DEFINE m == [heap[e] EXCEPT !.cache = new]
  <2>1. heap[e] \in HeapNode  BY <1>1, Element
  <2>2. m \in HeapNode /\ m.cache = new  BY <2>1 DEF HeapNode
  <2>3. heap' = [heap EXCEPT ![e] = m]  BY <1>2 DEF Update
  <2> HIDE DEF m
  <2>4. heap'[c] = IF c = e THEN m ELSE heap[c]  BY <1>1, <2>2, <2>3, Replaced
  <2> QED  BY <2>2, <2>4
<1>3. ASSUME NEW e \in 1..Len(heap), NEW g \in Returns(heap[e].cache), Update(e, g.cache)
      PROVE  FALSE
  <2>1. heap[e].cache \in CacheOf(Nat)  BY HeapElement DEF IInv
  <2>2. /\ g.cache \in CacheOf(Nat)
        /\ Hit(heap[e].cache, g) \/ Miss(heap[e].cache, g) \/ Failure(heap[e].cache, g)
    BY <1>1, <2>1, GetReturns
  <2>3. c = e /\ Locked(g.cache)  BY <1>2, <1>3, <2>2
  <2> QED  BY <2>2, <2>3 DEF Hit, Miss, Failure, Locked
<1>4. ASSUME NEW e \in 1..Len(heap), AskRecords(e)  PROVE Expired(heap[c].cache)
  <2>1. heap[e].cache \in CacheOf(Nat)  BY HeapElement DEF IInv
  <2>2. Asking(heap[e].cache) \in CacheOf(Nat)  BY <1>1, <2>1, LockSteps
  <2>3. c = e  BY <1>2, <1>4, <2>2 DEF AskRecords
  <2> QED  BY <1>4, <2>3 DEF AskRecords
<1>5. ASSUME NEW e \in 1..Len(heap), RecordsAnswered(e)  PROVE FALSE
  <2> DEFINE x == remote[heap[e].zone]
  <2>1. heap[e].cache \in CacheOf(Nat) /\ heap[e].zone \in Zones  BY HeapElement DEF IInv
  <2>2. x \in Nat  BY <2>1 DEF IInv, Typed
  <2> HIDE DEF x
  <2>3. Answered(heap[e].cache, x) \in CacheOf(Nat)  BY <2>1, <2>2 DEF Answered, CacheOf
  <2>4. c = e  BY <1>2, <1>5, <2>3 DEF RecordsAnswered, x
  <2> QED  BY <1>5, <2>4 DEF RecordsAnswered, Waiting
<1>6. ASSUME NEW z \in Zones, LookupZone(z)  PROVE heap'[c] = heap[c]
  <2>1. heap' = heap \/ heap' = Append(heap, [zone |-> z, cache |-> NewCache(0)])
    BY <1>6 DEF LookupZone, GetRecordsCache
  <2> QED  BY <1>1, <2>1
<1>7. CASE UNCHANGED heap  BY <1>7
<1>8. ASSUME NEW u \in Users, ReadRecords(u) \/ EnterSet(u)  PROVE FALSE
  <2>1. PICK g \in Returns(heap[inside[u].cache].cache) : Update(inside[u].cache, g.cache)
    BY <1>8 DEF ReadRecords, EnterSet, ReadCache
  <2>2. inside[u].cache \in 1..Len(heap)
    BY <1>8, ReadsMoveOn, <2>1 DEF ReadRecords, EnterSet
  <2> QED  BY <1>3, <2>1, <2>2
<1>9. ASSUME NEW e \in 1..Len(heap), OthersRead(e)  PROVE FALSE
  BY <1>3, <1>9 DEF OthersRead
<1>10. UNCHANGED heap \/ (\E z \in Zones : LookupZone(z))
       \/ (\E e \in 1..Len(heap) : AskRecords(e) \/ RecordsAnswered(e) \/ OthersRead(e))
       \/ (\E u \in Users : ReadRecords(u) \/ EnterSet(u))
  BY DEF Next, Tick, Change, Delete, AskZones, ZonesAnswered, ListZones, LookupNoZone,
         Walk, ReadSet, dnsVars
<1> QED  BY <1>4, <1>5, <1>6, <1>7, <1>8, <1>9, <1>10

\* One goroutine at a time asks the API for the record sets of a zone, and not
\* until TTL after the last answer was stored.
THEOREM RecordRefreshes == Spec => RecordRefreshesSpaced
<1>1. IInv /\ [Next]_vars =>
        [\A c \in 1..Len(heap) : Locked(heap'[c].cache) /\ ~Locked(heap[c].cache) =>
           \A d \in CachesOf(heap[c].zone) :
             ~Locked(heap[d].cache) /\ now - heap[d].cache.fetched >= TTL]_vars
  <2> SUFFICES ASSUME IInv, Next, NEW c \in 1..Len(heap),
                      Locked(heap'[c].cache), ~Locked(heap[c].cache),
                      NEW d \in CachesOf(heap[c].zone)
               PROVE  ~Locked(heap[d].cache) /\ now - heap[d].cache.fetched >= TTL
    OBVIOUS
  <2>1. d = c  BY DEF IInv, OneCachePerZone, CachesOf
  <2>2. heap[c].cache \in CacheOf(Nat) /\ heap[c].cache.fetched \in Nat /\ now \in Nat
    BY HeapElement DEF IInv, Typed
  <2>3. Expired(heap[c].cache)  BY LocksByAsking
  <2> QED  BY <2>1, <2>2, <2>3 DEF Expired, Fresh
<1> QED  BY <1>1, AlwaysIInv, PTL DEF Spec, RecordRefreshesSpaced
=============================================================================
