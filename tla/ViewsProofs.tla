----------------------------- MODULE ViewsProofs -----------------------------
(***************************************************************************)
(* Proofs about Views: a walk through a view and the directory it leads    *)
(* into shows what the API had less than TTL + FetchMax before, for any    *)
(* number of users, resources and nodes, old and new.                      *)
(*                                                                         *)
(* The invariant adds to ViewsTypeOK what a link that is still to be       *)
(* followed remembers: its resource had the name then.                     *)
(***************************************************************************)
EXTENDS Views, TLAPS

CacheType == [data : States, fetched : Nat, asked : Nat, answer : SUBSET States]
NodeType == [view : Attrs \cup {Type, ByName}, cache : CacheType]

\* Node m with cache c.
With(m, c) == [m EXCEPT !.cache = c]

\* From when on the API's states matter to a walk whose first answer was at t.
Start(t, failed) == IF failed THEN 0 ELSE t - TTL - FetchMax + 1

\* A link not yet followed is to a resource that had the name.
LinkOK(l) ==
  /\ l.id \in Ids /\ l.name \in Attrs /\ l.first \in TTL..now /\ l.failed \in BOOLEAN
  /\ \E s \in StatesIn(Start(l.first, l.failed), now) : s[l.id] = l.name

\* The states that a walk with answer p may rely on.
Seen(p) == StatesIn(Start(p.first, p.failed), now)

\* What the two properties say of an answer, in one form.
AnswerOK(p) ==
  /\ p.failed \in BOOLEAN /\ p.empty \in BOOLEAN
  /\ p.state = "missing" =>
       \/ p.failed /\ p.empty
       \/ \E s \in Seen(p) : IF p.id = NoId THEN \A r \in Ids : s[r] # p.name
                                            ELSE s[p.id] # p.name
  /\ p.state # "missing" => p.id \in Ids /\ \E s \in Seen(p) : s[p.id] = p.name
  /\ p.state = "dangling" =>
       \/ p.failed /\ p.empty
       \/ \E s \in Seen(p) : s[p.id] = Gone /\ s[p.id] # p.name
  /\ p.state \in {"linked", "found", "missing", "dangling"}

LinkType == [id : {NoId}] \cup [id : Ids, name : Attrs, first : Nat, failed : BOOLEAN]

VInv ==
  /\ ViewsTypeOK
  /\ heap \in Seq(NodeType) /\ heap # << >>
  /\ link \in [Users -> LinkType]
  /\ \A u \in Users : link[u] # NoLink => LinkOK(link[u])
  /\ reply # NoReply => AnswerOK(reply)

-----------------------------------------------------------------------------
(* Lemmas about caches and times *)

\* The i-th element of a sequence is of the type of its elements.
LEMMA Element ==
  ASSUME NEW S, NEW q \in Seq(S), NEW i \in 1..Len(q)
  PROVE  q[i] \in S
  OBVIOUS

\* A sequence with another i-th element.
LEMMA Replaced ==
  ASSUME NEW S, NEW q \in Seq(S), NEW i \in 1..Len(q), NEW x \in S
  PROVE  /\ [q EXCEPT ![i] = x] \in Seq(S) /\ Len([q EXCEPT ![i] = x]) = Len(q)
         /\ \A j \in 1..Len(q) : [q EXCEPT ![i] = x][j] = IF j = i THEN x ELSE q[j]
  OBVIOUS

\* States of a longer span are not fewer.
LEMMA StatesInMono ==
  ASSUME NEW s \in Int, NEW t \in Int, NEW s2 \in Int, NEW t2 \in Int,
         s2 <= s \/ s2 = 0, t <= t2, past \in [0..MaxTime -> SUBSET States]
  PROVE  StatesIn(s, t) \subseteq StatesIn(s2, t2)
<1>1. {k \in DOMAIN past : s <= k /\ k <= t} \subseteq {k \in DOMAIN past : s2 <= k /\ k <= t2}
  BY BoundsAssumption
<1> QED  BY <1>1 DEF StatesIn

\* The clock and the API's states as every reachable state has them.
Times ==
  now \in TTL..MaxTime /\ past \in [0..MaxTime -> SUBSET States] /\ remote \in past[now]

\* The API's state of now is in each span that includes now.
LEMMA NowIsThere ==
  ASSUME Times, NEW t \in Int, t <= now
  PROVE  remote \in States /\ remote \in StatesIn(t, now)
<1> USE TTLAssumption, BoundsAssumption
<1>1. now \in DOMAIN past /\ past[now] \in SUBSET States  BY DEF Times
<1> QED  BY <1>1 DEF StatesIn, Times

\* A get() that finds the listing expired leaves a good cache, and so does the
\* API's answer.
LEMMA CallsAreGood ==
  ASSUME Times, NEW v \in Attrs \cup {Type, ByName}, NEW c \in CacheType, CacheOK(v, c)
  PROVE  /\ Expired(c) => CacheOK(v, Asking(c))
         /\ Waiting(c) => CacheOK(v, Answered(c, Listing(v, remote)))
<1> USE TTLAssumption, FetchMaxAssumption, BoundsAssumption
<1>1. now \in TTL..MaxTime /\ now \in Nat /\ now # 0  BY DEF Times
<1>2. ASSUME Expired(c)  PROVE CacheOK(v, Asking(c))
  <2> DEFINE d == Asking(c)
  <2>1. /\ d \in CacheType /\ d.data = c.data /\ d.fetched = c.fetched
        /\ d.asked = now /\ d.answer = c.answer
    BY <1>1 DEF Asking, CacheType
  <2>2. c.answer = {}  BY <1>2 DEF Expired, CacheOK
  <2> HIDE DEF d
  <2>3. \/ d.fetched = 0 /\ d.data = [r \in Ids |-> Gone]
        \/ d.fetched \in TTL..now /\ \E s \in StatesIn(d.fetched - FetchMax, d.fetched) :
             d.data = Listing(v, s)
    BY <2>1 DEF CacheOK
  <2>4. d.asked \in TTL..now /\ now - d.asked <= FetchMax  BY <1>1, <2>1
  <2>5. CacheOK(v, d)  BY <2>1, <2>2, <2>3, <2>4 DEF CacheOK, CacheType
  <2> QED  BY <2>5 DEF d
<1>3. ASSUME Waiting(c)  PROVE CacheOK(v, Answered(c, Listing(v, remote)))
  <2> DEFINE d == Answered(c, Listing(v, remote))
  <2>1. c.asked # 0 /\ c.asked \in TTL..now /\ now - c.asked <= FetchMax
    BY <1>3 DEF Waiting, Locked, CacheOK
  <2>2. remote \in States /\ remote \in StatesIn(c.asked, now)  BY <2>1, NowIsThere
  <2>3. Listing(v, remote) \in States  BY <2>2 DEF Listing, States
  <2>4. /\ d \in CacheType /\ d.data = c.data /\ d.fetched = c.fetched
        /\ d.asked = c.asked /\ d.answer = {Listing(v, remote)}
    BY <2>3 DEF Answered, CacheType
  <2> HIDE DEF d
  <2>5. \/ d.fetched = 0 /\ d.data = [r \in Ids |-> Gone]
        \/ d.fetched \in TTL..now /\ \E s \in StatesIn(d.fetched - FetchMax, d.fetched) :
             d.data = Listing(v, s)
    BY <2>4 DEF CacheOK
  <2>6. CacheOK(v, d)  BY <2>1, <2>2, <2>4, <2>5 DEF CacheOK, CacheType, Locked
  <2> QED  BY <2>6 DEF d
<1> QED  BY <1>2, <1>3

\* What a get() leaves is a good cache again, and a get() whose call has not
\* failed leaves a fresh one.
LEMMA AnswersAreGood ==
  ASSUME Times, NEW v \in Attrs \cup {Type, ByName}, NEW c \in CacheType, CacheOK(v, c),
         NEW g \in Returns(c)
  PROVE  /\ CacheOK(v, g.cache) /\ g.cache \in CacheType /\ g.failed \in BOOLEAN
         /\ ~g.failed => g.cache.fetched # 0 /\ now - g.cache.fetched < TTL
<1> USE TTLAssumption, FetchMaxAssumption, BoundsAssumption
<1>1. now \in TTL..MaxTime /\ now \in Nat /\ now # 0  BY DEF Times
<1>2. CASE ~Locked(c) /\ Fresh(c) /\ g = Returned(c, FALSE)
  <2>1. g.cache = c /\ g.failed = FALSE  BY <1>2 DEF Returned
  <2>2. c.fetched # 0 /\ now - c.fetched < TTL
    BY <1>1, <1>2 DEF Fresh, CacheType
  <2> QED  BY <2>1, <2>2
<1>3. ASSUME Locked(c), NEW d \in c.answer, g = Returned(Stored(c, d), FALSE)
      PROVE  /\ CacheOK(v, g.cache) /\ g.cache \in CacheType /\ g.failed = FALSE
             /\ g.cache.fetched = now
  <2> DEFINE h == Stored(c, d)
  <2>1. g.cache = h /\ g.failed = FALSE  BY <1>3 DEF Returned
  <2>2. d \in States  BY <1>3 DEF CacheType
  <2>3. /\ h \in CacheType /\ h.data = d /\ h.fetched = now /\ h.asked = 0 /\ h.answer = {}
    BY <1>1, <2>2 DEF Stored, NewCache, CacheType
  <2>4. c.asked \in TTL..now /\ now - c.asked <= FetchMax  BY <1>3 DEF CacheOK
  <2>5. PICK s \in StatesIn(c.asked, now) : d = Listing(v, s)  BY <1>3 DEF CacheOK
  <2>6. StatesIn(c.asked, now) \subseteq StatesIn(now - FetchMax, now)
    <3>1. /\ c.asked \in Int /\ now \in Int /\ now - FetchMax \in Int
          /\ now - FetchMax <= c.asked
      BY <1>1, <2>4
    <3> QED  BY <3>1, StatesInMono DEF Times
  <2> HIDE DEF h
  <2>7. \E x \in StatesIn(h.fetched - FetchMax, h.fetched) : h.data = Listing(v, x)
    BY <2>3, <2>5, <2>6
  <2>8. CacheOK(v, h)  BY <1>1, <2>3, <2>7 DEF CacheOK, CacheType, Locked
  <2> QED  BY <2>1, <2>3, <2>8
<1>4. CASE Locked(c) /\ g = Returned(Unlocked(c), TRUE)
  <2> DEFINE h == Unlocked(c)
  <2>1. g.cache = h /\ g.failed = TRUE  BY <1>4 DEF Returned
  <2>2. /\ h \in CacheType /\ h.data = c.data /\ h.fetched = c.fetched
        /\ h.asked = 0 /\ h.answer = {}
    BY DEF Unlocked, CacheType
  <2> HIDE DEF h
  <2>3. \/ h.fetched = 0 /\ h.data = [r \in Ids |-> Gone]
        \/ h.fetched \in TTL..now /\ \E s \in StatesIn(h.fetched - FetchMax, h.fetched) :
             h.data = Listing(v, s)
    BY <2>2 DEF CacheOK
  <2>4. CacheOK(v, h)  BY <2>2, <2>3 DEF CacheOK, CacheType, Locked
  <2> QED  BY <2>1, <2>2, <2>4
<1>5. CASE ~Locked(c)  BY <1>2, <1>5 DEF Returns
<1>6. CASE Locked(c)
  <2>1. CASE g = Returned(Unlocked(c), TRUE)  BY <1>4, <1>6, <2>1
  <2>2. ASSUME NEW d \in c.answer, g = Returned(Stored(c, d), FALSE)
        PROVE  /\ CacheOK(v, g.cache) /\ g.cache \in CacheType /\ g.failed \in BOOLEAN
               /\ g.cache.fetched # 0 /\ now - g.cache.fetched < TTL
    <3>1. /\ CacheOK(v, g.cache) /\ g.cache \in CacheType
          /\ g.failed = FALSE /\ g.cache.fetched = now
      BY <1>3, <1>6, <2>2
    <3>2. g.failed \in BOOLEAN  BY <3>1
    <3>3. g.cache.fetched # 0 /\ now - g.cache.fetched < TTL  BY <1>1, <3>1
    <3> QED  BY <3>1, <3>2, <3>3
  <2> QED  BY <1>6, <2>1, <2>2 DEF Returns, CacheOK, CacheType
<1> QED  BY <1>5, <1>6

\* What an answer shows is in the states that the walk may rely on; the cache
\* it leaves is empty only when its call has failed.
LEMMA AnswersAreRecent ==
  ASSUME Times, NEW v \in Attrs \cup {Type, ByName}, NEW c \in CacheType, CacheOK(v, c),
         NEW g \in Returns(c)
  PROVE  \/ /\ g.cache.fetched = 0 /\ g.failed
            /\ \A r \in Ids : g.cache.data[r] = Gone
         \/ \E s \in StatesIn(Start(now, g.failed), now) :
              s \in States /\ g.cache.data = Listing(v, s)
<1> USE TTLAssumption, FetchMaxAssumption, BoundsAssumption
<1> DEFINE h == g.cache
<1>1. /\ CacheOK(v, h) /\ g.failed \in BOOLEAN
      /\ ~g.failed => h.fetched # 0 /\ now - h.fetched < TTL
  BY AnswersAreGood
<1>2. now \in TTL..MaxTime /\ now \in Nat /\ past \in [0..MaxTime -> SUBSET States]
  BY DEF Times
<1> HIDE DEF h
<1>3. CASE h.fetched = 0 /\ h.data = [r \in Ids |-> Gone]
  BY <1>1, <1>3 DEF h
<1>4. ASSUME h.fetched \in TTL..now,
             NEW s \in StatesIn(h.fetched - FetchMax, h.fetched), h.data = Listing(v, s)
      PROVE  \E s2 \in StatesIn(Start(now, g.failed), now) :
               s2 \in States /\ h.data = Listing(v, s2)
  <2>1. PICK k \in 0..MaxTime : h.fetched - FetchMax <= k /\ k <= h.fetched /\ s \in past[k]
    BY <1>2, <1>4 DEF StatesIn
  <2>2. Start(now, g.failed) <= k /\ k <= now  BY <1>1, <1>2, <1>4, <2>1 DEF Start
  <2>3. s \in States /\ s \in StatesIn(Start(now, g.failed), now)
    BY <1>2, <2>1, <2>2 DEF StatesIn
  <2> QED  BY <1>4, <2>3
<1>5. \/ h.fetched = 0 /\ h.data = [r \in Ids |-> Gone]
      \/ h.fetched \in TTL..now /\ \E s \in StatesIn(h.fetched - FetchMax, h.fetched) :
           h.data = Listing(v, s)
  BY <1>1 DEF CacheOK
<1> QED  BY <1>3, <1>4, <1>5 DEF h

\* Good caches and links stay good while time passes and the API changes, if
\* no call outlasts its time.
LEMMA LaterIsGood ==
  ASSUME now \in TTL..MaxTime, past \in [0..MaxTime -> SUBSET States],
         now' \in Nat, now <= now', now' <= MaxTime,
         past' \in [0..MaxTime -> SUBSET States],
         \A k \in 0..now : past[k] \subseteq past'[k]
  PROVE  /\ \A m \in NodeType :
              NodeOK(m) /\ (Locked(m.cache) => now' - m.cache.asked <= FetchMax) => NodeOK(m)'
         /\ \A l : LinkOK(l) => LinkOK(l)'
<1> USE TTLAssumption, FetchMaxAssumption, BoundsAssumption
<1>1. ASSUME NEW s \in Int, NEW t \in Int, t <= now, NEW t2 \in Int, t <= t2
      PROVE  StatesIn(s, t) \subseteq StatesIn(s, t2)'
  <2> SUFFICES ASSUME NEW x \in StatesIn(s, t)  PROVE x \in StatesIn(s, t2)'
    OBVIOUS
  <2>1. PICK k \in 0..MaxTime : s <= k /\ k <= t /\ x \in past[k]  BY DEF StatesIn
  <2>2. x \in past'[k] /\ k <= t2  BY <1>1, <2>1
  <2> QED  BY <2>1, <2>2 DEF StatesIn
<1>2. ASSUME NEW m \in NodeType, NodeOK(m), Locked(m.cache) => now' - m.cache.asked <= FetchMax
      PROVE  NodeOK(m)'
  <2> DEFINE v == m.view
             c == m.cache
  <2>1. c \in CacheType /\ v \in Attrs \cup {Type, ByName} /\ CacheOK(v, c)
    BY <1>2 DEF NodeType, NodeOK
  <2> HIDE DEF c, v
  <2>2. c.fetched \in Nat /\ c.asked \in Nat  BY <2>1 DEF CacheType
  <2>3. \/ c.fetched = 0 /\ c.data = [r \in Ids |-> Gone]
        \/ c.fetched \in TTL..now' /\ \E s \in StatesIn(c.fetched - FetchMax, c.fetched)' :
             c.data = Listing(v, s)
    <3>1. ASSUME c.fetched \in TTL..now
          PROVE  /\ c.fetched \in TTL..now'
                 /\ StatesIn(c.fetched - FetchMax, c.fetched)
                      \subseteq StatesIn(c.fetched - FetchMax, c.fetched)'
      BY <1>1, <2>2, <3>1
    <3> QED  BY <2>1, <3>1 DEF CacheOK
  <2>4. ASSUME NEW d \in c.answer
        PROVE  Locked(c) /\ \E s \in StatesIn(c.asked, now)' : d = Listing(v, s)
    <3>1. PICK s \in StatesIn(c.asked, now) : d = Listing(v, s)  BY <2>1, <2>4 DEF CacheOK
    <3>2. PICK k \in 0..MaxTime : c.asked <= k /\ k <= now /\ s \in past[k]
      BY <3>1 DEF StatesIn
    <3>3. s \in past'[k] /\ k <= now'  BY <3>2
    <3>4. s \in StatesIn(c.asked, now)'  BY <3>2, <3>3 DEF StatesIn
    <3>5. Locked(c)  BY <2>1, <2>4 DEF CacheOK
    <3> QED  BY <3>1, <3>4, <3>5
  <2>5. Locked(c) => c.asked \in TTL..now' /\ now' - c.asked <= FetchMax
    <3>1. Locked(c) => c.asked \in TTL..now  BY <2>1 DEF CacheOK
    <3>2. Locked(c) => now' - c.asked <= FetchMax  BY <1>2 DEF c
    <3> QED  BY <2>2, <3>1, <3>2
  <2>6. CacheOK(v, c)'  BY <2>1, <2>3, <2>4, <2>5 DEF CacheOK, CacheType
  <2> QED  BY <2>1, <2>6 DEF NodeOK, v, c
<1>3. ASSUME NEW l, LinkOK(l)  PROVE LinkOK(l)'
  <2>1. PICK s \in StatesIn(Start(l.first, l.failed), now) : s[l.id] = l.name
    BY <1>3 DEF LinkOK
  <2>2. PICK k \in 0..MaxTime : Start(l.first, l.failed) <= k /\ k <= now /\ s \in past[k]
    BY <2>1 DEF StatesIn
  <2>3. s \in past'[k] /\ k <= now'  BY <2>2
  <2>4. s \in StatesIn(Start(l.first, l.failed), now)'
    BY <2>2, <2>3 DEF StatesIn, Start
  <2>5. l.first \in TTL..now'  BY <1>3 DEF LinkOK
  <2> QED  BY <1>3, <2>1, <2>4, <2>5 DEF LinkOK
<1> QED  BY <1>2, <1>3

\* What every reachable state has of the clock and of node n.
LEMMA NodesAreGood ==
  ASSUME VInv, NEW n \in Nodes
  PROVE  /\ Times /\ heap[n] \in NodeType /\ NodeOK(heap[n])
         /\ heap[n].view \in Attrs \cup {Type, ByName} /\ heap[n].cache \in CacheType
         /\ CacheOK(heap[n].view, heap[n].cache)
<1>1. heap \in Seq(NodeType)  BY DEF VInv
<1>2. heap[n] \in NodeType  BY <1>1, Element DEF Nodes
<1>3. heap[n].view \in Attrs \cup {Type, ByName} /\ heap[n].cache \in CacheType
  BY <1>2 DEF NodeType
<1> QED  BY <1>2, <1>3 DEF VInv, ViewsTypeOK, Times, NodeOK

\* A new cache at one node leaves all nodes good, if it is good itself.
LEMMA HeapStaysGood ==
  ASSUME VInv, NEW n \in Nodes, NEW c \in CacheType, CacheOK(heap[n].view, c),
         heap' = [heap EXCEPT ![n].cache = c], UNCHANGED <<now, remote, past>>
  PROVE  heap' \in Seq(NodeType) /\ heap' # << >> /\ ViewsTypeOK'
<1> USE TTLAssumption, FetchMaxAssumption, BoundsAssumption
<1> DEFINE m == With(heap[n], c)
<1>1. /\ now \in TTL..MaxTime /\ past \in [0..MaxTime -> SUBSET States] /\ remote \in past[now]
      /\ heap \in Seq(NodeType) /\ heap # << >> /\ heap[n] \in NodeType
  BY NodesAreGood DEF VInv, ViewsTypeOK
<1>2. /\ m \in NodeType /\ m.view = heap[n].view /\ m.cache = c
      /\ heap[n].view \in Attrs \cup {Type, ByName}
  BY <1>1 DEF With, NodeType
<1>3. heap' = [heap EXCEPT ![n] = m]  BY DEF With
<1> HIDE DEF m
<1>4. /\ heap' \in Seq(NodeType) /\ heap' # << >> /\ Len(heap') = Len(heap)
      /\ \A i \in 1..Len(heap) : heap'[i] = IF i = n THEN m ELSE heap[i]
  <2>1. m \in NodeType  BY <1>2
  <2>2. heap \in Seq(NodeType) /\ n \in 1..Len(heap) /\ Len(heap) # 0  BY <1>1 DEF Nodes
  <2>3. /\ heap' \in Seq(NodeType) /\ Len(heap') = Len(heap)
        /\ \A i \in 1..Len(heap) : heap'[i] = IF i = n THEN m ELSE heap[i]
    BY <1>3, <2>1, <2>2, Replaced
  <2>4. heap' # << >>  BY <2>2, <2>3
  <2> QED  BY <2>3, <2>4
<1>5. \A i \in Nodes' : NodeOK(heap[i])'
  <2> TAKE i \in Nodes'
  <2>1. i \in 1..Len(heap) /\ heap'[i] = IF i = n THEN m ELSE heap[i]
    BY <1>4 DEF Nodes
  <2>2. NodeOK(m)  BY <1>2 DEF NodeOK
  <2>3. NodeOK(heap'[i])  BY <2>1, <2>2 DEF VInv, ViewsTypeOK, Nodes
  <2> QED  BY <2>3 DEF NodeOK, CacheOK, StatesIn
<1>6. heap'[1].view = Type
  <2>1. 1 \in 1..Len(heap) /\ heap'[1] = IF 1 = n THEN m ELSE heap[1]  BY <1>1, <1>4
  <2> QED  BY <1>2, <2>1 DEF VInv, ViewsTypeOK
<1>7. ViewsTypeOK'  BY <1>1, <1>5, <1>6 DEF ViewsTypeOK
<1> QED  BY <1>4, <1>7

\* An update of one cache by a get() leaves all caches good.
LEMMA AnswerKeepsHeap ==
  ASSUME VInv, NEW n \in Nodes, NEW g \in Returns(heap[n].cache),
         heap' = [heap EXCEPT ![n].cache = g.cache], UNCHANGED <<now, remote, past>>
  PROVE  heap' \in Seq(NodeType) /\ heap' # << >> /\ ViewsTypeOK' /\ g.failed \in BOOLEAN
<1>1. g.cache \in CacheType /\ CacheOK(heap[n].view, g.cache) /\ g.failed \in BOOLEAN
  BY NodesAreGood, AnswersAreGood
<1> QED  BY <1>1, HeapStaysGood

\* What an answer from node n shows, if its cache is not an empty one: a state
\* that the walk may rely on.
LEMMA AnswerShows ==
  ASSUME VInv, NEW n \in Nodes, NEW g \in Returns(heap[n].cache)
  PROVE  \/ /\ g.failed /\ g.cache.fetched = 0
            /\ \A r \in Ids : g.cache.data[r] = Gone
         \/ \E s \in StatesIn(Start(now, g.failed), now) :
              s \in States /\ g.cache.data = Listing(heap[n].view, s)
  BY NodesAreGood, AnswersAreRecent

LEMMA StepFindLink ==
  ASSUME VInv, NEW u \in Users, NEW n \in Nodes, NEW a \in Attrs, FindLink(u, n, a)
  PROVE  VInv'
<1> USE TTLAssumption, FetchMaxAssumption, BoundsAssumption, NamesAssumption
<1>1. PICK g \in Returns(heap[n].cache) :
        /\ heap' = [heap EXCEPT ![n].cache = g.cache]
        /\ \/ \E r \in Listed(g.cache, a) :
                /\ link' = [link EXCEPT ![u] =
                     [id |-> r, name |-> a, first |-> now, failed |-> g.failed]]
                /\ Say("linked", g, a, r, now, g.failed)
           \/ /\ Listed(g.cache, a) = {}
              /\ Say("missing", g, a, NoId, now, g.failed)
              /\ UNCHANGED link
  BY DEF FindLink, Update
<1>2. UNCHANGED <<now, remote, past>> /\ heap[n].view = ByName  BY DEF FindLink, Update
<1>3. /\ heap' \in Seq(NodeType) /\ heap' # << >> /\ ViewsTypeOK'
      /\ g.failed \in BOOLEAN
  BY <1>1, <1>2, AnswerKeepsHeap
<1>4. \A r \in Ids, s \in States :
        g.cache.data = Listing(ByName, s) => (g.cache.data[r] = a <=> s[r] = a)
  BY DEF Listing, States
<1>5. now \in Nat /\ now \in TTL..now  BY DEF VInv, ViewsTypeOK
<1>6. link \in [Users -> LinkType] /\ \A v \in Users : link[v] # NoLink => LinkOK(link[v])
  BY DEF VInv
<1>7. ASSUME NEW r \in Listed(g.cache, a),
             link' = [link EXCEPT ![u] =
               [id |-> r, name |-> a, first |-> now, failed |-> g.failed]],
             Say("linked", g, a, r, now, g.failed)
      PROVE  VInv'
  <2> DEFINE l == [id |-> r, name |-> a, first |-> now, failed |-> g.failed]
  <2>1. r \in Ids /\ g.cache.data[r] = a  BY DEF Listed
  <2>2. \E s \in StatesIn(Start(now, g.failed), now) : s[r] = a
    BY <1>2, <1>4, <2>1, AnswerShows
  <2>3. LinkOK(l) /\ l \in LinkType  BY <1>3, <1>5, <2>1, <2>2 DEF LinkOK, LinkType
  <2>4. \A v \in Users : link'[v] = IF v = u THEN l ELSE link[v]  BY <1>6, <1>7
  <2>5. \A v \in Users : link'[v] # NoLink => LinkOK(link'[v])  BY <1>6, <2>3, <2>4
  <2>6. \A v \in Users : (link[v] # NoLink => LinkOK(link[v]))'
    BY <1>2, <2>5 DEF LinkOK, StatesIn, Start
  <2>7. link' \in [Users -> LinkType]  BY <1>6, <1>7, <2>3
  <2> DEFINE p == [state |-> "linked", name |-> a, id |-> r, first |-> now,
                   failed |-> g.failed, empty |-> g.cache.fetched = 0]
  <2>8. AnswerOK(p)  BY <1>3, <2>1, <2>2 DEF AnswerOK, Seen
  <2>9. reply' = p  BY <1>7 DEF Say
  <2>10. AnswerOK(reply)'
    BY <1>2, <2>8, <2>9 DEF AnswerOK, Seen, StatesIn, Start
  <2> QED  BY <1>3, <2>6, <2>7, <2>10 DEF VInv
<1>8. ASSUME Listed(g.cache, a) = {}, Say("missing", g, a, NoId, now, g.failed), UNCHANGED link
      PROVE  VInv'
  <2> DEFINE p == [state |-> "missing", name |-> a, id |-> NoId, first |-> now,
                   failed |-> g.failed, empty |-> g.cache.fetched = 0]
  <2>1. \A r \in Ids : g.cache.data[r] # a  BY <1>8 DEF Listed
  <2>2. \/ g.failed /\ g.cache.fetched = 0
        \/ \E s \in StatesIn(Start(now, g.failed), now) : \A r \in Ids : s[r] # a
    <3>1. CASE g.failed /\ g.cache.fetched = 0  BY <3>1
    <3>2. ASSUME NEW s \in StatesIn(Start(now, g.failed), now),
                 s \in States, g.cache.data = Listing(ByName, s)
          PROVE  \A r \in Ids : s[r] # a
      BY <1>4, <2>1, <3>2
    <3> QED  BY <1>2, <3>1, <3>2, AnswerShows
  <2>3. AnswerOK(p)  BY <1>3, <2>2 DEF AnswerOK, Seen
  <2>4. reply' = p  BY <1>8 DEF Say
  <2>5. AnswerOK(reply)'
    BY <1>2, <2>3, <2>4 DEF AnswerOK, Seen, StatesIn, Start
  <2>6. \A v \in Users : (link[v] # NoLink => LinkOK(link[v]))'
    BY <1>2, <1>6, <1>8 DEF LinkOK, StatesIn, Start
  <2> QED  BY <1>3, <1>6, <1>8, <2>5, <2>6 DEF VInv
<1> QED  BY <1>1, <1>7, <1>8

LEMMA StepFollowLink ==
  ASSUME VInv, NEW u \in Users, FollowLink(u)
  PROVE  VInv'
<1> USE TTLAssumption, FetchMaxAssumption, BoundsAssumption, NamesAssumption
<1> DEFINE l == link[u]
<1>1. 1 \in Nodes  BY DEF VInv, Nodes
<1>2. PICK g \in Returns(heap[1].cache) :
        /\ heap' = [heap EXCEPT ![1].cache = g.cache]
        /\ Say(IF g.cache.data[l.id] # Gone THEN "found" ELSE "dangling",
               g, l.name, l.id, l.first, l.failed \/ g.failed)
  BY DEF FollowLink, Update
<1>3. UNCHANGED <<now, remote, past>> /\ l # NoLink /\ link' = [link EXCEPT ![u] = NoLink]
  BY DEF FollowLink
<1>4. /\ heap' \in Seq(NodeType) /\ heap' # << >> /\ ViewsTypeOK' /\ g.failed \in BOOLEAN
  BY <1>1, <1>2, <1>3, AnswerKeepsHeap
<1>5. LinkOK(l) /\ link \in [Users -> LinkType]  BY <1>3 DEF VInv
<1>6. /\ l.id \in Ids /\ l.name \in Attrs /\ l.first \in TTL..now /\ l.failed \in BOOLEAN
  BY <1>5 DEF LinkOK
<1>7. past \in [0..MaxTime -> SUBSET States] /\ now \in TTL..MaxTime /\ heap[1].view = Type
  BY DEF VInv, ViewsTypeOK
<1> DEFINE failed == l.failed \/ g.failed
           span == StatesIn(Start(l.first, failed), now)
<1>8. StatesIn(Start(l.first, l.failed), now) \subseteq span
  <2>1. /\ Start(l.first, l.failed) \in Int /\ Start(l.first, failed) \in Int
        /\ Start(l.first, failed) <= Start(l.first, l.failed) \/ Start(l.first, failed) = 0
    BY <1>7, <1>4, <1>6 DEF Start
  <2> QED  BY <1>7, <2>1, StatesInMono
<1>9. StatesIn(Start(now, g.failed), now) \subseteq span
  <2>1. CASE failed
    <3>1. Start(now, g.failed) \in Int /\ Start(l.first, failed) = 0
      BY <1>4, <1>7, <2>1 DEF Start
    <3> QED  BY <1>7, <3>1, StatesInMono
  <2>2. CASE ~failed
    <3>1. g.failed = FALSE /\ failed = FALSE  BY <1>4, <2>2
    <3>2. /\ Start(now, g.failed) \in Int /\ Start(l.first, failed) \in Int
          /\ Start(l.first, failed) <= Start(now, g.failed)
      BY <1>6, <1>7, <3>1 DEF Start
    <3> QED  BY <1>7, <3>2, StatesInMono
  <2> QED  BY <2>1, <2>2
<1>10. PICK s0 \in span : s0[l.id] = l.name  BY <1>5, <1>8 DEF LinkOK
<1>11. \/ failed /\ g.cache.fetched = 0
       \/ \E s \in span : s \in States /\ g.cache.data = Listing(Type, s)
  BY <1>1, <1>7, <1>9, AnswerShows
<1>12. \A s \in States : Listing(Type, s) = s  BY DEF Listing, States
<1>13. g.cache.data[l.id] = Gone =>
         \/ failed /\ g.cache.fetched = 0
         \/ \E s \in span : s[l.id] = Gone /\ s[l.id] # l.name
  BY <1>6, <1>11, <1>12
<1> DEFINE p == [state |-> IF g.cache.data[l.id] # Gone THEN "found" ELSE "dangling",
                 name |-> l.name, id |-> l.id, first |-> l.first,
                 failed |-> failed, empty |-> g.cache.fetched = 0]
<1>14. /\ p.state = "dangling" => g.cache.data[l.id] = Gone
       /\ p.state \in {"found", "dangling"} /\ p.state # "missing"
  OBVIOUS
<1>15. p.failed \in BOOLEAN /\ p.empty \in BOOLEAN  BY <1>4, <1>6
<1>16. p.id = l.id /\ p.name = l.name /\ Seen(p) = span  BY DEF Seen
<1>17. p.state = "dangling" =>
         \/ p.failed /\ p.empty
         \/ \E s \in Seen(p) : s[p.id] = Gone /\ s[p.id] # p.name
  BY <1>13, <1>14, <1>16
<1>18. p.id \in Ids /\ \E s \in Seen(p) : s[p.id] = p.name  BY <1>6, <1>10, <1>16
<1>19. AnswerOK(p)  BY <1>14, <1>15, <1>17, <1>18 DEF AnswerOK
<1>20. reply' = p  BY <1>2 DEF Say
<1>21. AnswerOK(reply)'
  BY <1>3, <1>19, <1>20 DEF AnswerOK, Seen, StatesIn, Start
<1>22. link' \in [Users -> LinkType] /\ \A v \in Users : link'[v] = IF v = u THEN NoLink ELSE link[v]
  BY <1>3, <1>5 DEF LinkType, NoLink
<1>23. \A v \in Users : link'[v] # NoLink => LinkOK(link'[v])  BY <1>22 DEF VInv
<1>24. \A v \in Users : (link[v] # NoLink => LinkOK(link[v]))'
  BY <1>3, <1>23 DEF LinkOK, StatesIn, Start, NoLink
<1> QED  BY <1>4, <1>21, <1>22, <1>24 DEF VInv

LEMMA StepFindLabelled ==
  ASSUME VInv, NEW n \in Nodes, NEW r \in Ids, FindLabelled(n, r)
  PROVE  VInv'
<1> USE TTLAssumption, FetchMaxAssumption, BoundsAssumption, NamesAssumption
<1> DEFINE a == heap[n].view
<1>1. PICK g \in Returns(heap[n].cache) :
        /\ heap' = [heap EXCEPT ![n].cache = g.cache]
        /\ Say(IF g.cache.data[r] # Gone THEN "found" ELSE "missing", g, a, r, now, g.failed)
  BY DEF FindLabelled, Update
<1>2. UNCHANGED <<now, remote, past, link>> /\ a \in Attrs  BY DEF FindLabelled
<1>3. /\ heap' \in Seq(NodeType) /\ heap' # << >> /\ ViewsTypeOK'
      /\ g.failed \in BOOLEAN
  BY <1>1, <1>2, AnswerKeepsHeap
<1>4. \A s \in States :
        g.cache.data = Listing(a, s) => (g.cache.data[r] # Gone <=> s[r] = a)
  BY <1>2 DEF Listing, States
<1> DEFINE p == [state |-> IF g.cache.data[r] # Gone THEN "found" ELSE "missing",
                 name |-> a, id |-> r, first |-> now,
                 failed |-> g.failed, empty |-> g.cache.fetched = 0]
<1>5. g.cache.data[r] # Gone => \E s \in StatesIn(Start(now, g.failed), now) : s[r] = a
  BY <1>4, AnswerShows
<1>6. g.cache.data[r] = Gone =>
        \/ p.failed /\ p.empty
        \/ \E s \in StatesIn(Start(now, g.failed), now) : s[r] # a
  BY <1>4, AnswerShows
<1>7. /\ p.state = "missing" => g.cache.data[r] = Gone
      /\ p.state # "missing" => g.cache.data[r] # Gone
      /\ p.state \in {"found", "missing"} /\ p.state # "dangling"
  OBVIOUS
<1>8. p.failed \in BOOLEAN /\ p.empty \in BOOLEAN  BY <1>3
<1>9. p.id = r /\ p.id # NoId /\ p.name = a /\ Seen(p) = StatesIn(Start(now, g.failed), now)
  BY DEF Seen
<1>10. AnswerOK(p)  BY <1>5, <1>6, <1>7, <1>8, <1>9 DEF AnswerOK
<1>11. reply' = p  BY <1>1 DEF Say
<1>12. AnswerOK(reply)'
  BY <1>2, <1>10, <1>11 DEF AnswerOK, Seen, StatesIn, Start
<1>13. \A v \in Users : (link[v] # NoLink => LinkOK(link[v]))'
  BY <1>2 DEF VInv, LinkOK, StatesIn, Start
<1> QED  BY <1>2, <1>3, <1>12, <1>13 DEF VInv

\* Time passes, or the API's state changes.
LEMMA StepEnvironment ==
  ASSUME VInv, Tick \/ \E r \in Ids, a \in Attrs \cup {Blank, Gone} : Change(r, a)
  PROVE  VInv'
<1> USE TTLAssumption, FetchMaxAssumption, BoundsAssumption
<1>1. /\ now \in TTL..MaxTime /\ past \in [0..MaxTime -> SUBSET States] /\ remote \in past[now]
  BY DEF VInv, ViewsTypeOK
<1>2. UNCHANGED <<heap, link>> /\ reply' = NoReply  BY DEF Tick, Change
<1>3. /\ now' \in TTL..MaxTime /\ now <= now'
      /\ past' \in [0..MaxTime -> SUBSET States] /\ remote' \in past'[now']
      /\ \A k \in 0..now : past[k] \subseteq past'[k]
  <2>1. CASE Tick
    <3>1. remote \in States  BY <1>1
    <3> QED  BY <1>1, <2>1, <3>1 DEF Tick
  <2>2. ASSUME NEW r \in Ids, NEW a \in Attrs \cup {Blank, Gone}, Change(r, a)
        PROVE  /\ now' = now /\ past' \in [0..MaxTime -> SUBSET States] /\ remote' \in past'[now']
               /\ \A k \in 0..now : past[k] \subseteq past'[k]
    <3>1. remote \in States  BY <1>1
    <3>2. remote' \in States  BY <2>2, <3>1 DEF Change, States
    <3>3. past' = [past EXCEPT ![now] = past[now] \cup {remote'}] /\ now' = now
      BY <2>2 DEF Change
    <3> QED  BY <1>1, <3>2, <3>3
  <2> QED  BY <1>1, <2>1, <2>2
<1>4. /\ \A m \in NodeType :
           NodeOK(m) /\ (Locked(m.cache) => now' - m.cache.asked <= FetchMax) => NodeOK(m)'
      /\ \A l : LinkOK(l) => LinkOK(l)'
  BY <1>1, <1>3, LaterIsGood
<1>5. \A n \in Nodes' : NodeOK(heap[n])'
  <2> TAKE n \in Nodes'
  <2>1. n \in Nodes  BY <1>2 DEF Nodes
  <2>2. heap[n] \in NodeType /\ NodeOK(heap[n])  BY <2>1, NodesAreGood
  <2>3. Locked(heap[n].cache) => now' - heap[n].cache.asked <= FetchMax
    <3>1. heap[n].cache.asked \in Nat  BY <2>2 DEF NodeType, CacheType
    <3>2. CASE Tick  BY <1>1, <2>1, <3>1, <3>2 DEF Tick, InTime, Locked
    <3>3. CASE \E r \in Ids, a \in Attrs \cup {Blank, Gone} : Change(r, a)
      BY <2>2, <3>3 DEF Change, NodeOK, CacheOK
    <3> QED  BY <3>2, <3>3
  <2>4. NodeOK(heap[n])'  BY <1>2, <1>4, <2>2, <2>3
  <2> QED  BY <2>4
<1>6. \A u \in Users : (link[u] # NoLink => LinkOK(link[u]))'
  BY <1>2, <1>4 DEF VInv, NoLink
<1> QED  BY <1>2, <1>3, <1>5, <1>6 DEF VInv, ViewsTypeOK

LEMMA StepReaddir ==
  ASSUME VInv, NEW n \in Nodes, Readdir(n) \/ Ask(n) \/ ApiAnswers(n)
  PROVE  VInv'
<1>1. UNCHANGED <<now, remote, past, link>> /\ reply' = NoReply
  BY DEF Readdir, Ask, ApiAnswers
<1>2. Times /\ heap[n] \in NodeType /\ NodeOK(heap[n])  BY NodesAreGood
<1>3. /\ heap[n].cache \in CacheType /\ heap[n].view \in Attrs \cup {Type, ByName}
      /\ CacheOK(heap[n].view, heap[n].cache)
  BY NodesAreGood
<1>4. heap' \in Seq(NodeType) /\ heap' # << >> /\ ViewsTypeOK'
  <2>1. CASE Readdir(n)
    BY <1>1, <2>1, AnswerKeepsHeap DEF Readdir, Update
  <2>2. CASE Ask(n)
    <3>1. Expired(heap[n].cache) /\ heap' = [heap EXCEPT ![n].cache = Asking(heap[n].cache)]
      BY <2>2 DEF Ask, Update
    <3>2. CacheOK(heap[n].view, Asking(heap[n].cache))
      BY <1>2, <1>3, <3>1, CallsAreGood
    <3>3. Asking(heap[n].cache) \in CacheType
      BY <1>2, <1>3, TTLAssumption DEF Asking, CacheType, Times
    <3> QED  BY <1>1, <3>1, <3>2, <3>3, HeapStaysGood
  <2>3. CASE ApiAnswers(n)
    <3> DEFINE d == Listing(heap[n].view, remote)
    <3>1. Waiting(heap[n].cache) /\ heap' = [heap EXCEPT ![n].cache = Answered(heap[n].cache, d)]
      BY <2>3 DEF ApiAnswers, Update
    <3>2. CacheOK(heap[n].view, Answered(heap[n].cache, d))
      BY <1>2, <1>3, <3>1, CallsAreGood
    <3>3. remote \in States
      BY <1>2, NowIsThere, TTLAssumption, BoundsAssumption DEF Times
    <3>4. d \in States  BY <1>3, <3>3 DEF Listing, States
    <3>5. Answered(heap[n].cache, d) \in CacheType
      BY <1>3, <3>4 DEF Answered, CacheType
    <3> QED  BY <1>1, <3>1, <3>2, <3>5, HeapStaysGood
  <2> QED  BY <2>1, <2>2, <2>3
<1>5. \A u \in Users : (link[u] # NoLink => LinkOK(link[u]))'
  BY <1>1 DEF VInv, LinkOK, StatesIn, Start
<1> QED  BY <1>1, <1>4, <1>5 DEF VInv

\* A new node is a good one.
LEMMA NewNodesAreGood ==
  ASSUME NEW v \in Attrs \cup {Type, ByName}
  PROVE  NewNode(v) \in NodeType /\ NewNode(v).view = v /\ NodeOK(NewNode(v))
<1> DEFINE empty == [r \in Ids |-> Gone]
<1>1. empty \in States  BY DEF States
<1> HIDE DEF empty
<1>2. /\ NewCache(empty) \in CacheType /\ NewCache(empty).data = empty
      /\ NewCache(empty).fetched = 0 /\ NewCache(empty).asked = 0 /\ NewCache(empty).answer = {}
  BY <1>1 DEF NewCache, CacheType
<1>3. NewNode(v) = [view |-> v, cache |-> NewCache(empty)]  BY DEF NewNode, empty
<1>4. NewNode(v).view = v /\ NewNode(v).cache = NewCache(empty) /\ NewNode(v) \in NodeType
  BY <1>2, <1>3 DEF NodeType
<1>5. CacheOK(v, NewCache(empty))  BY <1>2 DEF CacheOK, CacheType, Locked, empty
<1> QED  BY <1>4, <1>5 DEF NodeOK

LEMMA StepMakeNode ==
  ASSUME VInv, NEW v \in Attrs \cup {ByName}, MakeNode(v)
  PROVE  VInv'
<1> USE TTLAssumption, FetchMaxAssumption, BoundsAssumption
<1>1. UNCHANGED <<now, remote, past, link>> /\ reply' = NoReply /\ heap' = Append(heap, NewNode(v))
  BY DEF MakeNode
<1>2. NewNode(v) \in NodeType /\ NewNode(v).view = v  BY NewNodesAreGood
<1>3. NodeOK(NewNode(v))  BY NewNodesAreGood
<1>4. heap \in Seq(NodeType) /\ heap # << >>  BY DEF VInv
<1>5. /\ heap' \in Seq(NodeType) /\ heap' # << >> /\ Len(heap') = Len(heap) + 1
      /\ \A i \in 1..Len(heap) : heap'[i] = heap[i]
      /\ heap'[Len(heap) + 1] = NewNode(v)
  BY <1>1, <1>2, <1>4
<1>6. \A i \in Nodes' : NodeOK(heap[i])'
  <2> TAKE i \in Nodes'
  <2>1. NodeOK(heap'[i])
    <3>1. CASE i = Len(heap) + 1  BY <1>3, <1>5, <3>1
    <3>2. CASE i \in 1..Len(heap)  BY <1>5, <3>2 DEF VInv, ViewsTypeOK, Nodes
    <3>3. i \in 1..(Len(heap) + 1)  BY <1>5 DEF Nodes
    <3>4. Len(heap) \in Nat  BY <1>4
    <3> QED  BY <3>1, <3>2, <3>3, <3>4
  <2>2. UNCHANGED <<now, past>>  BY <1>1
  <2> QED  BY <2>1, <2>2 DEF NodeOK, CacheOK, StatesIn
<1>7. 1 \in 1..Len(heap) /\ heap'[1].view = Type  BY <1>4, <1>5 DEF VInv, ViewsTypeOK
<1>8. \A u \in Users : (link[u] # NoLink => LinkOK(link[u]))'
  BY <1>1 DEF VInv, LinkOK, StatesIn, Start
<1> QED  BY <1>1, <1>5, <1>6, <1>7, <1>8 DEF VInv, ViewsTypeOK

-----------------------------------------------------------------------------
(* The theorems *)

LEMMA InitVInv == Init => VInv
<1> SUFFICES ASSUME Init PROVE VInv  OBVIOUS
<1> USE TTLAssumption, FetchMaxAssumption, BoundsAssumption DEF Init
<1>1. NewNode(Type) \in NodeType /\ NewNode(Type).view = Type  BY NewNodesAreGood
<1>2. NodeOK(NewNode(Type))  BY NewNodesAreGood
<1>3. /\ heap = <<NewNode(Type)>> /\ heap \in Seq(NodeType) /\ heap # << >>
      /\ Len(heap) = 1 /\ heap[1] = NewNode(Type)
  BY <1>1
<1>4. \A i \in Nodes : NodeOK(heap[i])  BY <1>2, <1>3 DEF Nodes
<1>5. /\ now \in TTL..MaxTime /\ past \in [0..MaxTime -> SUBSET States] /\ remote \in past[now]
  OBVIOUS
<1>6. link \in [Users -> LinkType] /\ \A u \in Users : link[u] = NoLink
  BY DEF LinkType, NoLink
<1> QED  BY <1>1, <1>3, <1>4, <1>5, <1>6 DEF VInv, ViewsTypeOK

LEMMA NextVInv == VInv /\ [Next]_vars => VInv'
<1> SUFFICES ASSUME VInv, [Next]_vars PROVE VInv'  OBVIOUS
<1>1. CASE Tick \/ \E r \in Ids, a \in Attrs \cup {Blank, Gone} : Change(r, a)
  BY <1>1, StepEnvironment
<1>2. ASSUME NEW v \in Attrs \cup {ByName}, MakeNode(v)  PROVE VInv'
  BY <1>2, StepMakeNode
<1>3. ASSUME NEW n \in Nodes, Readdir(n) \/ Ask(n) \/ ApiAnswers(n)  PROVE VInv'
  BY <1>3, StepReaddir
<1>4. ASSUME NEW n \in Nodes, NEW r \in Ids, FindLabelled(n, r)  PROVE VInv'
  BY <1>4, StepFindLabelled
<1>5. ASSUME NEW n \in Nodes, NEW u \in Users, NEW a \in Attrs, FindLink(u, n, a)  PROVE VInv'
  BY <1>5, StepFindLink
<1>6. ASSUME NEW u \in Users, FollowLink(u)  PROVE VInv'
  BY <1>6, StepFollowLink
<1>7. CASE UNCHANGED vars
  BY <1>7 DEF vars, VInv, ViewsTypeOK, NodeOK, CacheOK, Nodes, LinkOK, AnswerOK, Seen, StatesIn, Start
<1> QED  BY <1>1, <1>2, <1>3, <1>4, <1>5, <1>6, <1>7 DEF Next

LEMMA AlwaysVInv == Spec => []VInv
  BY InitVInv, NextVInv, PTL DEF Spec

\* What the invariant knows of an answer are the two properties.
LEMMA AnswersHaveProperties == VInv => StableNamesResolve /\ WalksAreTruthful
<1> SUFFICES ASSUME VInv, reply # NoReply
             PROVE  StableNamesResolve /\ WalksAreTruthful
  BY DEF StableNamesResolve, WalksAreTruthful
<1>1. AnswerOK(reply)  BY DEF VInv
<1>2. ~reply.failed => Seen(reply) = Recent  BY DEF Seen, Start, Recent
<1>3. reply.failed => Seen(reply) = StatesIn(0, now)  BY DEF Seen, Start
<1>4. StableNamesResolve
  <2> SUFFICES ASSUME ~reply.failed, NEW r \in Ids, \A s \in Recent : s[r] = reply.name
               PROVE  reply.id # NoId /\ (reply.id = r => reply.state \in {"linked", "found"})
    BY DEF StableNamesResolve
  <2> QED  BY <1>1, <1>2, NamesAssumption DEF AnswerOK
<1>5. WalksAreTruthful
  BY <1>1, <1>2, <1>3, NamesAssumption DEF AnswerOK, WalksAreTruthful
<1> QED  BY <1>4, <1>5

\* Every cache of every node, whenever it was made, is empty or shows a
\* listing that the API had at the time of its stamp, or FetchMax before it.
THEOREM TypeCorrect == Spec => []ViewsTypeOK
<1>1. VInv => ViewsTypeOK  BY DEF VInv
<1> QED  BY <1>1, AlwaysVInv, PTL

\* Names and labels that have stayed for TTL + FetchMax lead to their resource, through
\* old and new nodes and two caches, for any number of users and resources.
THEOREM NamesResolve == Spec => []StableNamesResolve
  BY AnswersHaveProperties, AlwaysVInv, PTL

\* Links, dangling links and refusals show what the API had less than TTL +
\* FetchMax before the walk's first answer or since, or once had if a call has failed.
THEOREM WalksTruthful == Spec => []WalksAreTruthful
  BY AnswersHaveProperties, AlwaysVInv, PTL
=============================================================================
