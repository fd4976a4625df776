-------------------------------- MODULE Views --------------------------------
(***************************************************************************)
(* by_name.go and by_label.go: the views by-name/<type> and                *)
(* by-label/<selector>/<type> beside the directory <type> itself.          *)
(*                                                                         *)
(* Each Lookup of a view's directory makes a new node with a new, empty    *)
(* cache.  The kernel keeps the name of a node for cacheTTL or shorter,    *)
(* and who is inside stays in the node that was entered: any node that was *)
(* ever made may be in use.  A name in by-name/<type> is a link            *)
(* ../../<type>/<id>: it is found in the cache of the node and followed,   *)
(* some time later, into the directory <type>, which has another cache.    *)
(*                                                                         *)
(* One attribute of a resource matters: its name for by-name, its label    *)
(* for by-label.  Each request is a get() of CacheCalls: a Lookup is       *)
(* answered when its get() returns, FetchMax after the API's state was     *)
(* read or sooner, and the walk may have waited for that call of its own   *)
(* or of another goroutine.                                                *)
(***************************************************************************)
EXTENDS CacheCalls, Sequences

CONSTANTS Users,       \* processes that use the views
          Ids,         \* ids of resources
          Attrs,       \* names, and selectors that a label matches
          Blank,       \* a resource without a name (a backup image) or label
          Gone,        \* no such resource
          Type, ByName,\* the directory <type>, and by-name/<type>
          NoId,        \* no resource found
          MaxTime,     \* bound on the clock
          MaxChanges,  \* bound on the changes of the API's state
          MaxNodes     \* bound on the nodes made, <type> included

ASSUME NamesAssumption ==
  /\ Blank \notin Attrs /\ Gone \notin Attrs \cup {Blank}
  /\ Type \notin Attrs /\ ByName \notin Attrs \cup {Type}
  /\ NoId \notin Ids
ASSUME BoundsAssumption == MaxTime \in Nat /\ TTL <= MaxTime

VARIABLES remote,      \* the API's state: the attribute of each resource (external)
          changes,     \* how often it has changed
          past,        \* auxiliary: the API's states at each time
          heap,        \* the nodes made so far, with their caches; the first is <type>
          link,        \* the link each user has read and is about to follow
          reply        \* what the last step has answered

vars == <<now, remote, changes, past, heap, link, reply>>

Nodes == 1..Len(heap)

States == [Ids -> Attrs \cup {Blank, Gone}]

NewNode(v) == [view |-> v, cache |-> NewCache([r \in Ids |-> Gone])]

NoLink == [id |-> NoId]
NoReply == [state |-> "none"]

Init ==
  /\ now = TTL   \* long after the zero time: a zero stamp has expired
  /\ remote \in States
  /\ changes = 0
  /\ past = [t \in 0..MaxTime |-> IF t = TTL THEN {remote} ELSE {}]
  /\ heap = <<NewNode(Type)>>
  /\ link = [u \in Users |-> NoLink]
  /\ reply = NoReply

-----------------------------------------------------------------------------
(* The environment *)

Tick ==
  /\ now < MaxTime
  /\ \A n \in Nodes : InTime(heap[n].cache)
  /\ now' = now + 1
  /\ past' = [past EXCEPT ![now + 1] = {remote}]
  /\ reply' = NoReply
  /\ UNCHANGED <<remote, changes, heap, link>>

\* A resource is created, renamed, relabelled or deleted; ids are never used
\* again.
Change(r, a) ==
  /\ changes < MaxChanges
  /\ changes' = changes + 1
  /\ remote[r] # a
  /\ remote[r] = Gone => \A t \in DOMAIN past : \A s \in past[t] : s[r] = Gone
  /\ remote' = [remote EXCEPT ![r] = a]
  /\ past' = [past EXCEPT ![now] = @ \cup {remote'}]
  /\ reply' = NoReply
  /\ UNCHANGED <<now, heap, link>>

-----------------------------------------------------------------------------
(* The caches *)

\* What the list call of a view's cache returns for state s: by-label passes
\* the selector on, by-name drops the unnamed.
ListingUnfiltered(v, s) == s
Listing(v, s) ==
  [r \in Ids |-> IF v = Type \/ s[r] = v \/ (v = ByName /\ s[r] # Blank)
                 THEN s[r] ELSE Gone]

\* The cache of node n is c from now on.
Update(n, c) == heap' = [heap EXCEPT ![n].cache = c]

\* Any request at node n, after the view's listing has expired.
Ask(n) ==
  /\ Expired(heap[n].cache)
  /\ Update(n, Asking(heap[n].cache))
  /\ reply' = NoReply
  /\ UNCHANGED <<now, remote, changes, past, link>>

ApiAnswers(n) ==
  /\ Waiting(heap[n].cache)
  /\ Update(n, Answered(heap[n].cache, Listing(heap[n].view, remote)))
  /\ reply' = NoReply
  /\ UNCHANGED <<now, remote, changes, past, link>>

-----------------------------------------------------------------------------
(* Requests.  Those that read a cache end here, with what get() returns. *)

\* byNameNode.Lookup, labelFilterNode.Lookup: a new node.
MakeNode(v) ==
  /\ Len(heap) < MaxNodes
  /\ heap' = Append(heap, NewNode(v))
  /\ reply' = NoReply
  /\ UNCHANGED <<now, remote, changes, past, link>>

\* Readdir of a view, or of <type>.
Readdir(n) ==
  /\ \E g \in Returns(heap[n].cache) : Update(n, g.cache)
  /\ reply' = NoReply
  /\ UNCHANGED <<now, remote, changes, past, link>>

\* A Lookup has been answered from the cache that g leaves: what it says of
\* the resource id, with name a.  The walk had its first answer at time t.
Say(state, g, a, id, t, failed) ==
  reply' = [state |-> state, name |-> a, id |-> id, first |-> t,
            failed |-> failed, empty |-> g.cache.fetched = 0]

\* The resources listed in cache c with attribute a.
Listed(c, a) == {r \in Ids : c.data[r] = a}

\* byNameTypeNode.Lookup: the link of the first resource with the name (the
\* API orders the listing), or ENOENT.
FindLink(u, n, a) ==
  /\ heap[n].view = ByName
  /\ \E g \in Returns(heap[n].cache) :
       /\ Update(n, g.cache)
       /\ \/ \E r \in Listed(g.cache, a) :
               /\ link' = [link EXCEPT ![u] =
                    [id |-> r, name |-> a, first |-> now, failed |-> g.failed]]
               /\ Say("linked", g, a, r, now, g.failed)
          \/ /\ Listed(g.cache, a) = {}
             /\ Say("missing", g, a, NoId, now, g.failed)
             /\ UNCHANGED link
  /\ UNCHANGED <<now, remote, changes, past>>

\* The link is followed: resourceDir.Lookup in <type>.
FollowLink(u) ==
  /\ link[u] # NoLink
  /\ \E g \in Returns(heap[1].cache) :
       /\ Update(1, g.cache)
       /\ Say(IF g.cache.data[link[u].id] # Gone THEN "found" ELSE "dangling",
              g, link[u].name, link[u].id, link[u].first, link[u].failed \/ g.failed)
  /\ link' = [link EXCEPT ![u] = NoLink]
  /\ UNCHANGED <<now, remote, changes, past>>

\* resourceDir.Lookup of an id in by-label/<selector>/<type>.
FindLabelled(n, r) ==
  /\ heap[n].view \in Attrs
  /\ \E g \in Returns(heap[n].cache) :
       /\ Update(n, g.cache)
       /\ Say(IF g.cache.data[r] # Gone THEN "found" ELSE "missing",
              g, heap[n].view, r, now, g.failed)
  /\ UNCHANGED <<now, remote, changes, past, link>>

Next ==
  \/ Tick
  \/ \E r \in Ids, a \in Attrs \cup {Blank, Gone} : Change(r, a)
  \/ \E v \in Attrs \cup {ByName} : MakeNode(v)
  \/ \E n \in Nodes :
       \/ Ask(n) \/ ApiAnswers(n) \/ Readdir(n)
       \/ \E r \in Ids : FindLabelled(n, r)
       \/ \E u \in Users, a \in Attrs : FindLink(u, n, a)
  \/ \E u \in Users : FollowLink(u)

Spec == Init /\ [][Next]_vars

-----------------------------------------------------------------------------
(* Properties *)

\* The API's states between times s and t.
StatesIn(s, t) == UNION {past[m] : m \in {k \in DOMAIN past : s <= k /\ k <= t}}

\* A cache has never been filled, or shows the listing of a state that the API
\* had FetchMax before its stamp or later; an answer on its way is of a state
\* the API has had since the call began.
CacheOK(v, c) ==
  /\ c \in [data : States, fetched : Nat, asked : Nat, answer : SUBSET States]
  /\ \/ c.fetched = 0 /\ c.data = [r \in Ids |-> Gone]
     \/ c.fetched \in TTL..now /\ \E s \in StatesIn(c.fetched - FetchMax, c.fetched) :
          c.data = Listing(v, s)
  /\ Locked(c) => c.asked \in TTL..now /\ now - c.asked <= FetchMax
  /\ \A d \in c.answer : Locked(c) /\ \E s \in StatesIn(c.asked, now) : d = Listing(v, s)

NodeOK(m) == m.view \in Attrs \cup {Type, ByName} /\ CacheOK(m.view, m.cache)

\* The values the variables range over: all caches of all nodes, old and new,
\* show what the API had, and the first is that of <type>.
ViewsTypeOK ==
  /\ now \in TTL..MaxTime
  /\ past \in [0..MaxTime -> SUBSET States]
  /\ remote \in past[now]
  /\ \A n \in Nodes : NodeOK(heap[n])
  /\ heap[1].view = Type

\* The API's states that the walk answered last may rely on: those of the last
\* TTL + FetchMax before its first answer, and since.
Recent == StatesIn(reply.first - TTL - FetchMax + 1, now)

\* A resource that has had a name, or a label, for TTL + FetchMax is there
\* under it: a walk by name finds a link, and if it is to that resource the
\* link leads there; a walk by label to its id is not refused.  So it is
\* whichever of the two caches is older, however old the node, and whether
\* the walk was answered at once or waited for calls, unless a call that it
\* waited for has failed.
StableNamesResolve ==
  reply # NoReply /\ ~reply.failed =>
    \A r \in Ids : (\A s \in Recent : s[r] = reply.name) =>
      /\ reply.id # NoId
      /\ reply.id = r => reply.state \in {"linked", "found"}

\* A link is to a resource that had the name less than TTL + FetchMax before
\* the link was read, and it dangles only if that resource is gone since; a
\* resource is found by label only if it had it, and missed only if it had it
\* not.  When a call has failed the answer may be older, but it is still what
\* the API once had, or comes from a cache that has never been filled.
WalksAreTruthful ==
  reply # NoReply =>
    LET seen == IF reply.failed THEN StatesIn(0, now) ELSE Recent
        Named(s) == IF reply.id = NoId THEN \E r \in Ids : s[r] = reply.name
                                       ELSE s[reply.id] = reply.name
    IN  /\ reply.state # "missing" => \E s \in seen : Named(s)
        /\ reply.state = "dangling" => reply.empty \/ \E s \in seen : s[reply.id] = Gone
        /\ reply.state = "missing" => reply.empty \/ \E s \in seen : ~Named(s)
=============================================================================
