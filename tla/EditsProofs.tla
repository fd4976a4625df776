---------------------------- MODULE EditsProofs ----------------------------
(***************************************************************************)
(* Proofs about Edits, for every set of users and of files, any labels and *)
(* names, TTL and bounds.                                                  *)
(*                                                                         *)
(* What a save undoes is judged long after the content was read, so EInv   *)
(* follows the content from the API through the listing, the file inode    *)
(* and the handle: whatever the API has otherwise now has changed since    *)
(* the content was listed, each of the two caches adds less than a TTL to  *)
(* its age, and the call that has listed it FetchMax at most, unless a     *)
(* refresh has failed.                                                     *)
(***************************************************************************)
EXTENDS Edits, TLAPS

\* Where the API's content differs from c, it has changed at or after time at.
SeenAt(c, at) ==
  \A x \in Parts : (x \in remote.content \/ x \in c) =>
    (x \in remote.content /\ x \in c) \/ changed[x] >= at

\* A draft is a text of its user's, or what the open has read with some labels
\* changed.
WrittenOver(h) == h.touched = Parts /\ h.draft \in Texts
EditedFrom(h) ==
  /\ h.content \in Contents(kind, file)
  /\ h.touched \in SUBSET Labels
  /\ file # "labels.json" => h.touched = {}
  /\ h.draft = (h.content \ h.touched) \cup (h.touched \ h.content)

Handles ==
  [phase : {"closed", "open", "calling", "applied"}, content : SUBSET Parts, at : Nat,
   late : BOOLEAN, since : Nat, draft : SUBSET (Parts \cup {"null", "?", "on", "shutdown"}),
   touched : SUBSET Parts, dirty : BOOLEAN, took : BOOLEAN, closed : {"no", "ok", "error"}]

HandleOK(h) ==
  /\ h \in Handles
  /\ h.dirty => Writable
  /\ h.at <= h.since /\ h.since <= now
  /\ SeenAt(h.content, h.at)
  /\ h.since < h.at + 2 * TTL + FetchMax \/ h.late
  /\ h.phase # "closed" => WrittenOver(h) \/ EditedFrom(h)
  /\ h.phase \in {"calling", "applied"} => h.dirty /\ Calls(file, h.draft)
  /\ h.phase = "applied" \/ h.closed = "ok" => h.took \/ LeftOut(file, h.draft)

Inodes == [content : SUBSET Parts, at : Nat, late : BOOLEAN, until : Nat]

InodeOK(i) ==
  /\ i \in Inodes
  /\ i.at <= now
  /\ SeenAt(i.content, i.at)
  /\ i.until < i.at + 2 * TTL + FetchMax \/ i.late
  /\ i # NoInode => i.content \in Contents(kind, file) /\ now <= i.until

Listings == [content : SUBSET Parts, exists : BOOLEAN, at : Nat, late : BOOLEAN]

ListingOK(l) ==
  /\ l \in Listings
  /\ l.at <= now
  /\ SeenAt(l.content, l.at)
  /\ l.exists => l.content \in Contents(kind, file)

\* A cache whose data are in D.
CacheOf(D) == [data : D, fetched : Nat, asked : Nat, answer : SUBSET D]

\* What is cached was read FetchMax before its stamp or later, and so was what
\* a call brings.
CacheOK(c) ==
  /\ c \in CacheOf(Listings)
  /\ c.fetched <= now /\ c.data.at <= c.fetched /\ c.fetched - c.data.at <= FetchMax
  /\ ListingOK(c.data)
  /\ Locked(c) => c.asked <= now /\ now - c.asked <= FetchMax
  /\ \A d \in c.answer : Locked(c) /\ c.asked <= d.at /\ ListingOK(d)

RemoteOK ==
  /\ kind \in DOMAIN Table /\ file \in FilesOf(kind)
  /\ now \in Nat
  /\ remote \in [content : Contents(kind, file), exists : BOOLEAN]
  /\ changed \in [Parts -> Nat]
  /\ \A x \in Parts : changed[x] <= now

EInv ==
  /\ RemoteOK
  /\ CacheOK(listing)
  /\ inode = [u \in Users |-> inode[u]] /\ \A u \in Users : InodeOK(inode[u])
  /\ handle = [u \in Users |-> handle[u]] /\ \A u \in Users : HandleOK(handle[u])

USE TTLAssumption, FetchMaxAssumption

-----------------------------------------------------------------------------
\* The files that can be written, of all the kinds.
LEMMA WritableFiles ==
  ASSUME NEW k \in DOMAIN Table
  PROVE  /\ Table[k].writable \subseteq {"name", "labels.json", "status"}
         /\ "status" \in Table[k].writable => k = "servers"
<1>1. k \in {"servers", "volumes", "images", "certificates", "firewalls", "floating_ips",
            "load_balancers", "networks", "placement_groups", "primary_ips", "ssh_keys",
            "isos", "locations", "server_types"}
  BY DEF Table
<1>2. CASE k = "servers"
  <2>1. Table[k].writable = Labelled \cup {"status"}
    BY <1>2 DEF Table, Servers
  <2> QED
    BY <1>2, <2>1 DEF Labelled
<1>3. CASE k = "images"
  <2>1. Table[k].writable = {"labels.json"}
    BY <1>3 DEF Table, Images
  <2> QED
    BY <2>1
<1>4. CASE k \in {"isos", "locations", "server_types"}
  <2>1. Table[k].writable = {}
    BY <1>4 DEF Table, ISOs, Locations, ServerTypes
  <2> QED
    BY <2>1
<1>5. CASE k \in {"volumes", "certificates", "firewalls", "floating_ips", "load_balancers",
                "networks", "placement_groups", "primary_ips", "ssh_keys"}
  <2>1. Table[k].writable = Labelled
    BY <1>5 DEF Table, Volumes, Certificates, Firewalls, FloatingIPs, LoadBalancers, Networks,
       PlacementGroups, PrimaryIPs, SSHKeys
  <2> QED
    BY <2>1 DEF Labelled
<1> QED
  BY <1>1, <1>2, <1>3, <1>4, <1>5

\* Contents are sets of parts.
LEMMA ContentsAreParts == \A c \in Contents(kind, file) : c \subseteq Parts
BY DEF Contents, Parts

-----------------------------------------------------------------------------
(* Steps of the environment *)

\* What holds of a handle, an inode that the kernel still knows and the listing
\* goes on to hold while the content they have is told from the API's.
EnvStays ==
  /\ UNCHANGED <<kind, file>>
  /\ now' \in Nat /\ now <= now'
  /\ \A c \in SUBSET Parts : \A t \in Nat : t <= now /\ SeenAt(c, t) => SeenAt(c, t)'

LEMMA AllStay ==
  ASSUME RemoteOK, EnvStays
  PROVE  /\ \A h : HandleOK(h) => HandleOK(h)'
         /\ \A i : InodeOK(i) /\ (i = NoInode \/ now' <= i.until) => InodeOK(i)'
         /\ \A l : ListingOK(l) => ListingOK(l)'
<1>1. ASSUME NEW h, HandleOK(h) PROVE HandleOK(h)'
  <2>1. h.content \in SUBSET Parts /\ h.at \in Nat /\ h.since \in Nat
    BY <1>1 DEF HandleOK, Handles
  <2>2. h.at <= now /\ h.since <= now'
    BY <1>1, <2>1 DEF HandleOK, EnvStays, RemoteOK
  <2>3. SeenAt(h.content, h.at)'
    BY <1>1, <2>1, <2>2 DEF HandleOK, EnvStays
  <2>4. WrittenOver(h) \/ EditedFrom(h) => (WrittenOver(h) \/ EditedFrom(h))'
    BY DEF EnvStays, WrittenOver, EditedFrom, Texts
  <2>5. Writable' = Writable
    BY DEF EnvStays, Writable
  <2> QED
    BY <1>1, <2>2, <2>3, <2>4, <2>5 DEF HandleOK, EnvStays
<1>2. ASSUME NEW i, InodeOK(i), i = NoInode \/ now' <= i.until PROVE InodeOK(i)'
  <2>1. i.content \in SUBSET Parts /\ i.at \in Nat
    BY <1>2 DEF InodeOK, Inodes
  <2>2. i.at <= now' /\ SeenAt(i.content, i.at)'
    BY <1>2, <2>1 DEF InodeOK, EnvStays, RemoteOK
  <2> QED
    BY <1>2, <2>2 DEF InodeOK, EnvStays
<1>3. ASSUME NEW l, ListingOK(l) PROVE ListingOK(l)'
  <2>1. l.content \in SUBSET Parts /\ l.at \in Nat
    BY <1>3 DEF ListingOK, Listings
  <2>2. l.at <= now' /\ SeenAt(l.content, l.at)'
    BY <1>3, <2>1 DEF ListingOK, EnvStays, RemoteOK
  <2> QED
    BY <1>3, <2>2 DEF ListingOK, EnvStays
<1> QED
  BY <1>1, <1>2, <1>3

LEMMA CacheStays ==
  ASSUME RemoteOK, EnvStays, NEW c, CacheOK(c), Locked(c) => now' - c.asked <= FetchMax
  PROVE  CacheOK(c)'
<1>1. /\ c \in CacheOf(Listings) /\ c.fetched \in Nat /\ c.asked \in Nat
      /\ now \in Nat /\ now' \in Nat /\ now <= now'
  BY DEF CacheOK, CacheOf, RemoteOK, EnvStays
<1>2. c.fetched <= now' /\ (Locked(c) => c.asked <= now')
  BY <1>1 DEF CacheOK
<1>3. ListingOK(c.data)' /\ \A d \in c.answer : ListingOK(d)'
  BY AllStay DEF CacheOK
<1>4. /\ c.data.at <= c.fetched /\ c.fetched - c.data.at <= FetchMax
      /\ \A d \in c.answer : Locked(c) /\ c.asked <= d.at
  BY DEF CacheOK
<1> QED
  BY <1>1, <1>2, <1>3, <1>4 DEF CacheOK, Locked

LEMMA UnchangedStays ==
  RemoteOK /\ UNCHANGED <<kind, file, now, remote, changed>> => RemoteOK' /\ EnvStays
BY DEF RemoteOK, EnvStays, SeenAt

\* A change is dated: nothing that has been read hides it.
LEMMA BecomesStays ==
  ASSUME RemoteOK, NEW c \in Contents(kind, file), Becomes(c), UNCHANGED <<kind, file, now>>
  PROVE  RemoteOK' /\ EnvStays
<1>1. /\ remote'.content = c /\ remote' \in [content : Contents(kind, file), exists : BOOLEAN]
  BY DEF Becomes, RemoteOK
<1>2. \A x \in Parts : changed'[x] =
        IF x \in (c \ remote.content) \cup (remote.content \ c) THEN now ELSE changed[x]
  BY DEF Becomes
<1>3. changed' \in [Parts -> Nat] /\ \A x \in Parts : changed'[x] <= now
  BY <1>2 DEF Becomes, RemoteOK
<1>4. ASSUME NEW d \in SUBSET Parts, NEW t \in Nat, t <= now, SeenAt(d, t) PROVE SeenAt(d, t)'
  BY <1>1, <1>2, <1>4 DEF SeenAt, RemoteOK
<1> QED
  BY <1>1, <1>3, <1>4 DEF RemoteOK, EnvStays

\* At a step that takes no time.
LEMMA UnlockedStays ==
  ASSUME RemoteOK, EnvStays, now' = now, NEW c, CacheOK(c)
  PROVE  CacheOK(c)'
<1>1. Locked(c) => now' - c.asked <= FetchMax
  BY DEF CacheOK
<1> QED
  BY <1>1, CacheStays

\* A step of the environment that leaves the caches and the handles alone.
LEMMA EnvEInv ==
  ASSUME EInv, RemoteOK', EnvStays, now' = now, UNCHANGED <<listing, inode, handle>>
  PROVE  EInv'
<1>1. \A v \in Users : HandleOK(handle[v])'
  BY AllStay DEF EInv
<1>2. \A v \in Users : InodeOK(inode[v])'
  BY AllStay DEF EInv, InodeOK
<1>3. CacheOK(listing)'
  <2>1. CacheOK(listing)  BY DEF EInv
  <2> QED  BY <2>1, UnlockedStays DEF EInv
<1> QED
  BY <1>1, <1>2, <1>3 DEF EInv

-----------------------------------------------------------------------------
(* Steps of a user *)

\* One handle is replaced by one that is in order.
LEMMA SetHandle ==
  ASSUME EInv, RemoteOK', EnvStays, now' = now, UNCHANGED <<listing, inode>>,
         NEW u \in Users, NEW h, HandleOK(h), handle' = [handle EXCEPT ![u] = h]
  PROVE  EInv'
<1>1. \A v \in Users : HandleOK(handle[v])'
  <2> SUFFICES ASSUME NEW v \in Users PROVE HandleOK(handle[v])'
    OBVIOUS
  <2>1. PICK g : g = handle'[v] /\ HandleOK(g)
    BY DEF EInv
  <2>2. HandleOK(g)'
    BY <2>1, AllStay DEF EInv
  <2> QED
    BY <2>1, <2>2
<1>2. \A v \in Users : InodeOK(inode[v])'
  BY AllStay DEF EInv, InodeOK
<1>3. CacheOK(listing)'
  <2>1. CacheOK(listing)  BY DEF EInv
  <2> QED  BY <2>1, UnlockedStays DEF EInv
<1>4. handle' = [v \in Users |-> handle'[v]]
  BY DEF EInv
<1> QED
  BY <1>1, <1>2, <1>3, <1>4 DEF EInv

LEMMA ClosedOK == RemoteOK => HandleOK(Closed)
<1> SUFFICES ASSUME RemoteOK PROVE HandleOK(Closed)
  OBVIOUS
<1>1. Closed \in Handles
  BY DEF Closed, Handles
<1>2. SeenAt({}, 0)
  BY DEF SeenAt, RemoteOK
<1> QED
  BY <1>1, <1>2 DEF HandleOK, Closed, RemoteOK

\* An open copies the content of an inode that is in order.
LEMMA OpenedOK ==
  ASSUME RemoteOK, NEW i, InodeOK(i), i # NoInode
  PROVE  HandleOK([Closed EXCEPT !.phase = "open", !.content = i.content, !.draft = i.content,
                                 !.at = i.at, !.late = i.late, !.since = now])
<1> DEFINE h == [Closed EXCEPT !.phase = "open", !.content = i.content, !.draft = i.content,
                             !.at = i.at, !.late = i.late, !.since = now]
<1>1. i.content \in SUBSET Parts /\ i.at \in Nat /\ i.late \in BOOLEAN /\ i.until \in Nat
  BY DEF InodeOK, Inodes
<1>2. h \in Handles
  <2>1. Closed \in Handles
    BY ClosedOK DEF HandleOK
  <2> QED
    BY <1>1, <2>1 DEF Handles, RemoteOK
<1>3. /\ h.phase = "open" /\ h.content = i.content /\ h.draft = i.content /\ h.at = i.at
      /\ h.since = now /\ h.touched = {} /\ h.closed = "no"
  BY DEF Closed
<1>4. h.late = i.late /\ ~h.dirty
  BY DEF Closed
<1> HIDE DEF h
<1>5. /\ i.at <= now /\ SeenAt(i.content, i.at) /\ i.content \in Contents(kind, file)
      /\ now <= i.until /\ (i.until < i.at + 2 * TTL + FetchMax \/ i.late)
  BY DEF InodeOK
<1>6. now < i.at + 2 * TTL + FetchMax \/ i.late
  BY <1>1, <1>5 DEF RemoteOK
<1>7. EditedFrom(h)
  BY <1>3, <1>5 DEF EditedFrom
<1>8. HandleOK(h)
  BY <1>2, <1>3, <1>4, <1>5, <1>6, <1>7 DEF HandleOK, RemoteOK
<1> QED
  BY <1>8 DEF h

\* What a user writes over the content,
LEMMA ReplacedOK ==
  ASSUME RemoteOK, Writable, NEW h \in Replace
  PROVE  HandleOK(h)
<1>1. PICK d \in Texts : h = [Replaced EXCEPT !.draft = d]
  BY DEF Replace
<1>2. d \in SUBSET (Parts \cup {"null", "?", "on", "shutdown"})
  BY DEF Texts, Parts, Null, Malformed
<1>3. Closed \in Handles
  BY ClosedOK DEF HandleOK
<1>4. Replaced \in Handles
  BY <1>3 DEF Replaced, Handles
<1>5. h \in Handles
  BY <1>1, <1>2, <1>4 DEF Handles
<1>6. /\ h.phase = "open" /\ h.content = {} /\ h.draft = d /\ h.at = 0 /\ h.since = 0
      /\ h.touched = Parts /\ h.closed = "no"
  BY <1>1 DEF Replaced, Closed
<1>7. SeenAt({}, 0)
  BY DEF SeenAt, RemoteOK
<1>8. WrittenOver(h)
  BY <1>6 DEF WrittenOver
<1> QED
  BY <1>5, <1>6, <1>7, <1>8 DEF HandleOK, RemoteOK

\* and what an editor makes of what it has read.
LEMMA FlippedOK ==
  ASSUME RemoteOK, Writable, NEW g, HandleOK(g), g.phase = "open", g.touched = {},
         NEW h \in Edit(g)
  PROVE  HandleOK(h)
<1>1. PICK ls \in {{}} \cup {{x} : x \in IF file = "labels.json" THEN Labels ELSE {}} :
        h = Flipped(g, ls)
  BY DEF Edit
<1>2. ls \in SUBSET Labels /\ (file # "labels.json" => ls = {})
  OBVIOUS
<1> DEFINE d == (g.content \ ls) \cup (ls \ g.content)
<1>3. h = [g EXCEPT !.draft = d, !.touched = ls, !.dirty = TRUE, !.took = FALSE, !.closed = "no"]
  BY <1>1 DEF Flipped
<1>4. d \in SUBSET (Parts \cup {"null", "?", "on", "shutdown"}) /\ ls \in SUBSET Parts
  BY <1>2 DEF HandleOK, Handles, Parts
<1>5. g \in Handles
  BY DEF HandleOK
<1>6. h \in Handles
  BY <1>3, <1>4, <1>5 DEF Handles
<1>7. /\ h.phase = "open" /\ h.content = g.content /\ h.draft = d /\ h.at = g.at
      /\ h.since = g.since /\ h.touched = ls /\ h.closed = "no"
  BY <1>3, <1>5 DEF Handles
<1>8. h.late = g.late
  BY <1>3, <1>5 DEF Handles
<1>9. g.content \in Contents(kind, file)
  <2>1. {} # Parts
    BY DEF Parts
  <2> QED
    BY <2>1 DEF HandleOK, WrittenOver, EditedFrom
<1>10. EditedFrom(h)
  BY <1>2, <1>7, <1>9 DEF EditedFrom
<1> QED
  BY <1>6, <1>7, <1>8, <1>10 DEF HandleOK

LEMMA WriteEInv ==
  ASSUME EInv, NEW u \in Users, Write(u)
  PROVE  EInv'
<1>1. RemoteOK /\ HandleOK(handle[u])
  BY DEF EInv
<1>2. RemoteOK' /\ EnvStays
  BY <1>1, UnchangedStays DEF Write, WriteAnywhere
<1>3. PICK h : HandleOK(h) /\ handle' = [handle EXCEPT ![u] = h]
  <2>1. CASE \E h \in Replace : handle' = [handle EXCEPT ![u] = h]
    BY <1>1, <2>1, ReplacedOK DEF Write
  <2>2. CASE \E h \in Edit(handle[u]) :
               handle[u].touched = {} /\ handle' = [handle EXCEPT ![u] = h]
    BY <1>1, <2>2, FlippedOK DEF Write, WriteAnywhere
  <2> QED
    BY <2>1, <2>2 DEF Write, WriteAnywhere
<1> QED
  BY <1>2, <1>3, SetHandle DEF Write, WriteAnywhere

\* A FLUSH and its end change where the handle is and what the close returned.
LEMMA MovedOK ==
  ASSUME RemoteOK, NEW g, HandleOK(g), g.phase # "closed",
         NEW phase \in {"open", "calling"}, NEW returned \in {"no", "error"},
         phase = "calling" => g.dirty /\ Calls(file, g.draft)
  PROVE  HandleOK([g EXCEPT !.phase = phase, !.closed = returned])
<1> DEFINE h == [g EXCEPT !.phase = phase, !.closed = returned]
<1>1. g \in Handles
  BY DEF HandleOK
<1>2. h \in Handles
  BY <1>1 DEF Handles
<1>3. /\ h.phase = phase /\ h.closed = returned /\ h.content = g.content /\ h.draft = g.draft
      /\ h.at = g.at /\ h.since = g.since /\ h.touched = g.touched
  BY <1>1 DEF Handles
<1>4. h.late = g.late /\ h.dirty = g.dirty
  BY <1>1 DEF Handles
<1> HIDE DEF h
<1>5. WrittenOver(h) \/ EditedFrom(h)
  BY <1>3 DEF HandleOK, WrittenOver, EditedFrom
<1>6. HandleOK(h)
  BY <1>2, <1>3, <1>4, <1>5 DEF HandleOK
<1> QED
  BY <1>6 DEF h

LEMMA FlushEInv ==
  ASSUME EInv, NEW u \in Users, FlushRefused(u) \/ FlushCalls(u) \/ FlushErr(u)
  PROVE  EInv'
<1>1. RemoteOK /\ HandleOK(handle[u])
  BY DEF EInv
<1>2. UNCHANGED <<kind, file, now, remote, changed, listing, inode>>
  BY DEF FlushRefused, FlushCalls, FlushErr, FlushAs, CallFails
<1>3. RemoteOK' /\ EnvStays
  BY <1>1, <1>2, UnchangedStays
<1>4. PICK phase \in {"open", "calling"}, returned \in {"no", "error"} :
        /\ handle' = [handle EXCEPT ![u].phase = phase, ![u].closed = returned]
        /\ phase = "calling" => handle[u].dirty /\ Calls(file, handle[u].draft)
        /\ handle[u].phase # "closed"
  BY DEF FlushRefused, FlushCalls, FlushErr, FlushAs, CallFails
<1> DEFINE h == [handle[u] EXCEPT !.phase = phase, !.closed = returned]
<1>5. handle' = [handle EXCEPT ![u] = h]
  BY <1>4
<1>6. HandleOK(h)
  BY <1>1, <1>4, MovedOK
<1> HIDE DEF h
<1> QED
  BY <1>2, <1>3, <1>5, <1>6, SetHandle

LEMMA FlushOKEInv ==
  ASSUME EInv, NEW u \in Users, FlushOK(u)
  PROVE  EInv'
<1>1. RemoteOK /\ HandleOK(handle[u])
  BY DEF EInv
<1>2. UNCHANGED <<kind, file, now, remote, changed, listing, inode>> /\ handle[u].phase = "applied"
  BY DEF FlushOK
<1>3. RemoteOK' /\ EnvStays
  BY <1>1, <1>2, UnchangedStays
<1> DEFINE g == handle[u]
           h == [g EXCEPT !.phase = "open", !.dirty = FALSE, !.closed = "ok"]
<1>4. handle' = [handle EXCEPT ![u] = h]
  BY DEF FlushOK
<1>5. HandleOK(h)
  <2>1. g \in Handles
    BY <1>1 DEF HandleOK
  <2>2. h \in Handles
    BY <2>1 DEF Handles
  <2>3. /\ h.phase = "open" /\ h.content = g.content /\ h.draft = g.draft
        /\ h.at = g.at /\ h.since = g.since /\ h.touched = g.touched
    BY <2>1 DEF Handles
  <2>4. h.late = g.late /\ ~h.dirty /\ h.took = g.took
    BY <2>1 DEF Handles
  <2> HIDE DEF h, g
  <2>5. HandleOK(g) /\ g.phase = "applied"
    BY <1>1, <1>2 DEF g
  <2>6. WrittenOver(h) \/ EditedFrom(h)
    BY <2>3, <2>5 DEF HandleOK, WrittenOver, EditedFrom
  <2> QED
    BY <2>2, <2>3, <2>4, <2>5, <2>6 DEF HandleOK
<1> HIDE DEF h
<1> QED
  BY <1>2, <1>3, <1>4, <1>5, SetHandle

LEMMA ReleaseEInv ==
  ASSUME EInv, NEW u \in Users, Release(u)
  PROVE  EInv'
<1>1. RemoteOK' /\ EnvStays
  BY UnchangedStays DEF EInv, Release
<1>2. HandleOK(Closed)
  BY ClosedOK DEF EInv
<1> QED
  BY <1>1, <1>2, SetHandle DEF Release

LEMMA OpenKnownEInv ==
  ASSUME EInv, NEW u \in Users, OpenKnown(u)
  PROVE  EInv'
<1> DEFINE i == inode[u]
           h == [Closed EXCEPT !.phase = "open", !.content = i.content, !.draft = i.content,
                               !.at = i.at, !.late = i.late, !.since = now]
<1>1. RemoteOK' /\ EnvStays
  BY UnchangedStays DEF EInv, OpenKnown
<1>2. HandleOK(h)
  BY OpenedOK DEF EInv, OpenKnown
<1>3. handle' = [handle EXCEPT ![u] = h]
  BY DEF OpenKnown, Opened
<1> HIDE DEF h
<1> QED
  BY <1>1, <1>2, <1>3, SetHandle DEF OpenKnown

-----------------------------------------------------------------------------
(* What the API makes of a draft *)

\* Only labels, names and the status of a server reach the API,
LEMMA CallingWhat ==
  ASSUME RemoteOK, NEW g, HandleOK(g), g.phase = "calling"
  PROVE  /\ Calls(file, g.draft)
         /\ file \in {"name", "labels.json"} \/ (file = "status" /\ kind = "servers")
         /\ WrittenOver(g) \/ EditedFrom(g)
<1>1. /\ Calls(file, g.draft) /\ g.dirty /\ Writable
      /\ WrittenOver(g) \/ EditedFrom(g)
  BY DEF HandleOK
<1>2. kind \in DOMAIN Table /\ file \in Table[kind].writable
  BY <1>1 DEF Writable, RemoteOK
<1> QED
  BY <1>1, <1>2, WritableFiles

\* and what the API has then is a content of the file.
LEMMA OutcomeIsContent ==
  ASSUME RemoteOK, NEW g, HandleOK(g), g.phase = "calling",
         NEW c \in Outcomes(kind, file, g.draft, remote.content)
  PROVE  c \in Contents(kind, file)
<1>1. remote.content \in Contents(kind, file)
  BY DEF RemoteOK
<1>2. CASE file = "name"
  <2>1. g.draft = {} \/ \E n \in Names : g.draft = {n}
    BY <1>2, CallingWhat DEF WrittenOver, EditedFrom, Texts, Contents
  <2>2. c = remote.content \/ (c = g.draft /\ g.draft # {})
    BY <1>2 DEF Outcomes, MayClear, LeftOut
  <2> QED
    BY <1>1, <1>2, <2>1, <2>2 DEF Contents
<1>3. CASE file = "labels.json"
  <2>1. g.draft \in SUBSET Labels \/ g.draft \in {Null, Malformed}
    BY <1>3, CallingWhat DEF WrittenOver, EditedFrom, Texts, Contents
  <2>2. g.draft # Malformed
    BY <1>3, CallingWhat DEF Calls
  <2>3. c = remote.content \/ c = {} \/ (c = g.draft /\ g.draft # Null)
    BY <1>3 DEF Outcomes, MayClear, LeftOut
  <2> QED
    BY <1>1, <1>3, <2>1, <2>2, <2>3 DEF Contents
<1>4. CASE file = "status" /\ kind = "servers"
  <2>1. g.draft \in PowersOff \cup PowersOn
    BY <1>4, CallingWhat DEF Calls
  <2>2. c \in {remote.content, {"off"}, {"running"}, {"busy"}}
    BY <1>4, <2>1 DEF Outcomes, MayClear, LeftOut, Power
  <2> QED
    BY <1>1, <1>4, <2>2 DEF Contents, Statuses
<1> QED
  BY <1>2, <1>3, <1>4, CallingWhat

\* It is what the user has asked for, unless the request leaves it out.
LEMMA OutcomeIsAsked ==
  ASSUME RemoteOK, NEW g, HandleOK(g), g.phase = "calling",
         NEW c \in Outcomes(kind, file, g.draft, remote.content)
  PROVE  c \in Asked(g.draft) \/ LeftOut(file, g.draft)
<1>1. CASE file = "status"
  <2>1. CASE g.draft \in PowersOff
    BY <1>1, <2>1 DEF Outcomes, MayClear, LeftOut, Power, Asked
  <2>2. CASE g.draft \in PowersOn
    <3>1. g.draft \notin PowersOff
      BY <2>2 DEF PowersOn, PowersOff
    <3> QED
      BY <1>1, <2>2, <3>1 DEF Outcomes, MayClear, LeftOut, Power, Asked
  <2> QED
    BY <1>1, <2>1, <2>2, CallingWhat DEF Calls
<1>2. CASE file # "status"
  BY <1>2 DEF Outcomes, MayClear, LeftOut, Asked
<1> QED
  BY <1>1, <1>2

\* It takes away nothing that the open has read, but what the user has decided
\* on.
LEMMA OutcomeTakes ==
  ASSUME RemoteOK, NEW g, HandleOK(g), g.phase = "calling",
         NEW c \in Outcomes(kind, file, g.draft, remote.content),
         NEW x \in Parts, x \in remote.content, x \notin c, x \in g.content
  PROVE  x \in g.touched
<1>1. CASE WrittenOver(g)
  BY <1>1 DEF WrittenOver
<1>2. CASE EditedFrom(g)
  <2>1. CASE file = "labels.json"
    <3>1. g.draft \subseteq Labels
      BY <1>2, <2>1 DEF EditedFrom, Contents
    <3>2. g.draft # Null
      BY <3>1, LabelsAssumption DEF Null
    <3>3. c = g.draft
      BY <2>1, <3>2 DEF Outcomes, MayClear, LeftOut
    <3> QED
      BY <1>2, <3>3 DEF EditedFrom
  <2>2. CASE file # "labels.json"
    <3>1. g.draft = g.content
      BY <1>2, <2>2 DEF EditedFrom
    <3>2. CASE file = "name"
      <4>1. c = remote.content \/ c = g.draft
        BY <3>2 DEF Outcomes, MayClear, LeftOut
      <4> QED
        BY <3>1, <4>1
    <3>3. CASE file = "status" /\ kind = "servers"
      <4>1. /\ \E s \in Statuses : g.content = {s}
            /\ \E s \in Statuses : remote.content = {s}
        BY <1>2, <3>3 DEF EditedFrom, Contents, RemoteOK
      <4>2. g.content = {x} /\ remote.content = {x}
        BY <4>1
      <4>3. CASE g.draft \in PowersOff
        <5>1. remote.content = {"off"} /\ g.draft \notin PowersOn
          BY <3>1, <4>1, <4>2, <4>3 DEF PowersOn, PowersOff, Statuses
        <5>2. c \in Power(remote.content, {"off"}, {"busy"})
          BY <3>3, <4>3, <5>1 DEF Outcomes, MayClear, LeftOut
        <5>3. c = remote.content
          BY <5>1, <5>2 DEF Power
        <5> QED
          BY <5>3
      <4>4. CASE g.draft \in PowersOn
        <5>1. remote.content = {"running"} /\ g.draft \notin PowersOff
          BY <3>1, <4>1, <4>2, <4>4 DEF PowersOn, PowersOff, Statuses
        <5>2. c \in Power(remote.content, {"running"}, {"busy"})
          BY <3>3, <4>4, <5>1 DEF Outcomes, MayClear, LeftOut
        <5>3. c = remote.content
          BY <5>1, <5>2 DEF Power
        <5> QED
          BY <5>3
      <4> QED
        BY <3>3, <4>3, <4>4, CallingWhat DEF Calls
    <3> QED
      BY <2>2, <3>2, <3>3, CallingWhat
  <2> QED
    BY <2>1, <2>2
<1> QED
  BY <1>1, <1>2, CallingWhat

LEMMA ApiAppliesEInv ==
  ASSUME EInv, NEW u \in Users, ApiApplies(u)
  PROVE  EInv'
<1> DEFINE g == handle[u]
<1>1. RemoteOK /\ HandleOK(g) /\ g.phase = "calling"
  BY DEF EInv, ApiApplies
<1>2. PICK c \in Outcomes(kind, file, g.draft, remote.content) :
        /\ Becomes(c)
        /\ handle' = [handle EXCEPT ![u].phase = "applied",
                                    ![u].took = @ \/ c \in Asked(g.draft)]
  BY DEF ApiApplies
<1> HIDE DEF g
<1>3. c \in Contents(kind, file)
  BY <1>1, OutcomeIsContent
<1>4. UNCHANGED <<kind, file, now, listing, inode>>
  BY DEF ApiApplies
<1>5. RemoteOK' /\ EnvStays
  BY <1>1, <1>2, <1>3, <1>4, BecomesStays
<1> DEFINE took == g.took \/ c \in Asked(g.draft)
           h == [g EXCEPT !.phase = "applied", !.took = took]
<1>6. handle' = [handle EXCEPT ![u] = h]
  BY <1>2 DEF g
<1>7. took \in BOOLEAN /\ (took \/ LeftOut(file, g.draft))
  BY <1>1, OutcomeIsAsked DEF HandleOK, Handles
<1> HIDE DEF took
<1>8. HandleOK(h)
  <2>1. g \in Handles
    BY <1>1 DEF HandleOK
  <2>2. h \in Handles
    BY <1>7, <2>1 DEF Handles
  <2>3. /\ h.phase = "applied" /\ h.content = g.content /\ h.draft = g.draft
        /\ h.at = g.at /\ h.since = g.since /\ h.touched = g.touched
    BY <2>1 DEF Handles
  <2>4. h.late = g.late /\ h.dirty = g.dirty /\ h.took = took
    BY <2>1 DEF Handles
  <2> HIDE DEF h
  <2>5. WrittenOver(h) \/ EditedFrom(h)
    BY <1>1, <2>3 DEF HandleOK, WrittenOver, EditedFrom
  <2> QED
    BY <1>1, <1>7, <2>2, <2>3, <2>4, <2>5 DEF HandleOK
<1> HIDE DEF h
<1> QED
  BY <1>4, <1>5, <1>6, <1>8, SetHandle

-----------------------------------------------------------------------------
(* The clock, the others, and the cache *)

LEMMA TickEInv == EInv /\ Tick => EInv'
<1> SUFFICES ASSUME EInv, Tick PROVE EInv'
  OBVIOUS
<1>1. RemoteOK /\ now \in Nat /\ now' = now + 1
  BY DEF EInv, RemoteOK, Tick
<1>2. UNCHANGED <<kind, file, remote, changed, listing, handle>>
  BY DEF Tick
<1>3. RemoteOK' /\ EnvStays
  <2>1. \A x \in Parts : changed[x] \in Nat /\ changed[x] <= now
    BY <1>1 DEF RemoteOK
  <2> QED
    BY <1>1, <1>2, <2>1 DEF RemoteOK, EnvStays, SeenAt
<1>4. \A u \in Users : HandleOK(handle[u])'
  BY <1>1, <1>2, <1>3, AllStay DEF EInv
<1>5. CacheOK(listing)'
  <2>1. CacheOK(listing) /\ listing.asked \in Nat
    BY DEF EInv, CacheOK, CacheOf
  <2>2. Locked(listing) => now' - listing.asked <= FetchMax
    BY <1>1, <2>1 DEF Tick, InTime
  <2> QED
    BY <1>1, <1>2, <1>3, <2>1, <2>2, CacheStays
<1>6. InodeOK(NoInode)
  BY <1>1 DEF InodeOK, Inodes, NoInode, SeenAt, RemoteOK
<1>7. ASSUME NEW u \in Users PROVE InodeOK(inode[u])'
  <2>1. InodeOK(inode[u]) /\ inode[u].until \in Nat
    BY DEF EInv, InodeOK, Inodes
  <2>2. PICK i : i = inode'[u] /\ InodeOK(i) /\ (i = NoInode \/ now' <= i.until)
    BY <1>1, <1>6, <2>1 DEF Tick
  <2>3. InodeOK(i)'
    BY <1>1, <1>3, <2>2, AllStay
  <2> QED
    BY <2>2, <2>3
<1>8. inode' = [u \in Users |-> inode'[u]]
  BY DEF Tick
<1> QED
  BY <1>2, <1>3, <1>4, <1>5, <1>7, <1>8 DEF EInv

LEMMA OthersEInv ==
  EInv /\ (OthersRemove \/ \E c \in Contents(kind, file) : OthersChange(c)) => EInv'
<1>1. ASSUME EInv, OthersRemove PROVE EInv'
  <2>1. /\ remote'.content = remote.content
        /\ remote' \in [content : Contents(kind, file), exists : BOOLEAN]
    BY <1>1 DEF OthersRemove, EInv, RemoteOK
  <2>2. RemoteOK' /\ EnvStays
    BY <1>1, <2>1 DEF OthersRemove, EInv, RemoteOK, EnvStays, SeenAt
  <2> QED
    BY <1>1, <2>2, EnvEInv DEF OthersRemove
<1>2. ASSUME EInv, NEW c \in Contents(kind, file), OthersChange(c) PROVE EInv'
  BY <1>2, BecomesStays, EnvEInv DEF OthersChange, EInv
<1> QED
  BY <1>1, <1>2

\* The listing is asked for, or the API reads the file.
LEMMA CallEInv ==
  ASSUME EInv, Ask \/ ApiAnswers
  PROVE  EInv'
<1>1. RemoteOK /\ CacheOK(listing) /\ now \in Nat
  BY DEF EInv, RemoteOK
<1>2. UNCHANGED <<kind, file, now, remote, changed, inode, handle>>
  BY DEF Ask, ApiAnswers
<1>3. RemoteOK' /\ EnvStays
  BY <1>1, <1>2, UnchangedStays
<1>4. listing \in CacheOf(Listings) /\ listing.data.at \in Nat
  BY <1>1 DEF CacheOK, CacheOf, Listings
<1>5. PICK c : c = listing' /\ CacheOK(c)
  <2>1. CASE Ask
    <3> DEFINE c == Asking(listing)
    <3>1. /\ c \in CacheOf(Listings) /\ c.data = listing.data /\ c.fetched = listing.fetched
          /\ c.asked = now /\ c.answer = listing.answer
      BY <1>1, <1>4 DEF Asking, CacheOf
    <3>2. listing.answer = {}
      BY <1>1, <2>1 DEF Ask, Expired, CacheOK
    <3> HIDE DEF c
    <3>3. CacheOK(c)
      BY <1>1, <3>1, <3>2 DEF CacheOK
    <3> QED
      BY <2>1, <3>3 DEF Ask, c
  <2>2. CASE ApiAnswers
    <3> DEFINE d == [content |-> remote.content, exists |-> remote.exists, at |-> now, late |-> FALSE]
               c == Answered(listing, d)
    <3>1. /\ remote.content \in Contents(kind, file) /\ remote.content \in SUBSET Parts
          /\ remote.exists \in BOOLEAN
      BY <1>1, ContentsAreParts DEF RemoteOK
    <3>2. d \in Listings /\ d.content = remote.content /\ d.at = now
      BY <1>1, <3>1 DEF Listings
    <3>3. SeenAt(remote.content, now)
      BY DEF SeenAt
    <3> HIDE DEF d
    <3>4. ListingOK(d)
      BY <1>1, <3>1, <3>2, <3>3 DEF ListingOK
    <3>5. /\ c \in CacheOf(Listings) /\ c.data = listing.data /\ c.fetched = listing.fetched
          /\ c.asked = listing.asked /\ c.answer = {d}
      BY <1>4, <3>2 DEF Answered, CacheOf
    <3>6. Locked(listing) /\ listing.asked <= now
      BY <1>1, <2>2 DEF ApiAnswers, Waiting, CacheOK
    <3> HIDE DEF c
    <3>7. CacheOK(c)
      BY <1>1, <3>2, <3>4, <3>5, <3>6 DEF CacheOK, Locked
    <3> QED
      BY <2>2, <3>7 DEF ApiAnswers, c, d
  <2> QED
    BY <2>1, <2>2
<1>6. CacheOK(listing)'
  <2>1. CacheOK(c)'
    BY <1>1, <1>2, <1>3, <1>5, UnlockedStays
  <2> QED
    BY <1>5, <2>1
<1>7. \A v \in Users : HandleOK(handle[v])'
  BY <1>1, <1>2, <1>3, AllStay DEF EInv
<1>8. \A v \in Users : InodeOK(inode[v])'
  BY <1>1, <1>2, <1>3, AllStay DEF EInv, InodeOK
<1> QED
  BY <1>2, <1>3, <1>6, <1>7, <1>8 DEF EInv

\* What the cache returns is in order, and young or marked as late.
LEMMA GetOK ==
  ASSUME EInv, Get
  PROVE  /\ CacheOK(listing') /\ ListingOK(listing'.data)
         /\ now < listing'.data.at + TTL + FetchMax \/ listing'.data.late
<1> DEFINE c == listing
<1>1. RemoteOK /\ CacheOK(c) /\ now \in Nat /\ c \in CacheOf(Listings) /\ ListingOK(c.data)
  BY DEF EInv, RemoteOK, CacheOK
<1>2. /\ c.data \in Listings /\ c.data.at \in Nat /\ c.data.late \in BOOLEAN
      /\ c.fetched \in Nat /\ c.asked \in Nat
  BY <1>1 DEF CacheOf, Listings
<1>3. PICK g \in Returns(c) : listing' = [g.cache EXCEPT !.data.late = @ \/ g.failed]
  BY DEF Get
<1>4. CASE ~Locked(c)
  <2>1. g = Returned(c, FALSE) /\ Fresh(c)
    BY <1>3, <1>4 DEF Returns
  <2>2. g.cache = c /\ g.failed = FALSE
    BY <2>1 DEF Returned
  <2>3. listing' = c
    <3>1. [c.data EXCEPT !.late = c.data.late \/ FALSE] = c.data
      BY <1>2 DEF Listings
    <3>2. listing' = [c EXCEPT !.data = [c.data EXCEPT !.late = c.data.late \/ FALSE]]
      BY <1>3, <2>2
    <3> QED
      BY <1>1, <3>1, <3>2 DEF CacheOf
  <2>4. now - c.fetched < TTL /\ c.fetched - c.data.at <= FetchMax
    BY <1>1, <2>1 DEF Fresh, CacheOK
  <2>5. now < c.data.at + TTL + FetchMax
    BY <1>1, <1>2, <2>4
  <2> HIDE DEF c
  <2> QED
    BY <1>1, <2>3, <2>5
<1>5. ASSUME Locked(c), NEW d \in c.answer, g = Returned(Stored(c, d), FALSE)
      PROVE  /\ CacheOK(listing') /\ ListingOK(listing'.data)
             /\ now < listing'.data.at + TTL + FetchMax
  <2> DEFINE h == Stored(c, d)
  <2>1. g.cache = h /\ g.failed = FALSE
    BY <1>5 DEF Returned
  <2>2. d \in Listings /\ d.at \in Nat /\ ListingOK(d) /\ d.late \in BOOLEAN
    BY <1>1, <1>5 DEF CacheOK, ListingOK, Listings
  <2>3. /\ h \in CacheOf(Listings) /\ h.data = d /\ h.fetched = now
        /\ h.asked = 0 /\ h.answer = {}
    BY <1>1, <2>2 DEF Stored, NewCache, CacheOf
  <2>4. d.at <= now /\ now - d.at <= FetchMax
    BY <1>1, <1>2, <1>5, <2>2 DEF CacheOK, ListingOK
  <2> HIDE DEF h
  <2>5. CacheOK(h)
    BY <1>1, <2>2, <2>3, <2>4 DEF CacheOK, Locked
  <2>6. listing' = h
    <3>1. [h.data EXCEPT !.late = h.data.late \/ FALSE] = h.data
      BY <2>2, <2>3 DEF Listings
    <3>2. listing' = [h EXCEPT !.data = [h.data EXCEPT !.late = h.data.late \/ FALSE]]
      BY <1>3, <2>1
    <3> QED
      BY <2>3, <3>1, <3>2 DEF CacheOf
  <2> QED
    BY <1>1, <2>2, <2>3, <2>4, <2>5, <2>6
<1>6. ASSUME Locked(c), g = Returned(Unlocked(c), TRUE)
      PROVE  CacheOK(listing') /\ ListingOK(listing'.data) /\ listing'.data.late = TRUE
  <2> DEFINE d == [c.data EXCEPT !.late = c.data.late \/ TRUE]
             h == [Unlocked(c) EXCEPT !.data = d]
  <2>1. g.cache = Unlocked(c) /\ g.failed = TRUE
    BY <1>6 DEF Returned
  <2>2. Unlocked(c).data = c.data
    BY <1>1 DEF Unlocked, CacheOf
  <2>3. listing' = h
    BY <1>3, <2>1, <2>2
  <2>4. /\ d \in Listings /\ d.content = c.data.content /\ d.at = c.data.at
        /\ d.exists = c.data.exists
    BY <1>2 DEF Listings
  <2>5. d.late = TRUE
    BY <1>2 DEF Listings
  <2> HIDE DEF d
  <2>6. /\ h \in CacheOf(Listings) /\ h.data = d /\ h.fetched = c.fetched
        /\ h.asked = 0 /\ h.answer = {}
    BY <1>1, <2>4 DEF Unlocked, CacheOf
  <2> HIDE DEF h
  <2>7. ListingOK(d)
    BY <1>1, <2>4 DEF ListingOK
  <2>8. CacheOK(h)
    BY <1>1, <2>4, <2>6, <2>7 DEF CacheOK, Locked
  <2> QED
    BY <2>3, <2>5, <2>6, <2>7, <2>8
<1>7. CASE Locked(c)
  <2>1. (\E d \in c.answer : g = Returned(Stored(c, d), FALSE)) \/ g = Returned(Unlocked(c), TRUE)
    BY <1>7 DEF Returns
  <2> QED
    BY <1>5, <1>6, <1>7, <2>1
<1> QED
  BY <1>4, <1>7

\* The cache that a get() leaves stays in order in the next state.
LEMMA GetStays ==
  ASSUME EInv, Get, RemoteOK', EnvStays, now' = now
  PROVE  CacheOK(listing)'
<1>1. PICK c : c = listing' /\ CacheOK(c)
  BY GetOK
<1>2. CacheOK(c)'
  BY <1>1, UnlockedStays DEF EInv
<1> QED
  BY <1>1, <1>2

LEMMA LookEInv == EInv /\ Look => EInv'
<1> SUFFICES ASSUME EInv, Look PROVE EInv'
  OBVIOUS
<1>1. RemoteOK' /\ EnvStays
  BY UnchangedStays DEF EInv, Look
<1>2. \A u \in Users : HandleOK(handle[u])'
  BY <1>1, AllStay DEF EInv, Look
<1>3. \A u \in Users : InodeOK(inode[u])'
  BY <1>1, AllStay DEF EInv, Look, InodeOK
<1>4. CacheOK(listing)'
  BY <1>1, GetStays DEF Look
<1> QED
  BY <1>1, <1>2, <1>3, <1>4 DEF EInv, Look

LEMMA LookupOpenEInv ==
  ASSUME EInv, NEW u \in Users, LookupOpen(u)
  PROVE  EInv'
<1> DEFINE i == [content |-> listing'.data.content, at |-> listing'.data.at, late |-> listing'.data.late,
                 until |-> now + EntryTimeout]
           h == [Closed EXCEPT !.phase = "open", !.content = i.content, !.draft = i.content,
                               !.at = i.at, !.late = i.late, !.since = now]
<1>1. RemoteOK /\ now \in Nat
  BY DEF EInv, RemoteOK
<1>2. RemoteOK' /\ EnvStays
  BY <1>1, UnchangedStays DEF LookupOpen
<1>3. /\ ListingOK(listing'.data) /\ listing'.data.exists
      /\ now < listing'.data.at + TTL + FetchMax \/ listing'.data.late
  BY GetOK DEF LookupOpen
<1>4. /\ listing'.data \in Listings /\ listing'.data.at <= now /\ SeenAt(listing'.data.content, listing'.data.at)
      /\ listing'.data.content \in Contents(kind, file)
  BY <1>3 DEF ListingOK
<1>5. InodeOK(i) /\ i # NoInode
  <2>1. i \in Inodes
    BY <1>1, <1>4 DEF Inodes, Listings, EntryTimeout
  <2>2. /\ i.content = listing'.data.content /\ i.at = listing'.data.at /\ i.until = now + TTL
        /\ i.late = listing'.data.late
    BY DEF EntryTimeout
  <2>3. i.until # NoInode.until
    BY <1>1, <2>2 DEF NoInode
  <2> HIDE DEF i
  <2>4. i.until < i.at + 2 * TTL + FetchMax \/ i.late
    <3>1. listing'.data.at \in Nat
      BY <1>4 DEF Listings
    <3> QED
      BY <1>1, <1>3, <2>2, <3>1
  <2>5. now <= i.until
    BY <1>1, <2>2
  <2> QED
    BY <1>4, <2>1, <2>2, <2>3, <2>4, <2>5 DEF InodeOK
<1>6. inode' = [inode EXCEPT ![u] = i]
  BY DEF LookupOpen
<1>7. inode'[u] = i
  BY <1>6 DEF EInv
<1>8. handle' = [handle EXCEPT ![u] = h]
  BY <1>7 DEF LookupOpen, Opened
<1> HIDE DEF i
<1>9. HandleOK(h)
  BY <1>1, <1>5, OpenedOK
<1> HIDE DEF h
<1>10. \A v \in Users : InodeOK(inode[v])'
  <2> SUFFICES ASSUME NEW v \in Users PROVE InodeOK(inode[v])'
    OBVIOUS
  <2>1. PICK j : j = inode'[v] /\ InodeOK(j)
    BY <1>5, <1>6 DEF EInv
  <2>2. now' = now /\ (j = NoInode \/ now <= j.until)
    BY <2>1 DEF InodeOK, LookupOpen
  <2>3. InodeOK(j)'
    BY <1>1, <1>2, <2>1, <2>2, AllStay
  <2> QED
    BY <2>1, <2>3
<1>11. \A v \in Users : HandleOK(handle[v])'
  <2> SUFFICES ASSUME NEW v \in Users PROVE HandleOK(handle[v])'
    OBVIOUS
  <2>1. PICK g : g = handle'[v] /\ HandleOK(g)
    BY <1>8, <1>9 DEF EInv
  <2>2. HandleOK(g)'
    BY <1>1, <1>2, <2>1, AllStay
  <2> QED
    BY <2>1, <2>2
<1>12. CacheOK(listing)'
  BY <1>2, GetStays DEF LookupOpen
<1>13. inode' = [v \in Users |-> inode'[v]] /\ handle' = [v \in Users |-> handle'[v]]
  BY <1>6, <1>8 DEF EInv
<1> QED
  BY <1>2, <1>10, <1>11, <1>12, <1>13 DEF EInv

-----------------------------------------------------------------------------

LEMMA InitEInv == Init => EInv
<1> SUFFICES ASSUME Init PROVE EInv
  OBVIOUS
<1>1. PICK e \in Edited : kind = e[1] /\ file = e[2]
  BY DEF Init
<1>2. RemoteOK
  <2>1. kind \in DOMAIN Table /\ file \in FilesOf(kind)
    BY <1>1, EditedAssumption
  <2>2. remote \in [content : Contents(kind, file), exists : BOOLEAN]
    BY DEF Init
  <2> QED
    BY <2>1, <2>2 DEF Init, RemoteOK
<1>3. SeenAt({}, 0)
  BY <1>2 DEF SeenAt, RemoteOK
<1>4. CacheOK(listing)
  <2> DEFINE d == [content |-> {}, exists |-> FALSE, at |-> 0, late |-> FALSE]
  <2>1. d \in Listings /\ d.at = 0 /\ d.content = {} /\ ~d.exists
    BY DEF Listings
  <2>2. listing = NewCache(d)
    BY DEF Init
  <2> HIDE DEF d
  <2>3. ListingOK(d)
    BY <1>2, <1>3, <2>1 DEF ListingOK, RemoteOK
  <2>4. /\ listing \in CacheOf(Listings) /\ listing.data = d /\ listing.fetched = 0
        /\ listing.asked = 0 /\ listing.answer = {}
    BY <2>1, <2>2 DEF NewCache, CacheOf
  <2> QED
    BY <1>2, <2>1, <2>3, <2>4 DEF CacheOK, Locked, RemoteOK
<1>5. InodeOK(NoInode)
  BY <1>2, <1>3 DEF InodeOK, Inodes, NoInode, RemoteOK
<1>6. HandleOK(Closed)
  BY <1>2, ClosedOK
<1> QED
  BY <1>2, <1>4, <1>5, <1>6 DEF EInv, Init

LEMMA NextEInv == EInv /\ [Next]_vars => EInv'
<1> SUFFICES ASSUME EInv, [Next]_vars PROVE EInv'
  OBVIOUS
<1>1. CASE UNCHANGED vars
  <2>1. RemoteOK' /\ EnvStays
    BY <1>1, UnchangedStays DEF EInv, vars
  <2> QED
    BY <1>1, <2>1, EnvEInv DEF vars
<1> QED
  BY <1>1, TickEInv, OthersEInv, CallEInv, LookEInv, LookupOpenEInv, OpenKnownEInv, WriteEInv, FlushEInv,
     ApiAppliesEInv, FlushOKEInv, ReleaseEInv DEF Next

LEMMA SpecEInv == Spec => []EInv
BY InitEInv, NextEInv, PTL DEF Spec

\* Every variable keeps its type: only what the tables make writable is ever
\* dirty, and whatever is written, the API keeps a content of the file.
THEOREM EditsTypeCorrect == Spec => []EditsTypeOK
<1>1. EInv => EditsTypeOK
  <2> SUFFICES ASSUME EInv PROVE EditsTypeOK
    OBVIOUS
  <2>1. changed \in [Parts -> 0..now]
    BY DEF EInv, RemoteOK
  <2>2. listing.fetched \in 0..now /\ listing.data.at \in 0..listing.fetched
    <3>1. CacheOK(listing) /\ now \in Nat
      BY DEF EInv, RemoteOK
    <3>2. listing.fetched \in Nat /\ listing.data.at \in Nat
      BY <3>1 DEF CacheOK, CacheOf, Listings
    <3> QED
      BY <3>1, <3>2 DEF CacheOK
  <2>3. ASSUME NEW u \in Users
        PROVE  /\ handle[u].phase \in {"closed", "open", "calling", "applied"}
               /\ handle[u].dirty => Writable
               /\ handle[u].at <= handle[u].since /\ handle[u].since <= now
               /\ inode[u] # NoInode => now <= inode[u].until
    <3>1. HandleOK(handle[u]) /\ InodeOK(inode[u])
      BY DEF EInv
    <3> QED
      BY <3>1 DEF HandleOK, Handles, InodeOK
  <2> QED
    BY <2>1, <2>2, <2>3 DEF EditsTypeOK, EInv, RemoteOK
<1> QED
  BY <1>1, SpecEInv, PTL

\* A close that returns 0 has done what was asked for since it was written, of
\* every file of every kind; an empty name and null labels ask for nothing.
THEOREM ClosedIsDone == Spec => []ClosedMeansDone
<1>1. EInv => ClosedMeansDone
  BY DEF EInv, HandleOK, ClosedMeansDone
<1> QED
  BY <1>1, SpecEInv, PTL

\* A close undoes nothing that its user has not decided on, unless it changed
\* within 2 * TTL + FetchMax of the open or a refresh had failed.
THEOREM SavesKeepSettled == Spec => SavesKeepWhatIsSettled
<1> DEFINE Kept ==
      \A u \in Users : ApiApplies(u) =>
        \A x \in Undone(u, remote.content, remote'.content) :
          \/ x \in handle[u].touched
          \/ changed[x] + 2 * TTL + FetchMax > handle[u].since
          \/ handle[u].late /\ changed[x] >= handle[u].at
<1>1. ASSUME EInv, [Next]_vars PROVE Kept
  <2> SUFFICES ASSUME NEW u \in Users, ApiApplies(u),
                      NEW x \in Undone(u, remote.content, remote'.content),
                      x \notin handle[u].touched
               PROVE  \/ changed[x] + 2 * TTL + FetchMax > handle[u].since
                      \/ handle[u].late /\ changed[x] >= handle[u].at
    OBVIOUS
  <2> DEFINE g == handle[u]
  <2>1. RemoteOK /\ HandleOK(g) /\ g.phase = "calling"
    BY <1>1 DEF EInv, ApiApplies
  <2>2. PICK c \in Outcomes(kind, file, g.draft, remote.content) : Becomes(c)
    BY DEF ApiApplies
  <2>3. remote'.content = c
    BY <2>1, <2>2 DEF Becomes, RemoteOK
  <2>4. (x \in remote.content /\ x \notin c) \/ (x \in c /\ x \notin remote.content /\ x \in g.content)
    BY <2>3 DEF Undone
  <2> HIDE DEF g
  <2>5. x \in Parts
    <3>1. c \in Contents(kind, file) /\ remote.content \in Contents(kind, file)
      BY <2>1, <2>2, OutcomeIsContent DEF RemoteOK
    <3> QED
      BY <2>4, <3>1, ContentsAreParts
  <2>6. x \in remote.content /\ x \notin c => x \notin g.content
    BY <2>1, <2>2, <2>5, OutcomeTakes DEF g
  <2>7. changed[x] >= g.at
    BY <2>1, <2>4, <2>5, <2>6 DEF HandleOK, SeenAt
  <2>8. g.since < g.at + 2 * TTL + FetchMax \/ g.late
    BY <2>1 DEF HandleOK
  <2>9. changed[x] \in Nat /\ g.at \in Nat /\ g.since \in Nat
    BY <2>1, <2>5 DEF RemoteOK, HandleOK, Handles
  <2> QED
    BY <2>7, <2>8, <2>9 DEF g
<1>2. EInv /\ [Next]_vars => [Kept]_vars
  BY <1>1
<1> QED
  BY <1>2, SpecEInv, PTL DEF Spec, SavesKeepWhatIsSettled
=============================================================================
