-------------------------------- MODULE Dns --------------------------------
(***************************************************************************)
(* zonesNode, zoneNode, recordsNode and staticDir of dns.go: the zones and *)
(* their record sets.                                                      *)
(*                                                                         *)
(* There is one cache for the zones, and one for the record sets of each   *)
(* zone, made at the first Lookup of the zone and kept in recordCaches.  A *)
(* Lookup makes a new zoneNode, which captures the zone and the records'   *)
(* cache.  The kernel keeps the zone's name for cacheTTL; it does not ask  *)
(* for it again on behalf of a process that stays inside.  zone_file and   *)
(* the directory records read the records' cache each time; the directory  *)
(* of one record set, records/<set>, is a staticDir, which keeps what its  *)
(* Lookup has found and gives it to whoever stays in it.                   *)
(*                                                                         *)
(* A user is a process with the zone's directory it is in, and the record  *)
(* set's directory that it holds.  The caches are those of CacheCalls.     *)
(* The record sets of a zone are reduced to a version number, and the zone *)
(* itself to whether it exists: what a zoneNode shows of it is told by     *)
(* when the API had it.                                                    *)
(***************************************************************************)
EXTENDS CacheCalls, Sequences

CONSTANTS Users,       \* processes that use the directory
          Zones,       \* ids of zones
          MaxTime,     \* bound on the clock
          MaxVersion   \* bound on the changes of a zone

ASSUME BoundsAssumption == MaxTime \in Nat /\ MaxVersion \in Nat

VARIABLES remote,        \* version of the record sets of each zone
          deleted,       \* the zones that are no more
          zones,         \* n.cache: the zones listed, and when the API read them
          recordCaches,  \* n.recordCaches: per zone the place of its cache, 0 if none
          heap,          \* the records' caches made so far, each with its zone
          dentry,        \* per zone: the zoneNode the kernel knows, and until when (external)
          inside,        \* the zoneNode each user is in
          held,          \* the staticDir each user is in
          seen,          \* per user and zone: the record sets last read from a cache
          shown          \* what the last read has shown, of which zone and to whom

envVars == <<now, remote, deleted>>
dnsVars == <<zones, recordCaches, heap>>
userVars == <<inside, held, seen, shown>>
vars == <<envVars, dnsVars, dentry, userVars>>

NoCache == 0
NoNode == [cache |-> NoCache]
NoName == [node |-> NoNode, until |-> 0]
NoSet == [version |-> 0]
Nothing == [version |-> 0]

Init ==
  /\ now = TTL
  /\ remote = [z \in Zones |-> 1]
  /\ deleted = {}
  /\ zones = NewCache([listed |-> {}, at |-> 0])
  /\ recordCaches = [z \in Zones |-> NoCache]
  /\ heap = << >>
  /\ dentry = [z \in Zones |-> NoName]
  /\ inside = [u \in Users |-> NoNode]
  /\ held = [u \in Users |-> NoSet]
  /\ seen = [u \in Users |-> [z \in Zones |-> 0]]
  /\ shown = Nothing

-----------------------------------------------------------------------------
(* The environment *)

\* Time passes, and the kernel forgets names.
Tick ==
  /\ now < MaxTime
  /\ InTime(zones) /\ \A c \in 1..Len(heap) : InTime(heap[c].cache)
  /\ now' = now + 1
  /\ dentry' = [z \in Zones |-> IF dentry[z].until < now' THEN NoName ELSE dentry[z]]
  /\ UNCHANGED <<remote, deleted, dnsVars, userVars>>

\* The zone's record sets are changed.
Change(z) ==
  /\ z \notin deleted
  /\ remote[z] < MaxVersion
  /\ remote' = [remote EXCEPT ![z] = @ + 1]
  /\ UNCHANGED <<now, deleted, dnsVars, dentry, userVars>>

Delete(z) ==
  /\ z \notin deleted
  /\ deleted' = deleted \cup {z}
  /\ UNCHANGED <<now, remote, dnsVars, dentry, userVars>>

-----------------------------------------------------------------------------
(* The caches *)

\* A Readdir or Lookup of zonesNode, after the zones' listing has expired.
AskZones ==
  /\ Expired(zones)
  /\ zones' = Asking(zones)
  /\ UNCHANGED <<envVars, recordCaches, heap, dentry, userVars>>

ZonesAnswered ==
  /\ Waiting(zones)
  /\ zones' = Answered(zones, [listed |-> Zones \ deleted, at |-> now])
  /\ UNCHANGED <<envVars, recordCaches, heap, dentry, userVars>>

\* getRecordsCache: the cache of zone z, made and entered into the map if it
\* is not there.
GetRecordsCacheUnstored(z) ==
  /\ heap' = Append(heap, [zone |-> z, cache |-> NewCache(0)])
  /\ UNCHANGED recordCaches
GetRecordsCache(z) ==
  \/ recordCaches[z] # NoCache /\ UNCHANGED <<recordCaches, heap>>
  \/ /\ recordCaches[z] = NoCache
     /\ heap' = Append(heap, [zone |-> z, cache |-> NewCache(0)])
     /\ recordCaches' = [recordCaches EXCEPT ![z] = Len(heap')]

\* The records' cache at c becomes cache.
Update(c, cache) == heap' = [heap EXCEPT ![c].cache = cache]

\* A request below a zone's directory, after the listing in c has expired.
AskRecords(c) ==
  /\ Expired(heap[c].cache)
  /\ Update(c, Asking(heap[c].cache))
  /\ UNCHANGED <<envVars, zones, recordCaches, dentry, userVars>>

\* AllRRSets answers for a zone that is there, and fails for others.
RecordsAnswered(c) ==
  /\ Waiting(heap[c].cache)
  /\ heap[c].zone \notin deleted
  /\ Update(c, Answered(heap[c].cache, remote[heap[c].zone]))
  /\ UNCHANGED <<envVars, zones, recordCaches, dentry, userVars>>

-----------------------------------------------------------------------------
(* Requests.  Those that read a cache end here, with what get() returns. *)

\* SetEntryTimeout(cacheTTL)
EntryTimeoutTwice == 2 * TTL
EntryTimeout == TTL

\* zonesNode.Readdir
ListZones ==
  /\ \E g \in Returns(zones) : zones' = g.cache
  /\ UNCHANGED <<envVars, recordCaches, heap, dentry, userVars>>

\* zonesNode.Lookup, which finds the zone: a new zoneNode.
LookupZone(z) ==
  /\ \E g \in Returns(zones) :
       /\ zones' = g.cache
       /\ z \in g.cache.data.listed
       /\ GetRecordsCache(z)
       /\ LET cache == IF recordCaches'[z] # NoCache THEN recordCaches'[z] ELSE Len(heap')
              node == [zone |-> z, at |-> g.cache.data.at, failed |-> g.failed, cache |-> cache]
          IN  dentry' = [dentry EXCEPT ![z] = [node |-> node, until |-> now + EntryTimeout]]
  /\ UNCHANGED <<envVars, userVars>>

\* zonesNode.Lookup: ENOENT.
LookupNoZone(z) ==
  /\ \E g \in Returns(zones) : zones' = g.cache /\ z \notin g.cache.data.listed
  /\ dentry' = [dentry EXCEPT ![z] = NoName]
  /\ UNCHANGED <<envVars, recordCaches, heap, userVars>>

\* A path through the zone, whose name the kernel knows or has just asked for.
Walk(u, z) ==
  /\ dentry[z] # NoName
  /\ inside' = [inside EXCEPT ![u] = dentry[z].node]
  /\ UNCHANGED <<envVars, dnsVars, dentry, held, seen, shown>>

\* User u reads what get() has returned from the records' cache of its node.
ReadCache(u, g) ==
  /\ Update(inside[u].cache, g.cache)
  /\ seen' = [seen EXCEPT ![u][inside[u].zone] = g.cache.data]
  /\ shown' = [user |-> u, zone |-> inside[u].zone, version |-> g.cache.data, from |-> "cache"]
  /\ UNCHANGED <<envVars, zones, recordCaches, dentry, inside>>

\* An open of zone_file; recordsNode.Readdir, or a Lookup that ends with ENOENT.
ReadRecords(u) ==
  /\ inside[u] # NoNode
  /\ \E g \in Returns(heap[inside[u].cache].cache) : ReadCache(u, g)
  /\ UNCHANGED held

\* recordsNode.Lookup of a record set: a new staticDir with its values.
EnterSet(u) ==
  /\ inside[u] # NoNode
  /\ \E g \in Returns(heap[inside[u].cache].cache) :
       /\ g.cache.data # 0
       /\ ReadCache(u, g)
       /\ held' = [held EXCEPT ![u] =
            [version |-> g.cache.data, zone |-> inside[u].zone, before |-> seen[u][inside[u].zone]]]

\* staticDir.Lookup of a file and its open: no cache is asked.
ReadSet(u) ==
  /\ held[u] # NoSet
  /\ shown' = [user |-> u, zone |-> held[u].zone,
              version |-> held[u].version, from |-> "set"]
  /\ UNCHANGED <<envVars, dnsVars, dentry, inside, held, seen>>

\* A request of a process that is none of the users, or has gone elsewhere.
OthersRead(c) ==
  /\ \E g \in Returns(heap[c].cache) : Update(c, g.cache)
  /\ UNCHANGED <<envVars, zones, recordCaches, dentry, userVars>>

Next ==
  \/ Tick \/ AskZones \/ ZonesAnswered \/ ListZones
  \/ \E z \in Zones : Change(z) \/ Delete(z) \/ LookupZone(z) \/ LookupNoZone(z)
  \/ \E c \in 1..Len(heap) : AskRecords(c) \/ RecordsAnswered(c) \/ OthersRead(c)
  \/ \E u \in Users :
       \/ ReadRecords(u) \/ EnterSet(u) \/ ReadSet(u)
       \/ \E z \in Zones : Walk(u, z)

Spec == Init /\ [][Next]_vars

-----------------------------------------------------------------------------
(* Properties *)

\* The caches a zone's inodes use.
CachesOf(z) == {c \in 1..Len(heap) : heap[c].zone = z}

\* The values the variables range over; a zone has at most one records' cache,
\* however often its directory is looked up, and all its inodes use that one.
TypeOK ==
  /\ now \in Nat
  /\ remote \in [Zones -> Nat]
  /\ deleted \subseteq Zones
  /\ zones.data.listed \subseteq Zones /\ zones.fetched \in 0..now
  /\ \A z \in Zones : CachesOf(z) = {recordCaches[z]} \ {NoCache}
  /\ \A c \in 1..Len(heap) :
       /\ heap[c].cache.data \in 0..remote[heap[c].zone]
       /\ heap[c].cache.fetched \in 0..now
  /\ \A u \in Users : inside[u] # NoNode => inside[u].cache = recordCaches[inside[u].zone]
  /\ \A u \in Users, z \in Zones : seen[u][z] \in 0..remote[z]

\* The record sets that a user reads from zone_file and in records never go
\* back, nor do they disappear, through whichever of the zone's directories,
\* old or new, it reads them: neither failed calls nor the deletion of the zone
\* make them.  Only the files of a record set's directory that it has entered
\* before may show older ones; but none older than what it had read then.
RecordsNeverRegress ==
  [][shown' # shown =>
       LET u == shown'.user
       IN  shown'.version >=
             IF shown'.from = "set" THEN held[u].before ELSE seen[u][inside[u].zone]]_vars

\* The API is asked for the record sets of a zone by one goroutine at a time,
\* and not until TTL after its last answer was stored, however many
\* directories of the zone are in use; after a failed call the next read asks
\* again.
RecordRefreshesSpaced ==
  [][\A c \in 1..Len(heap) : Locked(heap'[c].cache) /\ ~Locked(heap[c].cache) =>
       \A d \in CachesOf(heap[c].zone) :
         ~Locked(heap[d].cache) /\ now - heap[d].cache.fetched >= TTL]_vars

\* What a path walk finds in a zone's name, ttl, status and labels.json is what
\* the API had less than 2 * TTL + FetchMax before, unless the call that its
\* name was looked up with has failed: the ages of the listing and of the
\* kernel's name add up, and the call's duration with them.
WalksAreRecent ==
  \A z \in Zones : dentry[z] # NoName =>
    dentry[z].node.failed \/ now - dentry[z].node.at < 2 * TTL + FetchMax
=============================================================================
