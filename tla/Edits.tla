------------------------------- MODULE Edits -------------------------------
(***************************************************************************)
(* Editing one file of a resource, <kind>/<id>/<file>: the item that the   *)
(* file inode has captured, the content that an open reads from it, what   *)
(* the user makes of it, and what the write function sends on close, while *)
(* the API changes and no cache is told.                                   *)
(*                                                                         *)
(* kind and file are any of Tables.  The listing is in a cache of          *)
(* CacheCalls.  The kernel knows the inode of the file for cacheTTL, to    *)
(* those who stay in the directory; a new walk of the path looks the file  *)
(* up again.  Each user has one descriptor at a time, shared with nobody:  *)
(* the handle is WritableFile's with one process.                          *)
(***************************************************************************)
EXTENDS Tables, CacheCalls, FiniteSets

CONSTANTS Edited,      \* pairs of a kind and one of its files
          Users,       \* programs that edit the file
          Labels,      \* labels a resource may have
          Names,       \* names a resource may have
          MaxTime,     \* bound on the clock
          MaxChanges   \* bound on the changes of the file at the API

ASSUME EditedAssumption ==
  \A e \in Edited : e[1] \in DOMAIN Table /\ e[2] \in FilesOf(e[1])
\* The marks of Tables for texts that hold no labels are no labels.
ASSUME LabelsAssumption == Labels \cap (Null \cup Malformed) = {}
ASSUME BoundsAssumption == MaxTime \in Nat /\ MaxChanges \in Nat

VARIABLES kind, file,  \* what is edited
          remote,      \* the file at the API (external): its content and whether it exists
          changes,     \* how often it has changed
          changed,     \* auxiliary: when each part of the content last changed
          listing,     \* the cache: the file as listed, when the API had it, and
                       \* whether a refresh has failed since
          inode,       \* per user: the file inode and when the kernel forgets it
          handle       \* per user: the open file

vars == <<kind, file, now, remote, changes, changed, listing, inode, handle>>

Statuses == {"off", "running", "busy"}

\* The contents the API has for a file.
Contents(k, f) ==
  CASE f = "labels.json" -> SUBSET Labels
    [] f = "name" -> {{n} : n \in Names}
    [] f = "status" /\ k = "servers" -> {{s} : s \in Statuses}
    [] OTHER -> {{"text"}}

Parts == Labels \cup Names \cup Statuses \cup {"text"}

Optional == file \in Table[kind].maybe
Writable == file \in Table[kind].writable

NoInode == [content |-> {}, at |-> 0, late |-> FALSE, until |-> 0]

\* content is what the open has read, of time at; draft is h.data;
\* touched are the parts the user has decided on; took tells what the API has
\* done with the draft, and closed what the last close has returned.
Closed == [phase |-> "closed", content |-> {}, at |-> 0, late |-> FALSE, since |-> 0,
           draft |-> {}, touched |-> {}, dirty |-> FALSE, took |-> FALSE, closed |-> "no"]

Init ==
  /\ \E e \in Edited : kind = e[1] /\ file = e[2]
  /\ now = TTL
  /\ remote \in [content : Contents(kind, file), exists : {TRUE}]
  /\ changes = 0
  /\ changed = [x \in Parts |-> 0]
  /\ listing = NewCache([content |-> {}, exists |-> FALSE, at |-> 0, late |-> FALSE])
  /\ inode = [u \in Users |-> NoInode]
  /\ handle = [u \in Users |-> Closed]

-----------------------------------------------------------------------------
(* The environment *)

\* Time passes, and the kernel forgets names.
Tick ==
  /\ now < MaxTime
  /\ InTime(listing)
  /\ now' = now + 1
  /\ inode' = [u \in Users |-> IF inode[u].until < now' THEN NoInode ELSE inode[u]]
  /\ UNCHANGED <<kind, file, remote, changes, changed, listing, handle>>

\* The API has content c from now on.
Becomes(c) ==
  /\ changes' = IF c = remote.content THEN changes ELSE changes + 1
  /\ changes' <= MaxChanges
  /\ remote' = [remote EXCEPT !.content = c]
  /\ changed' = [x \in Parts |->
       IF x \in (c \ remote.content) \cup (remote.content \ c) THEN now ELSE changed[x]]

\* Somebody else changes the content, or a power action ends.
OthersChange(c) ==
  /\ c # remote.content
  /\ Becomes(c)
  /\ UNCHANGED <<kind, file, now, listing, inode, handle>>

\* The resource is deleted for ever; an optional file comes and goes.
OthersRemove ==
  /\ changes < MaxChanges
  /\ changes' = changes + 1
  /\ remote.exists \/ Optional
  /\ remote' = [remote EXCEPT !.exists = ~@]
  /\ UNCHANGED <<kind, file, now, changed, listing, inode, handle>>

-----------------------------------------------------------------------------
(* Opening *)

\* Any request that finds the listing expired.
Ask ==
  /\ Expired(listing)
  /\ listing' = Asking(listing)
  /\ UNCHANGED <<kind, file, now, remote, changes, changed, inode, handle>>

ApiAnswers ==
  /\ Waiting(listing)
  /\ listing' = Answered(listing, [content |-> remote.content, exists |-> remote.exists,
                                   at |-> now, late |-> FALSE])
  /\ UNCHANGED <<kind, file, now, remote, changes, changed, inode, handle>>

\* A get() returns listing'.data.
Get ==
  \E g \in Returns(listing) : listing' = [g.cache EXCEPT !.data.late = @ \/ g.failed]

\* An open through inode i reads its content.
Opened(u, i) ==
  /\ handle[u].phase = "closed"
  /\ handle' = [handle EXCEPT ![u] =
       [Closed EXCEPT !.phase = "open", !.content = i.content, !.draft = i.content,
                      !.at = i.at, !.late = i.late, !.since = now]]

\* resourceInstanceDir.Lookup, SetEntryTimeout(cacheTTL), and Open.
EntryTimeoutTwice == 2 * TTL
EntryTimeout == TTL

LookupOpen(u) ==
  /\ Get
  /\ listing'.data.exists
  /\ inode' = [inode EXCEPT ![u] =
       [content |-> listing'.data.content, at |-> listing'.data.at,
        late |-> listing'.data.late, until |-> now + EntryTimeout]]
  /\ Opened(u, inode'[u])
  /\ UNCHANGED <<kind, file, now, remote, changes, changed>>

\* ENOENT, or a request for another file of the listing.
Look ==
  /\ Get
  /\ UNCHANGED <<kind, file, now, remote, changes, changed, inode, handle>>

\* The kernel knows the inode: only Open.
OpenKnown(u) ==
  /\ inode[u] # NoInode
  /\ Opened(u, inode[u])
  /\ UNCHANGED <<kind, file, now, remote, changes, changed, listing, inode>>

-----------------------------------------------------------------------------
(* Writing *)

\* What a shell writes over the content, whatever that was,
Texts ==
  CASE file = "labels.json" -> {{x} : x \in Labels} \cup {{}, Null, Malformed}
    [] file = "name" -> {{x} : x \in Names} \cup {{}}
    [] OTHER -> {{x} : x \in Statuses \cup {"on", "shutdown"}}
Replaced == [Closed EXCEPT !.phase = "open", !.dirty = TRUE, !.touched = Parts]
Replace == {[Replaced EXCEPT !.draft = d] : d \in Texts}

\* and an editor, which changes one label of what it has read, or nothing.
Flipped(h, ls) == [h EXCEPT !.draft = (h.content \ ls) \cup (ls \ h.content), !.touched = ls,
                            !.dirty = TRUE, !.took = FALSE, !.closed = "no"]
Edit(h) ==
  {Flipped(h, ls) : ls \in {{}} \cup {{x} : x \in IF file = "labels.json" THEN Labels ELSE {}}}

\* writableFileHandle.Write; the handle of a dynamicFile has no Write.
WriteAnywhere(u) ==
  /\ handle[u].phase = "open"
  /\ \/ \E h \in Replace : handle' = [handle EXCEPT ![u] = h]
     \/ ~handle[u].dirty /\ handle[u].touched = {} /\ \E h \in Edit(handle[u]) :
          handle' = [handle EXCEPT ![u] = h]
  /\ UNCHANGED <<kind, file, now, remote, changes, changed, listing, inode>>

Write(u) == Writable /\ WriteAnywhere(u)

-----------------------------------------------------------------------------
(* Closing *)

\* A FLUSH of a dirty handle: an error of the write function's own, or a call.
FlushAs(u, phase, returned) ==
  /\ handle[u].phase = "open"
  /\ handle[u].dirty
  /\ handle' = [handle EXCEPT ![u].phase = phase, ![u].closed = returned]
  /\ UNCHANGED <<kind, file, now, remote, changes, changed, listing, inode>>

FlushRefused(u) == ~Calls(file, handle[u].draft) /\ FlushAs(u, "open", "error")
FlushCalls(u) == Calls(file, handle[u].draft) /\ FlushAs(u, "calling", "no")

\* What its user means by draft d: itself, or that the server goes off or on.
Asked(d) ==
  CASE d \in PowersOff /\ file = "status" -> {{"off"}, {"busy"}}
    [] d \in PowersOn /\ file = "status" -> {{"running"}, {"busy"}}
    [] OTHER -> {d}

ApiApplies(u) ==
  /\ handle[u].phase = "calling"
  /\ remote.exists
  /\ \E c \in Outcomes(kind, file, handle[u].draft, remote.content) :
       /\ Becomes(c)
       /\ handle' = [handle EXCEPT ![u].phase = "applied",
                                   ![u].took = @ \/ c \in Asked(handle[u].draft)]
  /\ UNCHANGED <<kind, file, now, listing, inode>>

\* The write function returns nil, and Flush clears h.dirty.
FlushOK(u) ==
  /\ handle[u].phase = "applied"
  /\ handle' = [handle EXCEPT ![u].phase = "open", ![u].dirty = FALSE, ![u].closed = "ok"]
  /\ UNCHANGED <<kind, file, now, remote, changes, changed, listing, inode>>

\* The call fails or its answer is lost: EIO, and h.dirty stays set.
CallFails(u, returned) ==
  /\ handle[u].phase \in {"calling", "applied"}
  /\ handle' = [handle EXCEPT ![u].phase = "open", ![u].closed = returned]
  /\ UNCHANGED <<kind, file, now, remote, changes, changed, listing, inode>>

FlushErrIgnored(u) == CallFails(u, "ok")
FlushErr(u) == CallFails(u, "error")

\* The last descriptor is closed, after a FLUSH; that of a clean handle does
\* nothing.
Release(u) ==
  /\ handle[u].phase = "open"
  /\ handle[u].dirty => handle[u].closed = "error"
  /\ handle' = [handle EXCEPT ![u] = Closed]
  /\ UNCHANGED <<kind, file, now, remote, changes, changed, listing, inode>>

Next ==
  \/ Tick \/ OthersRemove \/ Ask \/ ApiAnswers \/ Look
  \/ \E c \in Contents(kind, file) : OthersChange(c)
  \/ \E u \in Users :
       \/ LookupOpen(u) \/ OpenKnown(u) \/ Write(u)
       \/ FlushRefused(u) \/ FlushCalls(u)
       \/ ApiApplies(u) \/ FlushOK(u) \/ FlushErr(u) \/ Release(u)

Spec == Init /\ [][Next]_vars

-----------------------------------------------------------------------------
(* Properties *)

\* The values the variables range over; only what the tables make writable is
\* ever dirty, and the content stays one that the API has for the file.
EditsTypeOK ==
  /\ remote \in [content : Contents(kind, file), exists : BOOLEAN]
  /\ changed \in [Parts -> 0..now]
  /\ listing.fetched \in 0..now /\ listing.data.at \in 0..listing.fetched
  /\ \A u \in Users :
       /\ handle[u].phase \in {"closed", "open", "calling", "applied"}
       /\ handle[u].dirty => Writable
       /\ handle[u].at <= handle[u].since /\ handle[u].since <= now
       /\ inode[u] # NoInode => now <= inode[u].until

\* What a change from one content to another removes, or brings back of what u
\* has read.
Undone(u, from, to) == (from \ to) \cup ((to \ from) \cap handle[u].content)

\* A close undoes only what its user has decided on, or what has changed less
\* than 2 * TTL + FetchMax before the open; or, when a refresh has failed, since
\* the API had what was read.  An editor that saves labels.json, or a status or
\* name as it has read it, undoes no older change of somebody else, although
\* the item it works on outlives its listing, and the listing the call that
\* it was the answer to.
SavesKeepWhatIsSettled ==
  [][\A u \in Users : ApiApplies(u) =>
       \A x \in Undone(u, remote.content, remote'.content) :
         \/ x \in handle[u].touched
         \/ changed[x] + 2 * TTL + FetchMax > handle[u].since
         \/ handle[u].late /\ changed[x] >= handle[u].at]_vars

\* A close returns 0 only if the API has done what the content written asks
\* for since it was written, by README.md's meaning of each file; an empty
\* name and null labels, which ask for nothing, are the exceptions.
ClosedMeansDone ==
  \A u \in Users :
    handle[u].closed = "ok" => handle[u].took \/ LeftOut(file, handle[u].draft)
=============================================================================
