---------------------------- MODULE WritableFile ----------------------------
(***************************************************************************)
(* writableFileHandle of helpers.go: one open, writable file.              *)
(*                                                                         *)
(* A handle is shared by every process that inherited or duplicated the    *)
(* descriptor.  The kernel sends a FLUSH each time one of them closes its  *)
(* copy.  It runs Write and Setattr of one file one at a time, but a Flush *)
(* runs beside them, and the handle has no lock: the fields are read and   *)
(* written in separate steps here, and Flush is cut where the API call     *)
(* lets time pass.                                                         *)
(*                                                                         *)
(* The content of h.data is reduced to a count of its changes, two per     *)
(* change: an odd count is a Write caught between its first and its last   *)
(* byte.  What Flush reads then is torn, and is neither the old nor the    *)
(* new content.  0 is the content the file had when it was opened.         *)
(* strings.TrimSpace does not tell contents apart and is left out.         *)
(***************************************************************************)
EXTENDS Integers

CONSTANTS Procs,       \* processes that share the handle
          NoProc,      \* nobody is in Write or Setattr
          Hung,        \* the processes whose WriteFn calls never end
          MaxChanges   \* bound on the changes of h.data

ASSUME NoProcAssumption == NoProc \notin Procs
ASSUME HungAssumption == Hung \subseteq Procs
ASSUME MaxChangesAssumption == MaxChanges \in Nat

VARIABLES data,        \* h.data, as a count of half changes
          dirty,       \* h.dirty
          mtimeSet,    \* h.file.mtime is no longer the zero time
          remote,      \* what the API was last given and applied (external)
          writer,      \* the process that holds the kernel's inode lock (external)
          pc,          \* where each process is: in no call, in Write, or in Flush
          payload,     \* the string(h.data) that each Flush passes to WriteFn
          written,     \* auxiliary: data after the last complete Write
          overlapped   \* auxiliary: a Write has changed h.data during a Flush

handleVars == <<data, dirty, mtimeSet>>
auxVars == <<written, overlapped>>
vars == <<handleVars, remote, writer, pc, payload, auxVars>>

\* p's Flush has read h.data and has not yet returned.
Saving(p) == pc[p] \in {"calling", "applied", "clearing"}

Torn(content) == content % 2 = 1

Init ==
  /\ data = 0
  /\ dirty = FALSE
  /\ mtimeSet = FALSE
  /\ remote = 0
  /\ writer = NoProc
  /\ pc = [p \in Procs |-> "idle"]
  /\ payload = [p \in Procs |-> 0]
  /\ written = 0
  /\ overlapped = FALSE

Goto(p, where) == pc' = [pc EXCEPT ![p] = where]

-----------------------------------------------------------------------------
(* Write and Setattr *)

\* Write is entered and changes the first byte.
EnterWrite(p) ==
  /\ pc[p] = "idle"
  /\ data < 2 * MaxChanges
  /\ writer' = p
  /\ data' = data + 1
  /\ overlapped' = (overlapped \/ \E q \in Procs : Saving(q))
  /\ Goto(p, "writing")
  /\ UNCHANGED <<dirty, mtimeSet, remote, payload, written>>

\* FOPEN_DIRECT_IO without parallel writes: the kernel takes the inode lock.
WriteBeginsParallel(p) == EnterWrite(p)
WriteBegins(p) == EnterWrite(p) /\ writer = NoProc

\* The last byte is in place; h.dirty is not set yet.
WriteCopied(p) ==
  /\ pc[p] = "writing"
  /\ data' = data + 1
  /\ Goto(p, "marking")
  /\ UNCHANGED <<dirty, mtimeSet, remote, writer, payload, auxVars>>

\* h.dirty is set and Write returns.
WriteEnds(p) ==
  /\ pc[p] = "marking"
  /\ written' = data
  /\ writer' = NoProc
  /\ Goto(p, "idle")
  /\ UNCHANGED <<data, mtimeSet, remote, payload, overlapped>>

WriteMarks(p) == WriteEnds(p) /\ dirty' = TRUE

\* Setattr with a size below len(h.data) cuts the content; h.dirty stays as it
\* is.  Any other Setattr changes nothing.
SetattrBy(p, marked) ==
  /\ pc[p] = "idle"
  /\ writer = NoProc
  /\ data < 2 * MaxChanges
  /\ data' = data + 2
  /\ dirty' = marked
  /\ UNCHANGED <<mtimeSet, remote, writer, pc, payload, auxVars>>

SetattrMarks(p) == SetattrBy(p, TRUE)
Setattr(p) == SetattrBy(p, dirty)

-----------------------------------------------------------------------------
(* Flush *)

\* A clean handle: Flush returns 0 at once.
FlushClean(p) ==
  /\ pc[p] = "idle"
  /\ ~dirty
  /\ UNCHANGED vars

\* A dirty handle: h.data is about to be read.
FlushAny(p) ==
  /\ pc[p] = "idle"
  /\ Goto(p, "snapshot")
  /\ UNCHANGED <<handleVars, remote, writer, payload, auxVars>>

FlushDirty(p) == FlushAny(p) /\ dirty

\* string(h.data) is taken, whole or torn, and WriteFn is called with it.
SnapshotAny(p) ==
  /\ pc[p] = "snapshot"
  /\ payload' = [payload EXCEPT ![p] = data]
  /\ overlapped' = (overlapped \/ Torn(data))
  /\ Goto(p, "calling")
  /\ UNCHANGED <<handleVars, remote, writer, written>>

SnapshotAlone(p) == SnapshotAny(p) /\ \A q \in Procs : ~Saving(q)
Snapshot(p) == SnapshotAny(p)

\* The API applies what it was given.
ApiApplies(p) ==
  /\ pc[p] = "calling"
  /\ p \notin Hung
  /\ remote' = payload[p]
  /\ Goto(p, "applied")
  /\ UNCHANGED <<handleVars, writer, payload, auxVars>>

\* WriteFn fails, and so does Flush; the API may have applied the content all
\* the same.  h.dirty stays set: the next Flush will call WriteFn again.
Fail(p) ==
  /\ pc[p] \in {"calling", "applied"}
  /\ p \notin Hung
  /\ payload' = [payload EXCEPT ![p] = 0]
  /\ Goto(p, "idle")
  /\ UNCHANGED <<data, mtimeSet, remote, writer, auxVars>>

WriteFnErrClears(p) == Fail(p) /\ dirty' = FALSE
WriteFnErr(p) == Fail(p) /\ UNCHANGED dirty

\* WriteFn returns nil; h.file.mtime is set under h.file.mu.
WriteFnOK(p) ==
  /\ pc[p] = "applied"
  /\ mtimeSet' = TRUE
  /\ Goto(p, "clearing")
  /\ UNCHANGED <<data, dirty, remote, writer, payload, auxVars>>

\* h.dirty is reset, whatever has been written since, and Flush returns 0.
FlushClears(p) ==
  /\ pc[p] = "clearing"
  /\ dirty' = FALSE
  /\ payload' = [payload EXCEPT ![p] = 0]
  /\ Goto(p, "idle")
  /\ UNCHANGED <<data, mtimeSet, remote, writer, auxVars>>

Next ==
  \E p \in Procs :
    \/ WriteBegins(p) \/ WriteCopied(p) \/ WriteMarks(p) \/ Setattr(p)
    \/ FlushClean(p) \/ FlushDirty(p) \/ Snapshot(p) \/ ApiApplies(p)
    \/ WriteFnOK(p) \/ WriteFnErr(p) \/ FlushClears(p)

Spec == Init /\ [][Next]_vars

-----------------------------------------------------------------------------
(* Properties *)

\* The values the variables range over; the inode lock is held exactly by the
\* process that is in Write, and h.data is torn exactly while it copies.
TypeOK ==
  /\ data \in Nat
  /\ dirty \in BOOLEAN
  /\ mtimeSet \in BOOLEAN
  /\ remote \in 0..data
  /\ writer \in Procs \cup {NoProc}
  /\ pc \in [Procs -> {"idle", "writing", "marking",
                       "snapshot", "calling", "applied", "clearing"}]
  /\ payload \in [Procs -> 0..data]
  /\ written \in 0..data
  /\ overlapped \in BOOLEAN
  /\ \A p \in Procs : pc[p] \in {"writing", "marking"} <=> writer = p
  /\ Torn(data) <=> \E p \in Procs : pc[p] = "writing"

\* A Write is never lost unless one has changed h.data in the middle of a
\* Flush: the handle still remembers that it must be saved, or the API has it
\* (or something newer).  Failed, repeated and concurrent Flushes, truncations
\* and Writes that end after a Flush began do not lose it.
SavedUnlessOverlapped == dirty \/ overlapped \/ remote >= written

\* A file that was only opened, read, truncated or closed is never written
\* back, and its mtime is set only once the API has taken a content.
OnlyWritersSave ==
  /\ remote # 0 => written # 0
  /\ mtimeSet => remote # 0

\* "writes accumulate in the handle and call WriteFn on close": once the
\* handle is clean and in no call, the last Write has gone to the API.
WritesSavedOnClose ==
  (~dirty /\ \A p \in Procs : pc[p] = "idle") => remote >= written
=============================================================================
