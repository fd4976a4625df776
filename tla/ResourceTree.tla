---------------------------- MODULE ResourceTree ----------------------------
(***************************************************************************)
(* resourceDir and resourceInstanceDir of helpers.go: the directory of one *)
(* resource, servers/<id>, over the cache of its listing and under the     *)
(* kernel's cache of names.                                                *)
(*                                                                         *)
(* A Lookup of <id> makes a new directory inode each time:                 *)
(* resourceDir.Lookup sets no entry timeout, and the kernel asks again for *)
(* each path it walks. The names below a directory inode live for          *)
(* cacheTTL, but only there: who stays inside (cwd, an open directory)     *)
(* keeps using the file inodes that have been looked up through it. The    *)
(* inode of a file is bound to the item that its Lookup found.             *)
(*                                                                         *)
(* A process here is one use of the directory, with the directory inode it *)
(* last entered. A program that reads through an old and a new directory   *)
(* inode side by side is two of them: nothing orders what it sees through  *)
(* the one and through the other.                                          *)
(*                                                                         *)
(* Reading servers/<id>/<file> by its path is EnterDir followed by a       *)
(* LookupFile.  Each FUSE request is one call of Cache's get(), with all   *)
(* its interleavings.  A write that a Flush sends to the API is one of the *)
(* API's changes: no cache is told of it.                                  *)
(***************************************************************************)
EXTENDS Cache

CONSTANT Files         \* names of the files of the resource

\* The requests for the directory itself are told apart from those for a file.
ASSUME FilesAssumption == Files \cap {"none", "list", "enter"} = {}

VARIABLES gone,        \* the first version without the resource, 0 if none (external)
          inside,      \* the processes that are in the resource's directory
          dentry,      \* per process and file: the file inode and its expiry (external)
          task,        \* what each process is in get() for
          opened,      \* per process and file: what its last open showed
          outage       \* auxiliary: when a refresh last failed, 0 if never

treeVars == <<gone, inside, dentry, task, opened, outage>>
allVars == <<vars, treeVars>>

\* Whether the resource is in version v of the listing.
Present(v) == v # 0 /\ (gone = 0 \/ v < gone)

\* No inode: the name is unknown or has been dropped.
NoInode == [version |-> 0, at |-> 0, until |-> 0]
NotOpened == [version |-> 0, at |-> 0, when |-> 0]

TreeInit ==
  /\ Init
  /\ gone = 0
  /\ inside = {}
  /\ dentry = [p \in Callers |-> [f \in Files |-> NoInode]]
  /\ task = [p \in Callers |-> "none"]
  /\ opened = [p \in Callers |-> [f \in Files |-> NotOpened]]
  /\ outage = 0

-----------------------------------------------------------------------------
(* The environment *)

TreeTick == Tick /\ UNCHANGED treeVars

\* A resource of the listing is changed, by a Flush or by somebody else.
Change == ApiChange /\ UNCHANGED treeVars

\* The resource is deleted; ids are never used again.
Delete ==
  /\ gone = 0
  /\ ApiChange
  /\ gone' = remote + 1
  /\ UNCHANGED <<inside, dentry, task, opened, outage>>

-----------------------------------------------------------------------------
(* Requests *)

\* SetEntryTimeout(cacheTTL)
EntryTimeoutTwice == 2 * TTL
EntryTimeout == TTL

KnownInode(p, f) == dentry[p][f] # NoInode /\ now <= dentry[p][f].until

\* A request that reads the listing begins.
Begin(p, what) ==
  /\ task[p] = "none"
  /\ Call(p)
  /\ task' = [task EXCEPT ![p] = what]
  /\ UNCHANGED <<gone, inside, dentry, opened, outage>>

\* resourceDir.Readdir and resourceInstanceDir.Readdir
Readdir(p) == Begin(p, "list")

\* resourceDir.Lookup
EnterDir(p) == Begin(p, "enter")

\* resourceInstanceDir.Lookup, when the kernel does not know the name.
LookupFile(p, f) ==
  /\ p \in inside
  /\ ~KnownInode(p, f)
  /\ Begin(p, f)

\* An open of a name that the kernel knows: contentFn of that inode.
OpenKnown(p, f) ==
  /\ p \in inside
  /\ task[p] = "none"
  /\ KnownInode(p, f)
  /\ opened' = [opened EXCEPT ![p][f] =
       [version |-> dentry[p][f].version, at |-> dentry[p][f].at, when |-> now]]
  /\ UNCHANGED <<vars, gone, inside, dentry, task, outage>>

-----------------------------------------------------------------------------
(* The end of a request: get() has returned listing result'[p]. *)

Listed(p) ==
  /\ task[p] = "list"
  /\ UNCHANGED <<inside, dentry, opened>>

\* A new directory inode, below which the kernel knows no names.
Entered(p) ==
  /\ task[p] = "enter"
  /\ Present(result'[p])
  /\ inside' = inside \cup {p}
  /\ dentry' = [dentry EXCEPT ![p] = [f \in Files |-> NoInode]]
  /\ UNCHANGED opened

\* ENOENT: the process stays where it is.
NotEntered(p) ==
  /\ task[p] = "enter"
  /\ ~Present(result'[p])
  /\ UNCHANGED <<inside, dentry, opened>>

\* A new file inode for the item found, which is opened; or ENOENT.
FileFound(p, f) ==
  /\ task[p] = f
  /\ dentry' = [dentry EXCEPT ![p][f] =
       IF Present(result'[p])
       THEN [version |-> result'[p], at |-> taken', until |-> now + EntryTimeout]
       ELSE NoInode]
  /\ opened' = [opened EXCEPT ![p][f] =
       [version |-> result'[p], at |-> taken', when |-> now]]
  /\ UNCHANGED inside

Reply(p) ==
  /\ Listed(p) \/ Entered(p) \/ NotEntered(p) \/ \E f \in Files : FileFound(p, f)
  /\ task' = [task EXCEPT ![p] = "none"]
  /\ UNCHANGED gone

ReplyFromCache(p) == Hit(p) /\ Reply(p) /\ UNCHANGED outage
ReplyRefreshed(p) == FetchOK(p) /\ Reply(p) /\ UNCHANGED outage
ReplyStale(p) == FetchErr(p) /\ Reply(p) /\ outage' = now

\* The steps of get() in between.
Fetching(p) == (Miss(p) \/ ApiAnswers(p)) /\ UNCHANGED treeVars

TreeNext ==
  \/ TreeTick \/ Change \/ Delete
  \/ \E p \in Callers :
       \/ Readdir(p) \/ EnterDir(p) \/ Fetching(p)
       \/ ReplyFromCache(p) \/ ReplyRefreshed(p) \/ ReplyStale(p)
       \/ \E f \in Files : LookupFile(p, f) \/ OpenKnown(p, f)

TreeSpec == TreeInit /\ [][TreeNext]_allVars

-----------------------------------------------------------------------------
(* Properties *)

\* The values the variables range over; a name is dropped after EntryTimeout
\* and its inode shows a listing with the resource in it.
TreeTypeOK ==
  /\ gone \in 0..remote
  /\ inside \subseteq Callers
  /\ task \in [Callers -> {"none", "list", "enter"} \cup Files]
  /\ \A p \in Callers : task[p] = "none" <=> pc[p] = "idle"
  /\ \A p \in Callers, f \in Files :
       /\ dentry[p][f] # NoInode => p \in inside /\ Present(dentry[p][f].version)
       /\ dentry[p][f] \in [version : 0..remote, at : 0..now, until : 0..(now + TTL)]
       /\ opened[p][f] \in [version : 0..remote, at : 0..now, when : 0..now]
  /\ outage \in 0..now

\* What an open shows, or its ENOENT, is what the API had at some moment less
\* than 2 * TTL + FetchMax before, unless a refresh has failed since that
\* moment: the age of the listing and the age of the name add up, but no more.
OpensAreRecent ==
  \A p \in Callers, f \in Files :
    \/ opened[p][f].when - opened[p][f].at < 2 * TTL + FetchMax
    \/ outage > 0 /\ outage >= opened[p][f].at

\* A process never sees a file go back: neither to an older content, nor from
\* ENOENT to a content of before the deletion, while it stays in a directory
\* or when it enters a newer one, although inodes outlive their listing.
OpensNeverRegress ==
  [][\A p \in Callers, f \in Files :
       opened'[p][f].version >= opened[p][f].version]_allVars
=============================================================================
