------------------------------ MODULE Actions ------------------------------
(***************************************************************************)
(* actionsDir and actionInstanceDir of actions.go: the directory of one    *)
(* action of a resource, servers/<id>/actions/<action-id>.                 *)
(*                                                                         *)
(* Unlike the files of a resource, no file here is bound to an item: the   *)
(* Lookup of a name, and each open of the inode it made, search the cache  *)
(* again, and what a Lookup promised may have changed at the open.  No     *)
(* Lookup sets an entry timeout: the kernel asks again for each path.      *)
(*                                                                         *)
(* A walk through servers/<id>/actions makes a new actionsDir with a new   *)
(* cache of its own (TTL: one second); this is one actionsDir and the      *)
(* processes that use it.  The action's life is told in versions of the    *)
(* listing: the first in which it is finished, the first without it.       *)
(***************************************************************************)
EXTENDS Cache

CONSTANTS Always,      \* the files of every action: command, status, ...
          AtEnd        \* those of a finished one: finished, and error if it failed

ASSUME FilesAssumption == Always \cap AtEnd = {}

VARIABLES finished,    \* the first version with the action finished, 0 if none (external)
          gone,        \* the first version without the action, 0 if none (external)
          task,        \* the request each process is in get() for
          inode,       \* the file inode each process holds
          known        \* auxiliary: the names each process has been told of

actionVars == <<finished, gone, task, inode, known>>
allVars == <<vars, actionVars>>

Files == Always \cup AtEnd
Requests == {<<"none">>, <<"search">>, <<"list">>} \cup ({"lookup", "open"} \X Files)
Closed == [file |-> "", at |-> 0]

\* getAction() # nil in version v of the listing.
Present(v) == v # 0 /\ (gone = 0 \/ v < gone)

\* The names of the action's directory, for Readdir and for Lookup, and the
\* files whose content is not empty.
Names(v) ==
  IF ~Present(v) THEN {}
  ELSE IF finished # 0 /\ finished <= v THEN Files ELSE Always

ActionsInit ==
  /\ Init
  /\ finished = 0
  /\ gone = 0
  /\ task = [p \in Callers |-> <<"none">>]
  /\ inode = [p \in Callers |-> Closed]
  /\ known = [p \in Callers |-> {}]

-----------------------------------------------------------------------------
(* The environment *)

ActionsTick == Tick /\ UNCHANGED actionVars

\* The action makes progress, or another one of the listing changes.
Progress == ApiChange /\ UNCHANGED actionVars

\* The action succeeds or fails; its end is never taken back.
Finish ==
  /\ finished = 0
  /\ ApiChange
  /\ finished' = remote + 1
  /\ UNCHANGED <<gone, task, inode, known>>

\* The action is listed no longer.
Vanish ==
  /\ gone = 0
  /\ ApiChange
  /\ gone' = remote + 1
  /\ UNCHANGED <<finished, task, inode, known>>

-----------------------------------------------------------------------------
(* Requests *)

Begin(p, request) ==
  /\ task[p] = <<"none">>
  /\ Call(p)
  /\ task' = [task EXCEPT ![p] = request]
  /\ UNCHANGED <<finished, gone, inode, known>>

\* actionsDir.Readdir and actionsDir.Lookup: the actions, or one of them, are
\* searched in the listing.
Search(p) == Begin(p, <<"search">>)

\* actionInstanceDir.Readdir
Readdir(p) == Begin(p, <<"list">>)

\* actionInstanceDir.Lookup
LookupFile(p, f) == Begin(p, <<"lookup", f>>)

\* When the API had what the open of an inode shows: contentFn does not use
\* the action that Lookup has seen, but the one that is listed now.
ShownAtSnapshot(p) == inode[p].at
ShownAt(p) == taken'

\* dynamicFile.Open of the inode: its contentFn.
OpenFile(p) == inode[p] # Closed /\ Begin(p, <<"open", inode[p].file>>)

-----------------------------------------------------------------------------
(* The end of a request: get() has returned listing result'[p]. *)

Told(p, names) == known' = [known EXCEPT ![p] = @ \cup names]

\* An inode for the action's directory, ENOENT, or the ids: its files are the
\* same through all of them.
Searched(p) ==
  /\ task[p] = <<"search">>
  /\ UNCHANGED <<inode, known>>

Listed(p) ==
  /\ task[p] = <<"list">>
  /\ Told(p, Names(result'[p]))
  /\ UNCHANGED inode

NewInode(p, f) == inode' = [inode EXCEPT ![p] = [file |-> f, at |-> taken']]

\* A new file inode if the action has that file, else ENOENT.
LookedUpUnchecked(p, f) ==
  /\ task[p] = <<"lookup", f>>
  /\ NewInode(p, f)
  /\ Told(p, Names(result'[p]) \cap {f})

LookedUp(p, f) ==
  /\ task[p] = <<"lookup", f>>
  /\ \/ f \in Names(result'[p]) /\ NewInode(p, f)
     \/ f \notin Names(result'[p]) /\ inode' = [inode EXCEPT ![p] = Closed]
  /\ Told(p, Names(result'[p]) \cap {f})

\* The content is put together from the action now listed.
Opened(p, f) ==
  /\ task[p] = <<"open", f>>
  /\ UNCHANGED <<inode, known>>

Reply(p) ==
  /\ Searched(p) \/ Listed(p) \/ \E f \in Files : LookedUp(p, f) \/ Opened(p, f)
  /\ task' = [task EXCEPT ![p] = <<"none">>]
  /\ UNCHANGED <<finished, gone>>

ReplyFromCache(p) == Hit(p) /\ Reply(p)
ReplyRefreshed(p) == FetchOK(p) /\ Reply(p)
ReplyStale(p) == FetchErr(p) /\ Reply(p)

\* The steps of get() in between.
Fetching(p) == (Miss(p) \/ ApiAnswers(p)) /\ UNCHANGED actionVars

ActionsNext ==
  \/ ActionsTick \/ Progress \/ Finish \/ Vanish
  \/ \E p \in Callers :
       \/ Search(p) \/ Readdir(p) \/ OpenFile(p) \/ Fetching(p)
       \/ ReplyFromCache(p) \/ ReplyRefreshed(p) \/ ReplyStale(p)
       \/ \E f \in Files : LookupFile(p, f)

ActionsSpec == ActionsInit /\ [][ActionsNext]_allVars

-----------------------------------------------------------------------------
(* Properties *)

\* The values the variables range over; a process holds inodes only of files
\* that it has been told of.
ActionsTypeOK ==
  /\ finished \in 0..remote
  /\ gone \in 0..remote
  /\ task \in [Callers -> Requests]
  /\ \A p \in Callers : task[p] = <<"none">> <=> pc[p] = "idle"
  /\ inode \in [Callers -> [file : Files, at : 0..now] \cup {Closed}]
  /\ \A p \in Callers : inode[p] # Closed => inode[p].file \in known[p]
  /\ known \in [Callers -> SUBSET Files]

\* A name that a process has been told of, by a listing or by a Lookup, stays:
\* each later request finds it with its content, although it searches a
\* listing of its own, unless the action itself is no longer listed.  So an
\* opened "finished" or "error" file is never empty because the action seems
\* to be running again.
KnownNamesStay ==
  [][\A p \in Callers :
       task[p] # <<"none">> /\ task'[p] = <<"none">> /\ Present(result'[p])
       => known[p] \subseteq Names(result'[p])]_allVars

\* An open shows what the API had less than TTL + FetchMax before, however
\* long ago the inode was made, unless its own refresh has failed.
ActionsRefreshEveryTTL ==
  [][\A p \in Callers, f \in Files :
       task[p] = <<"open", f>> /\ task'[p] = <<"none">> =>
         \/ now - ShownAt(p) < TTL + FetchMax
         \/ InFetch(p) /\ fetched' = fetched]_allVars
=============================================================================
