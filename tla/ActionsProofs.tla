--------------------------- MODULE ActionsProofs ---------------------------
(***************************************************************************)
(* Proofs about Actions, for every set of processes and files, TTL,        *)
(* longest API call and bound.                                             *)
(*                                                                         *)
(* Each request is a call of the cache, so IInv of CacheProofs holds here. *)
(* What a process knows was in some listing up to the one now stored, and  *)
(* the names of an action only grow while it is listed.                    *)
(***************************************************************************)
EXTENDS Actions, CacheProofs

TypedActions ==
  /\ finished \in 0..remote
  /\ gone \in 0..remote
  /\ known \in [Callers -> SUBSET Files]
  /\ task = [p \in Callers |-> task[p]]

\* Each name that a process knows comes from a listing up to the stored one.
KnownFromListing ==
  \A p \in Callers : \A f \in known[p] : \E v \in 0..data : f \in Names(v)

ActionsIInv == IInv /\ TypedActions /\ KnownFromListing

Returns(p) == Hit(p) \/ FetchOK(p) \/ FetchErr(p)

USE TTLAssumption, FetchMaxAssumption

-----------------------------------------------------------------------------
\* A step of the directory is a step of its cache, or leaves the cache alone.
LEMMA StepUsesCache == [ActionsNext]_allVars => [Next]_vars
BY DEF ActionsNext, allVars, ActionsTick, Progress, Finish, Vanish, Search, Readdir, OpenFile,
   LookupFile, Begin, Fetching, ReplyFromCache, ReplyRefreshed, ReplyStale,
   Next, Acquire, FetchStep

\* The cache of an actionsDir behaves as Cache does, however its directory,
\* its files and their opens use it.
THEOREM ActionsUseCache == ActionsSpec => Spec
<1>1. ActionsInit => Init
  BY DEF ActionsInit
<1> QED
  BY <1>1, StepUsesCache, PTL DEF ActionsSpec, Spec

\* A call that returns hands out what is stored then, which is no older than
\* what was stored before.
LEMMA ReturnsStored ==
  ASSUME NEW p \in Callers, IInv, Returns(p)
  PROVE  /\ result'[p] = data' /\ data <= data' /\ data' \in 0..remote
         /\ UNCHANGED <<now, remote>>
<1>1. CASE Hit(p)
  BY <1>1 DEF Hit, Return, cacheVars, IInv, TypeOK
<1>2. CASE FetchOK(p)
  BY <1>2 DEF FetchOK, Store, Return, IInv, TypeOK, FetchInv
<1>3. CASE FetchErr(p)
  BY <1>3 DEF FetchErr, Return, IInv, TypeOK
<1> QED
  BY <1>1, <1>2, <1>3 DEF Returns

\* While the action is listed its names only grow from version to version.
LEMMA NamesGrow ==
  ASSUME NEW v \in Nat, NEW w \in Nat, v <= w, finished \in Nat, gone \in Nat, Present(w)
  PROVE  Names(v) \subseteq Names(w)
BY DEF Names, Present, Files

\* What the API does later does not change the names of earlier versions.
LEMMA NamesSettled ==
  ASSUME TypedActions, remote \in Nat,
         Finish \/ Vanish, NEW v \in 0..remote
  PROVE  Names(v)' = Names(v)
BY DEF Finish, Vanish, Names, Present, TypedActions

LEMMA InitActionsIInv == ActionsInit => ActionsIInv
BY InitIInv DEF ActionsInit, ActionsIInv, TypedActions, KnownFromListing, IInv, TypeOK

\* A reply tells p names of the listing that is stored now.
LEMMA ReplyTellsStored ==
  ASSUME NEW p \in Callers, TypedActions, Reply(p)
  PROVE  /\ UNCHANGED <<finished, gone>>
         /\ known' \in [Callers -> SUBSET Files]
         /\ task' = [task EXCEPT ![p] = <<"none">>]
         /\ \A q \in Callers : \A f \in known'[q] :
              f \in known[q] \/ f \in Names(result'[p])
<1>1. /\ UNCHANGED <<finished, gone>>
      /\ task' = [task EXCEPT ![p] = <<"none">>]
      /\ \/ UNCHANGED known
         \/ \E names \in SUBSET Names(result'[p]) : Told(p, names)
  BY DEF Reply, Searched, Listed, LookedUp, Opened
<1>2. Names(result'[p]) \subseteq Files
  BY DEF Names, Files
<1> QED
  BY <1>1, <1>2 DEF Told, TypedActions

LEMMA NextActionsIInv == ActionsIInv /\ [ActionsNext]_allVars => ActionsIInv'
<1> SUFFICES ASSUME ActionsIInv, [ActionsNext]_allVars PROVE ActionsIInv'
  OBVIOUS
<1>1. IInv'
  BY NextIInv, StepUsesCache DEF ActionsIInv
<1>2. remote \in Nat /\ data \in 0..remote
  BY DEF ActionsIInv, IInv, TypeOK
<1> DEFINE Quiet == /\ UNCHANGED <<finished, gone, known, data>>
                    /\ task' = [p \in Callers |-> task'[p]]
                    /\ remote' \in Nat /\ remote <= remote'
<1>3. ASSUME Quiet PROVE ActionsIInv'
  <2>1. \A v : Names(v)' = Names(v)
    BY <1>3 DEF Names, Present
  <2>2. TypedActions'
    BY <1>2, <1>3 DEF ActionsIInv, TypedActions
  <2>3. KnownFromListing'
    BY <1>3, <2>1 DEF ActionsIInv, KnownFromListing
  <2> QED
    BY <1>1, <2>2, <2>3 DEF ActionsIInv
<1>4. CASE ActionsTick \/ Progress
  <2>1. UNCHANGED task
    BY <1>4 DEF ActionsTick, Progress, actionVars
  <2> QED
    BY <1>2, <1>3, <1>4, <2>1 DEF ActionsTick, Tick, Progress, ApiChange, actionVars, cacheVars,
       ActionsIInv, TypedActions
<1>5. CASE Finish \/ Vanish
  <2>1. /\ remote' = remote + 1 /\ UNCHANGED <<known, data, task>>
        /\ finished' \in 0..remote' /\ gone' \in 0..remote'
    BY <1>2, <1>5 DEF Finish, Vanish, ApiChange, cacheVars, ActionsIInv, TypedActions
  <2>2. \A v \in 0..data : Names(v)' = Names(v)
    BY <1>2, <1>5, NamesSettled DEF ActionsIInv
  <2>3. KnownFromListing'
    BY <2>1, <2>2 DEF ActionsIInv, KnownFromListing
  <2> QED
    BY <1>1, <2>1, <2>3 DEF ActionsIInv, TypedActions
<1>6. ASSUME NEW p \in Callers, Search(p) \/ Readdir(p) \/ OpenFile(p) \/ \E f \in Files : LookupFile(p, f)
      PROVE  ActionsIInv'
  BY <1>2, <1>3, <1>6 DEF Search, Readdir, OpenFile, LookupFile, Begin, Call, cacheVars, ActionsIInv, TypedActions
<1>7. ASSUME NEW p \in Callers, Fetching(p) PROVE ActionsIInv'
  BY <1>2, <1>3, <1>7 DEF Fetching, Miss, EnterFetch, ApiAnswers, actionVars, cacheVars,
     ActionsIInv, TypedActions
<1>8. ASSUME NEW p \in Callers, ReplyFromCache(p) \/ ReplyRefreshed(p) \/ ReplyStale(p)
      PROVE  ActionsIInv'
  <2>1. Returns(p) /\ Reply(p)
    BY <1>8 DEF ReplyFromCache, ReplyRefreshed, ReplyStale, Returns
  <2>2. /\ result'[p] = data' /\ data <= data' /\ data' \in 0..remote
        /\ UNCHANGED <<now, remote>>
    BY <2>1, ReturnsStored DEF ActionsIInv
  <2>3. /\ UNCHANGED <<finished, gone>>
        /\ known' \in [Callers -> SUBSET Files]
        /\ task' = [task EXCEPT ![p] = <<"none">>]
        /\ \A q \in Callers : \A f \in known'[q] :
             f \in known[q] \/ f \in Names(result'[p])
    BY <2>1, ReplyTellsStored DEF ActionsIInv
  <2>4. \A v : Names(v)' = Names(v)
    BY <2>3 DEF Names, Present
  <2>5. TypedActions'
    BY <2>2, <2>3 DEF ActionsIInv, TypedActions
  <2>6. ASSUME NEW q \in Callers, NEW f \in known'[q]
        PROVE  \E v \in 0..data' : f \in Names(v)
    <3>1. CASE f \in known[q]
      <4>1. PICK v \in 0..data : f \in Names(v)
        BY <3>1 DEF ActionsIInv, KnownFromListing
      <4>2. v \in 0..data'
        BY <1>2, <2>2
      <4> QED
        BY <4>1, <4>2
    <3>2. CASE f \in Names(result'[p])
      BY <2>2, <3>2
    <3> QED
      BY <2>3, <3>1, <3>2
  <2>7. KnownFromListing'
    BY <2>4, <2>6 DEF KnownFromListing
  <2> QED
    BY <1>1, <2>5, <2>7 DEF ActionsIInv
<1>9. CASE UNCHANGED allVars
  BY <1>2, <1>3, <1>9 DEF allVars, vars, cacheVars, actionVars, ActionsIInv, TypedActions
<1> QED
  BY <1>4, <1>5, <1>6, <1>7, <1>8, <1>9 DEF ActionsNext

LEMMA SpecActionsIInv == ActionsSpec => []ActionsIInv
BY InitActionsIInv, NextActionsIInv, PTL DEF ActionsSpec

-----------------------------------------------------------------------------
\* Only a reply ends a request.
LEMMA EndIsReply ==
  ASSUME ActionsIInv, [ActionsNext]_allVars,
         NEW p \in Callers, task[p] # <<"none">>, task'[p] = <<"none">>
  PROVE  ReplyFromCache(p) \/ ReplyRefreshed(p) \/ ReplyStale(p)
<1>1. task = [q \in Callers |-> task[q]]
  BY DEF ActionsIInv, TypedActions
<1>2. task' # task
  BY <1>1
<1>3. /\ <<"search">> # <<"none">> /\ <<"list">> # <<"none">>
      /\ \A f : <<"lookup", f>> # <<"none">> /\ <<"open", f>> # <<"none">>
  OBVIOUS
<1>4. \A q \in Callers : ~Search(q) /\ ~Readdir(q) /\ ~OpenFile(q) /\ \A f \in Files : ~LookupFile(q, f)
  <2> SUFFICES ASSUME NEW q \in Callers, NEW request, request # <<"none">>, Begin(q, request)
               PROVE  FALSE
    BY <1>3 DEF Search, Readdir, OpenFile, LookupFile
  <2> QED
    BY <1>1 DEF Begin
<1>5. PICK q \in Callers : ReplyFromCache(q) \/ ReplyRefreshed(q) \/ ReplyStale(q)
  BY <1>2, <1>4 DEF ActionsNext, allVars, ActionsTick, Progress, Finish, Vanish, Fetching, actionVars
<1>6. task' = [task EXCEPT ![q] = <<"none">>]
  BY <1>5 DEF ReplyFromCache, ReplyRefreshed, ReplyStale, Reply
<1> QED
  BY <1>1, <1>5, <1>6

\* A name that a process has been told of stays until the action is no longer
\* listed, for any number of processes and whatever refreshes fail.
THEOREM NamesStay == ActionsSpec => KnownNamesStay
<1> DEFINE Stay ==
      \A p \in Callers :
        task[p] # <<"none">> /\ task'[p] = <<"none">> /\ Present(result'[p])
        => known[p] \subseteq Names(result'[p])
<1>1. ASSUME ActionsIInv, [ActionsNext]_allVars PROVE Stay
  <2> SUFFICES ASSUME NEW p \in Callers, task[p] # <<"none">>, task'[p] = <<"none">>,
                      Present(result'[p]), NEW f \in known[p]
               PROVE  f \in Names(result'[p])
    OBVIOUS
  <2>1. Returns(p)
    BY <1>1, EndIsReply DEF ReplyFromCache, ReplyRefreshed, ReplyStale, Returns
  <2>2. result'[p] = data' /\ data <= data' /\ data' \in 0..remote
    BY <1>1, <2>1, ReturnsStored DEF ActionsIInv
  <2>3. PICK v \in 0..data : f \in Names(v)
    BY <1>1 DEF ActionsIInv, KnownFromListing
  <2>4. /\ data \in Nat /\ data' \in Nat /\ v \in Nat /\ v <= data'
        /\ finished \in Nat /\ gone \in Nat
    BY <1>1, <2>2 DEF ActionsIInv, IInv, TypeOK, TypedActions
  <2> QED
    BY <2>2, <2>3, <2>4, NamesGrow
<1>2. ActionsIInv /\ [ActionsNext]_allVars => [Stay]_allVars
  BY <1>1
<1> QED
  BY <1>2, SpecActionsIInv, PTL DEF ActionsSpec, KnownNamesStay

\* An open shows what the API had less than TTL + FetchMax before, however old
\* its inode, unless its own refresh has failed.
THEOREM ActionsRefresh == ActionsSpec => ActionsRefreshEveryTTL
<1> DEFINE Recent ==
      \A p \in Callers, f \in Files :
        task[p] = <<"open", f>> /\ task'[p] = <<"none">> =>
          \/ now - ShownAt(p) < TTL + FetchMax
          \/ InFetch(p) /\ fetched' = fetched
<1>1. ASSUME ActionsIInv, [ActionsNext]_allVars PROVE Recent
  <2> SUFFICES ASSUME NEW p \in Callers, NEW f \in Files,
                      task[p] = <<"open", f>>, task'[p] = <<"none">>
               PROVE  \/ now - taken' < TTL + FetchMax
                      \/ InFetch(p) /\ fetched' = fetched
    BY DEF ShownAt
  <2>1. ReplyFromCache(p) \/ ReplyRefreshed(p) \/ ReplyStale(p)
    BY <1>1, EndIsReply
  <2>2. /\ now \in Nat /\ fetched \in 0..now /\ taken \in 0..now
        /\ fetched - taken <= FetchMax
    BY <1>1 DEF ActionsIInv, IInv, TypeOK, StoreInv
  <2>3. CASE ReplyFromCache(p)
    <3>1. now - fetched < TTL /\ taken' = taken
      BY <2>3 DEF ReplyFromCache, Hit, Fresh, cacheVars
    <3> QED
      BY <2>2, <3>1
  <2>4. CASE ReplyRefreshed(p)
    <3>1. pc[p] = "answered" /\ taken' = answer[p].at
      BY <2>4 DEF ReplyRefreshed, FetchOK, Store
    <3>2. /\ now - started[p] <= FetchMax /\ started[p] <= answer[p].at
          /\ started[p] \in Nat /\ answer[p].at \in Nat
      BY <1>1, <3>1 DEF ActionsIInv, IInv, TypeOK, FetchInv, InFetch
    <3> QED
      BY <2>2, <3>1, <3>2
  <2>5. CASE ReplyStale(p)
    BY <2>5 DEF ReplyStale, FetchErr
  <2> QED
    BY <2>1, <2>3, <2>4, <2>5
<1>2. ActionsIInv /\ [ActionsNext]_allVars => [Recent]_allVars
  BY <1>1
<1> QED
  BY <1>2, SpecActionsIInv, PTL DEF ActionsSpec, ActionsRefreshEveryTTL

-----------------------------------------------------------------------------
(* The type invariant, in the parts that different steps disturb. *)

RequestsTyped ==
  /\ task \in [Callers -> Requests]
  /\ \A p \in Callers : task[p] = <<"none">> <=> pc[p] = "idle"

InodesTyped ==
  /\ inode \in [Callers -> [file : Files, at : 0..now] \cup {Closed}]
  /\ \A p \in Callers : inode[p] # Closed => inode[p].file \in known[p]

LEMMA InitActionsTyped == ActionsInit => RequestsTyped /\ InodesTyped
BY DEF ActionsInit, Init, RequestsTyped, InodesTyped, Requests

LEMMA RequestNames ==
  /\ <<"search">> # <<"none">> /\ <<"list">> # <<"none">>
  /\ \A f : <<"lookup", f>> # <<"none">> /\ <<"open", f>> # <<"none">>
OBVIOUS

LEMMA RequestsAre ==
  /\ {<<"none">>, <<"search">>, <<"list">>} \subseteq Requests
  /\ \A f \in Files : <<"lookup", f>> \in Requests /\ <<"open", f>> \in Requests
BY DEF Requests

\* A request is under way exactly while its call of get() is.
LEMMA NextRequestsTyped ==
  ASSUME ActionsIInv, InodesTyped, RequestsTyped, [ActionsNext]_allVars
  PROVE  RequestsTyped'
<1> USE DEF RequestsTyped
<1>1. pc \in [Callers -> {"idle", "locking", "fetching", "answered"}]
  BY DEF ActionsIInv, IInv, TypeOK
<1>2. CASE ActionsTick \/ Progress \/ Finish \/ Vanish
  BY <1>2 DEF ActionsTick, Tick, Progress, Finish, Vanish, ApiChange, actionVars, callVars
<1>3. ASSUME NEW p \in Callers, NEW request \in Requests, request # <<"none">>, Begin(p, request)
      PROVE  RequestsTyped'
  <2>1. /\ task' = [task EXCEPT ![p] = request]
        /\ pc' = [pc EXCEPT ![p] = "locking"]
    BY <1>3 DEF Begin, Call
  <2> QED
    BY <1>1, <1>3, <2>1
<1>4. ASSUME NEW p \in Callers, Search(p) \/ Readdir(p) \/ OpenFile(p) \/ \E f \in Files : LookupFile(p, f)
      PROVE  RequestsTyped'
  <2>1. inode[p] # Closed => inode[p].file \in Files
    BY DEF InodesTyped
  <2> QED
    BY <1>3, <1>4, <2>1, RequestNames, RequestsAre DEF Search, Readdir, OpenFile, LookupFile
<1>5. ASSUME NEW p \in Callers, Fetching(p) PROVE RequestsTyped'
  BY <1>1, <1>5 DEF Fetching, Miss, EnterFetch, ApiAnswers, actionVars
<1>6. ASSUME NEW p \in Callers, ReplyFromCache(p) \/ ReplyRefreshed(p) \/ ReplyStale(p)
      PROVE  RequestsTyped'
  <2>1. pc' = [pc EXCEPT ![p] = "idle"]
    BY <1>6 DEF ReplyFromCache, ReplyRefreshed, ReplyStale, Hit, FetchOK, Store, FetchErr, Return
  <2>2. task' = [task EXCEPT ![p] = <<"none">>]
    BY <1>6 DEF ReplyFromCache, ReplyRefreshed, ReplyStale, Reply
  <2> QED
    BY <1>1, <2>1, <2>2, RequestsAre
<1>7. CASE UNCHANGED allVars
  BY <1>7 DEF allVars, vars, callVars, actionVars
<1> QED
  BY <1>2, <1>4, <1>5, <1>6, <1>7 DEF ActionsNext

\* Only the Lookup of a name that the action has, which tells of it, makes an
\* inode.
LEMMA NextInodesTyped ==
  ASSUME ActionsIInv, IInv', InodesTyped, [ActionsNext]_allVars
  PROVE  InodesTyped'
<1>1. now \in Nat /\ now' \in Nat /\ taken' \in 0..now'
  BY DEF ActionsIInv, IInv, TypeOK
<1> DEFINE Kept == UNCHANGED <<inode, known>> /\ now <= now'
<1>2. ASSUME Kept PROVE InodesTyped'
  BY <1>1, <1>2 DEF InodesTyped
<1>3. CASE ActionsTick \/ Progress \/ Finish \/ Vanish
  BY <1>1, <1>2, <1>3 DEF ActionsTick, Tick, Progress, Finish, Vanish, ApiChange, actionVars
<1>4. ASSUME NEW p \in Callers, Search(p) \/ Readdir(p) \/ OpenFile(p) \/ \E f \in Files : LookupFile(p, f)
      PROVE  InodesTyped'
  BY <1>1, <1>2, <1>4 DEF Search, Readdir, OpenFile, LookupFile, Begin, Call
<1>5. ASSUME NEW p \in Callers, Fetching(p) PROVE InodesTyped'
  BY <1>1, <1>2, <1>5 DEF Fetching, Miss, EnterFetch, ApiAnswers, actionVars
<1>6. ASSUME NEW p \in Callers, ReplyFromCache(p) \/ ReplyRefreshed(p) \/ ReplyStale(p)
      PROVE  InodesTyped'
  <2>1. now' = now /\ Reply(p)
    BY <1>6 DEF ReplyFromCache, ReplyRefreshed, ReplyStale, Hit, FetchOK, Store, FetchErr
  <2>2. ASSUME NEW names, Told(p, names)
        PROVE  \A q \in Callers : known[q] \subseteq known'[q]
    BY <2>2 DEF Told, ActionsIInv, TypedActions
  <2>3. CASE inode' = inode
    <3>1. \A q \in Callers : known[q] \subseteq known'[q]
      BY <2>1, <2>2 DEF Reply, Searched, Listed, LookedUp, Opened
    <3> QED
      BY <2>1, <2>3, <3>1 DEF InodesTyped
  <2>4. ASSUME NEW f \in Files, LookedUp(p, f) PROVE InodesTyped'
    <3>1. \A q \in Callers : known[q] \subseteq known'[q]
      BY <2>2, <2>4 DEF LookedUp
    <3>2. CASE f \in Names(result'[p]) /\ NewInode(p, f)
      <4>1. f \in known'[p]
        BY <2>4, <3>2 DEF LookedUp, Told, ActionsIInv, TypedActions
      <4>2. [file |-> f, at |-> taken'] \in [file : Files, at : 0..now']
        BY <1>1
      <4> QED
        BY <2>1, <3>1, <3>2, <4>1, <4>2 DEF NewInode, InodesTyped
    <3>3. CASE inode' = [inode EXCEPT ![p] = Closed]
      BY <2>1, <3>1, <3>3 DEF InodesTyped
    <3> QED
      BY <2>4, <3>2, <3>3 DEF LookedUp
  <2> QED
    BY <2>1, <2>3, <2>4 DEF Reply, Searched, Listed, Opened
<1>7. CASE UNCHANGED allVars
  BY <1>1, <1>2, <1>7 DEF allVars, vars, actionVars
<1> QED
  BY <1>3, <1>4, <1>5, <1>6, <1>7 DEF ActionsNext

\* Type correctness; in particular, a process holds inodes only of files that
\* some listing has told it of.
THEOREM ActionsTypeCorrect == ActionsSpec => []ActionsTypeOK
<1>1. ActionsInit => RequestsTyped /\ InodesTyped
  BY InitActionsTyped
<1>2. ActionsIInv /\ ActionsIInv' /\ RequestsTyped /\ InodesTyped /\ [ActionsNext]_allVars
      => RequestsTyped' /\ InodesTyped'
  BY NextRequestsTyped, NextInodesTyped DEF ActionsIInv
<1>3. ActionsIInv /\ RequestsTyped /\ InodesTyped => ActionsTypeOK
  BY DEF ActionsIInv, TypedActions, RequestsTyped, InodesTyped, ActionsTypeOK
<1> QED
  BY <1>1, <1>2, <1>3, SpecActionsIInv, PTL DEF ActionsSpec
=============================================================================
