------------------------- MODULE ResourceTreeProofs -------------------------
(***************************************************************************)
(* Proofs about ResourceTree, for every set of processes and files, TTL,   *)
(* longest API call and bound.                                             *)
(*                                                                         *)
(* The tree only uses its cache through get(), so what CacheProofs proves  *)
(* of Cache holds of the tree's cache too (TreeUsesCache).  On top of that *)
(* an inode never outlives its listing by more than TTL, and an open shows *)
(* what its inode shows.                                                   *)
(***************************************************************************)
EXTENDS ResourceTree, CacheProofs

TypedTree ==
  /\ dentry \in [Callers -> [Files -> [version : Nat, at : Nat, until : Nat]]]
  /\ opened \in [Callers -> [Files -> [version : Nat, at : Nat, when : Nat]]]
  /\ outage \in 0..now

\* An inode expires less than 2 * TTL + FetchMax after the API had the item.
NamesAreRecent ==
  \A p \in Callers, f \in Files :
    \/ dentry[p][f].until - dentry[p][f].at < 2 * TTL + FetchMax
    \/ outage > 0 /\ outage >= dentry[p][f].at

\* An inode shows what the last open of its file showed, and no open has shown
\* more than what is stored.
NamesShown ==
  \A p \in Callers, f \in Files :
    /\ dentry[p][f] # NoInode => dentry[p][f].version = opened[p][f].version
    /\ opened[p][f].version <= data

TreeIInv == IInv /\ TypedTree /\ NamesAreRecent /\ NamesShown /\ OpensAreRecent

\* What get() has just returned to p is stored, is no older than what was
\* stored, and is recent unless a refresh has failed.
Delivered(p) ==
  /\ now' = now
  /\ result'[p] = data'
  /\ data \in Nat /\ data' \in Nat /\ data <= data'
  /\ taken' \in 0..now
  /\ outage \in 0..now /\ outage' \in 0..now /\ outage <= outage'
  /\ \/ now - taken' < TTL + FetchMax
     \/ outage' > 0 /\ outage' >= taken'

USE TTLAssumption, FetchMaxAssumption

-----------------------------------------------------------------------------
\* A step of the tree is a step of its cache, or leaves the cache alone.
LEMMA StepUsesCache == [TreeNext]_allVars => [Next]_vars
BY DEF TreeNext, allVars, TreeTick, Change, Delete, Readdir, EnterDir, LookupFile, Begin,
   Fetching, ReplyFromCache, ReplyRefreshed, ReplyStale, OpenKnown,
   Next, Acquire, FetchStep

\* The cache of resourceDir behaves as Cache does, however the directories,
\* the kernel's names and the other processes use it.
THEOREM TreeUsesCache == TreeSpec => Spec
<1>1. TreeInit => Init
  BY DEF TreeInit
<1> QED
  BY <1>1, StepUsesCache, PTL DEF TreeSpec, Spec

LEMMA InitTreeIInv == TreeInit => TreeIInv
<1> SUFFICES ASSUME TreeInit PROVE TreeIInv
  OBVIOUS
<1>1. IInv
  BY InitIInv DEF TreeInit
<1>2. TypedTree
  BY <1>1 DEF TreeInit, TypedTree, NoInode, NotOpened, IInv, TypeOK
<1>3. \A p \in Callers, f \in Files : dentry[p][f] = NoInode /\ opened[p][f] = NotOpened
  BY DEF TreeInit
<1>4. NamesAreRecent /\ OpensAreRecent
  BY <1>3 DEF NamesAreRecent, OpensAreRecent, NoInode, NotOpened
<1>5. NamesShown
  BY <1>3 DEF NamesShown, NotOpened, TreeInit, Init
<1> QED
  BY <1>1, <1>2, <1>4, <1>5 DEF TreeIInv

\* The three ways in which get() returns deliver such a listing.
LEMMA RepliesDeliver ==
  ASSUME NEW p \in Callers, TreeIInv,
         ReplyFromCache(p) \/ ReplyRefreshed(p) \/ ReplyStale(p)
  PROVE  Delivered(p)
<1>1. /\ now \in Nat /\ data \in Nat /\ fetched \in 0..now /\ taken \in 0..now
      /\ outage \in 0..now /\ fetched - taken <= FetchMax
      /\ pc \in [Callers -> {"idle", "locking", "fetching", "answered"}]
      /\ result \in [Callers -> 0..remote]
  BY DEF TreeIInv, TypedTree, IInv, TypeOK, StoreInv
<1>2. ASSUME pc[p] = "answered"
      PROVE  /\ answer[p].version \in Nat /\ answer[p].at \in 0..now
             /\ now - answer[p].at <= FetchMax /\ answer[p].version >= data
  BY <1>1, <1>2 DEF TreeIInv, IInv, TypeOK, FetchInv, InFetch
<1>3. CASE ReplyFromCache(p)
  <2>1. /\ now' = now /\ result'[p] = data /\ outage' = outage
        /\ data' = data /\ taken' = taken /\ now - fetched < TTL
    BY <1>1, <1>3 DEF ReplyFromCache, Hit, Fresh, Return, cacheVars
  <2> QED
    BY <1>1, <2>1 DEF Delivered
<1>4. CASE ReplyRefreshed(p)
  <2>1. /\ now' = now /\ outage' = outage /\ pc[p] = "answered"
        /\ data' = answer[p].version /\ taken' = answer[p].at
        /\ result'[p] = answer[p].version
    BY <1>1, <1>4 DEF ReplyRefreshed, FetchOK, Store, Return
  <2> QED
    BY <1>1, <1>2, <2>1 DEF Delivered
<1>5. CASE ReplyStale(p)
  <2>1. /\ now' = now /\ outage' = now /\ InFetch(p)
        /\ data' = data /\ taken' = taken /\ result'[p] = data
    BY <1>1, <1>5 DEF ReplyStale, FetchErr, Return
  <2>2. now > 0
    BY <1>1, <2>1 DEF TreeIInv, IInv, FetchInv
  <2> QED
    BY <1>1, <2>1, <2>2 DEF Delivered
<1> QED
  BY <1>3, <1>4, <1>5

\* What is known of other files, and of p's when nothing happens to them,
\* stays true when get() returns.
LEMMA DeliveryPreserves ==
  ASSUME NEW p \in Callers, TreeIInv, Delivered(p), NEW q \in Callers, NEW g \in Files
  PROVE  /\ opened[q][g].version <= data'
         /\ \/ dentry[q][g].until - dentry[q][g].at < 2 * TTL + FetchMax
            \/ outage' > 0 /\ outage' >= dentry[q][g].at
         /\ \/ opened[q][g].when - opened[q][g].at < 2 * TTL + FetchMax
            \/ outage' > 0 /\ outage' >= opened[q][g].at
<1>1. /\ dentry[q][g] \in [version : Nat, at : Nat, until : Nat]
      /\ opened[q][g] \in [version : Nat, at : Nat, when : Nat]
  BY DEF TreeIInv, TypedTree
<1>2. /\ data \in Nat /\ data' \in Nat /\ data <= data'
      /\ outage \in Nat /\ outage' \in Nat /\ outage <= outage'
  BY DEF Delivered, TreeIInv, IInv, TypeOK
<1> QED
  BY <1>1, <1>2 DEF TreeIInv, NamesAreRecent, NamesShown, OpensAreRecent

\* A name's life comes on top of its listing's age.
LEMMA AgesAdd ==
  \A a, b, t, m \in Int : a - b < t + m => (a + t) - b < 2 * t + m
OBVIOUS

LEMMA NewNamesAreRecent ==
  ASSUME NEW p \in Callers, TreeIInv, Delivered(p)
  PROVE  \/ (now + TTL) - taken' < 2 * TTL + FetchMax
         \/ outage' > 0 /\ outage' >= taken'
<1>1. now \in Int /\ taken' \in Int /\ TTL \in Int /\ FetchMax \in Int
  BY DEF Delivered, TreeIInv, IInv, TypeOK
<1>2. now - taken' < TTL + FetchMax => (now + TTL) - taken' < 2 * TTL + FetchMax
  BY <1>1, AgesAdd
<1> QED
  BY <1>2 DEF Delivered

\* The end of a request preserves what is known of inodes and opens.
LEMMA ReplyPreserves ==
  ASSUME NEW p \in Callers, TreeIInv, IInv', Reply(p), Delivered(p)
  PROVE  TreeIInv'
<1> DEFINE Known(q, g) ==
      /\ dentry'[q][g] # NoInode => dentry'[q][g].version = opened'[q][g].version
      /\ opened'[q][g].version <= data'
      /\ \/ dentry'[q][g].until - dentry'[q][g].at < 2 * TTL + FetchMax
         \/ outage' > 0 /\ outage' >= dentry'[q][g].at
      /\ \/ opened'[q][g].when - opened'[q][g].at < 2 * TTL + FetchMax
         \/ outage' > 0 /\ outage' >= opened'[q][g].at
<1>1. outage' \in 0..now'
  BY DEF Delivered
<1>2. ASSUME NEW q \in Callers, NEW g \in Files,
             dentry'[q][g] = dentry[q][g], opened'[q][g] = opened[q][g]
      PROVE  Known(q, g)
  BY <1>2, DeliveryPreserves DEF TreeIInv, NamesShown
<1>3. SUFFICES /\ dentry' \in [Callers -> [Files -> [version : Nat, at : Nat, until : Nat]]]
               /\ opened' \in [Callers -> [Files -> [version : Nat, at : Nat, when : Nat]]]
               /\ \A q \in Callers, g \in Files : Known(q, g)
  BY <1>1 DEF TreeIInv, TypedTree, NamesAreRecent, NamesShown, OpensAreRecent
<1>4. CASE UNCHANGED <<dentry, opened>>
  BY <1>2, <1>4 DEF TreeIInv, TypedTree
<1>5. CASE Entered(p)
  <2>1. /\ dentry' = [dentry EXCEPT ![p] = [g \in Files |-> NoInode]]
        /\ opened' = opened
    BY <1>5 DEF Entered
  <2>2. dentry' \in [Callers -> [Files -> [version : Nat, at : Nat, until : Nat]]]
    BY <2>1 DEF TreeIInv, TypedTree, NoInode
  <2>3. ASSUME NEW g \in Files PROVE Known(p, g)
    <3>1. dentry'[p][g] = NoInode /\ opened'[p][g] = opened[p][g]
      BY <2>1 DEF TreeIInv, TypedTree
    <3>2. NoInode.until - NoInode.at < 2 * TTL + FetchMax
      BY DEF NoInode
    <3> QED
      BY <3>1, <3>2, DeliveryPreserves
  <2>4. ASSUME NEW q \in Callers, NEW g \in Files, q # p PROVE Known(q, g)
    BY <1>2, <2>1, <2>4 DEF TreeIInv, TypedTree
  <2> QED
    BY <2>1, <2>2, <2>3, <2>4 DEF TreeIInv, TypedTree
<1>6. ASSUME NEW f \in Files, FileFound(p, f)
      PROVE  /\ dentry' \in [Callers -> [Files -> [version : Nat, at : Nat, until : Nat]]]
             /\ opened' \in [Callers -> [Files -> [version : Nat, at : Nat, when : Nat]]]
             /\ \A q \in Callers, g \in Files : Known(q, g)
  <2> DEFINE bound == [version |-> result'[p], at |-> taken', until |-> now + EntryTimeout]
             new == IF Present(result'[p]) THEN bound ELSE NoInode
             seen == [version |-> result'[p], at |-> taken', when |-> now]
  <2>1. /\ dentry' = [dentry EXCEPT ![p][f] = new]
        /\ opened' = [opened EXCEPT ![p][f] = seen]
    BY <1>6 DEF FileFound
  <2>2. now \in Nat /\ result'[p] \in Nat /\ taken' \in Nat /\ now + TTL \in Nat
    BY DEF Delivered, TreeIInv, IInv, TypeOK
  <2>3. bound \in [version : Nat, at : Nat, until : Nat] /\ bound.version = seen.version
    BY <2>2 DEF EntryTimeout
  <2>4. \/ bound.until - bound.at < 2 * TTL + FetchMax
        \/ outage' > 0 /\ outage' >= bound.at
    <3>1. bound.until = now + TTL /\ bound.at = taken'
      BY DEF EntryTimeout
    <3>2. \/ (now + TTL) - taken' < 2 * TTL + FetchMax
          \/ outage' > 0 /\ outage' >= taken'
      BY NewNamesAreRecent
    <3> HIDE DEF bound
    <3> QED
      BY <3>1, <3>2
  <2>5. /\ NoInode \in [version : Nat, at : Nat, until : Nat]
        /\ NoInode.until - NoInode.at < 2 * TTL + FetchMax
    BY DEF NoInode
  <2>6. /\ new \in [version : Nat, at : Nat, until : Nat]
        /\ new # NoInode => new.version = seen.version
        /\ \/ new.until - new.at < 2 * TTL + FetchMax
           \/ outage' > 0 /\ outage' >= new.at
    BY <2>3, <2>4, <2>5
  <2>7. /\ seen \in [version : Nat, at : Nat, when : Nat]
        /\ seen.version <= data'
        /\ \/ seen.when - seen.at < 2 * TTL + FetchMax
           \/ outage' > 0 /\ outage' >= seen.at
    <3>1. seen.version = result'[p] /\ seen.at = taken' /\ seen.when = now
      OBVIOUS
    <3>2. seen \in [version : Nat, at : Nat, when : Nat]
      BY <2>2
    <3> QED
      BY <2>2, <3>1, <3>2 DEF Delivered
  <2> HIDE DEF new, seen
  <2>8. /\ dentry' \in [Callers -> [Files -> [version : Nat, at : Nat, until : Nat]]]
        /\ opened' \in [Callers -> [Files -> [version : Nat, at : Nat, when : Nat]]]
    BY <2>1, <2>6, <2>7 DEF TreeIInv, TypedTree
  <2>9. dentry'[p][f] = new /\ opened'[p][f] = seen
    BY <2>1 DEF TreeIInv, TypedTree
  <2>10. ASSUME NEW q \in Callers, NEW g \in Files, q # p \/ g # f
         PROVE  dentry'[q][g] = dentry[q][g] /\ opened'[q][g] = opened[q][g]
    BY <2>1, <2>10 DEF TreeIInv, TypedTree
  <2>11. Known(p, f)
    BY <2>6, <2>7, <2>9
  <2> QED
    BY <1>2, <2>8, <2>10, <2>11
<1> QED
  BY <1>4, <1>5, <1>6 DEF Reply, Listed, NotEntered

LEMMA NextTreeIInv == TreeIInv /\ [TreeNext]_allVars => TreeIInv'
<1> SUFFICES ASSUME TreeIInv, [TreeNext]_allVars PROVE TreeIInv'
  OBVIOUS
<1>1. IInv'
  BY NextIInv, StepUsesCache DEF TreeIInv
<1> DEFINE Quiet == /\ UNCHANGED <<dentry, opened, outage, data>>
                    /\ now <= now'
<1>2. ASSUME Quiet PROVE TreeIInv'
  BY <1>1, <1>2 DEF TreeIInv, TypedTree, NamesAreRecent, NamesShown, OpensAreRecent, IInv, TypeOK
<1>3. CASE TreeTick \/ Change \/ Delete
  <2>1. Quiet
    BY <1>3 DEF TreeTick, Tick, Change, Delete, ApiChange, treeVars, cacheVars,
       TreeIInv, IInv, TypeOK
  <2> QED
    BY <1>2, <2>1
<1>4. ASSUME NEW p \in Callers, Readdir(p) \/ EnterDir(p) \/ \E f \in Files : LookupFile(p, f)
      PROVE  TreeIInv'
  <2>1. Quiet
    BY <1>4 DEF Readdir, EnterDir, LookupFile, Begin, Call, cacheVars, TreeIInv, IInv, TypeOK
  <2> QED
    BY <1>2, <2>1
<1>5. ASSUME NEW p \in Callers, Fetching(p) PROVE TreeIInv'
  <2>1. Quiet
    BY <1>5 DEF Fetching, Miss, EnterFetch, ApiAnswers, treeVars, cacheVars, TreeIInv, IInv, TypeOK
  <2> QED
    BY <1>2, <2>1
<1>6. ASSUME NEW p \in Callers, ReplyFromCache(p) \/ ReplyRefreshed(p) \/ ReplyStale(p)
      PROVE  TreeIInv'
  BY <1>1, <1>6, RepliesDeliver, ReplyPreserves DEF ReplyFromCache, ReplyRefreshed, ReplyStale
<1>7. ASSUME NEW p \in Callers, NEW f \in Files, OpenKnown(p, f) PROVE TreeIInv'
  <2> DEFINE seen == [version |-> dentry[p][f].version, at |-> dentry[p][f].at, when |-> now]
  <2>1. /\ opened' = [opened EXCEPT ![p][f] = seen]
        /\ UNCHANGED <<dentry, outage, data, now>>
        /\ dentry[p][f] # NoInode /\ now <= dentry[p][f].until
    BY <1>7 DEF OpenKnown, KnownInode, vars, cacheVars
  <2>2. now \in Nat /\ data \in Nat
    BY DEF TreeIInv, IInv, TypeOK
  <2>3. /\ seen \in [version : Nat, at : Nat, when : Nat]
        /\ seen.version = opened[p][f].version /\ seen.version = dentry[p][f].version
        /\ seen.at = dentry[p][f].at /\ seen.when = now
    BY <2>1, <2>2 DEF TreeIInv, TypedTree, NamesShown
  <2> HIDE DEF seen
  <2>4. TypedTree'
    BY <2>1, <2>3 DEF TreeIInv, TypedTree
  <2>5. /\ opened'[p][f] = seen
        /\ \A q \in Callers, g \in Files : <<q, g>> # <<p, f>> => opened'[q][g] = opened[q][g]
    BY <2>1 DEF TreeIInv, TypedTree
  <2>6. NamesAreRecent'
    BY <2>1 DEF TreeIInv, NamesAreRecent
  <2>7. NamesShown'
    BY <2>1, <2>3, <2>5 DEF TreeIInv, NamesShown
  <2>8. \/ seen.when - seen.at < 2 * TTL + FetchMax
        \/ outage > 0 /\ outage >= seen.at
    BY <2>1, <2>2, <2>3 DEF TreeIInv, TypedTree, NamesAreRecent
  <2>9. OpensAreRecent'
    BY <2>1, <2>5, <2>8 DEF TreeIInv, OpensAreRecent
  <2> QED
    BY <1>1, <2>4, <2>6, <2>7, <2>9 DEF TreeIInv
<1>8. CASE UNCHANGED allVars
  BY <1>2, <1>8 DEF allVars, vars, cacheVars, treeVars, TreeIInv, IInv, TypeOK
<1> QED
  BY <1>3, <1>4, <1>5, <1>6, <1>7, <1>8 DEF TreeNext

LEMMA SpecTreeIInv == TreeSpec => []TreeIInv
BY InitTreeIInv, NextTreeIInv, PTL DEF TreeSpec

-----------------------------------------------------------------------------
\* The age of a listing and the age of a name add up to less than
\* 2 * TTL + FetchMax, for every open that no failed refresh excuses.
THEOREM OpensAlwaysRecent == TreeSpec => []OpensAreRecent
<1>1. TreeIInv => OpensAreRecent
  BY DEF TreeIInv
<1> QED
  BY <1>1, SpecTreeIInv, PTL

\* No process sees a file go back in its directory, or in one it enters later.
THEOREM OpensInOrder == TreeSpec => OpensNeverRegress
<1> DEFINE InOrder ==
      \A p \in Callers, f \in Files : opened'[p][f].version >= opened[p][f].version
<1>1. ASSUME TreeIInv, [TreeNext]_allVars PROVE InOrder
  <2> SUFFICES ASSUME NEW p \in Callers, NEW f \in Files
               PROVE  opened'[p][f].version >= opened[p][f].version
    OBVIOUS
  <2> USE DEF TreeIInv, TypedTree, NamesShown
  <2>0. opened[p][f].version \in Nat /\ opened[p][f].version <= data
    BY <1>1
  <2>1. CASE opened' = opened
    BY <2>0, <2>1
  <2>2. ASSUME NEW q \in Callers, NEW g \in Files, OpenKnown(q, g)
        PROVE  opened'[p][f].version >= opened[p][f].version
    BY <1>1, <2>0, <2>2 DEF OpenKnown, KnownInode
  <2>3. ASSUME NEW q \in Callers, ReplyFromCache(q) \/ ReplyRefreshed(q) \/ ReplyStale(q)
        PROVE  opened'[p][f].version >= opened[p][f].version
    <3>1. Delivered(q)
      BY <1>1, <2>3, RepliesDeliver
    <3>2. Reply(q)
      BY <2>3 DEF ReplyFromCache, ReplyRefreshed, ReplyStale
    <3>3. ASSUME NEW g \in Files, FileFound(q, g)
          PROVE  opened'[p][f].version >= opened[p][f].version
      BY <1>1, <2>0, <3>1, <3>3 DEF FileFound, Delivered
    <3> QED
      BY <2>1, <3>2, <3>3 DEF Reply, Listed, Entered, NotEntered
  <2> QED
    BY <1>1, <2>1, <2>2, <2>3 DEF TreeNext, allVars, TreeTick, Change, Delete, Readdir,
       EnterDir, LookupFile, Begin, Fetching, treeVars
<1>2. TreeIInv /\ [TreeNext]_allVars => [InOrder]_allVars
  BY <1>1
<1> QED
  BY <1>2, SpecTreeIInv, PTL DEF TreeSpec, OpensNeverRegress

-----------------------------------------------------------------------------
(* The type invariant, conjunct by conjunct of TreeTypeOK. *)

\* Only who is inside the directory looks up its files.
RequestsTyped ==
  /\ gone \in 0..remote
  /\ inside \subseteq Callers
  /\ task \in [Callers -> {"none", "list", "enter"} \cup Files]
  /\ \A p \in Callers : task[p] = "none" <=> pc[p] = "idle"
  /\ \A p \in Callers : task[p] \in Files => p \in inside

InodesTyped ==
  \A p \in Callers, f \in Files :
    /\ dentry[p][f] # NoInode => p \in inside /\ Present(dentry[p][f].version)
    /\ dentry[p][f] \in [version : 0..remote, at : 0..now, until : 0..(now + TTL)]
    /\ opened[p][f] \in [version : 0..remote, at : 0..now, when : 0..now]

LEMMA InitTreeTyped == TreeInit => RequestsTyped /\ InodesTyped
<1> SUFFICES ASSUME TreeInit PROVE RequestsTyped /\ InodesTyped
  OBVIOUS
<1>1. now = TTL /\ remote = 1
  BY DEF TreeInit, Init
<1>2. RequestsTyped
  BY <1>1, FilesAssumption DEF TreeInit, Init, RequestsTyped
<1>3. /\ NoInode \in [version : 0..remote, at : 0..now, until : 0..(now + TTL)]
      /\ NotOpened \in [version : 0..remote, at : 0..now, when : 0..now]
  BY <1>1 DEF NoInode, NotOpened
<1>4. \A p \in Callers, f \in Files : dentry[p][f] = NoInode /\ opened[p][f] = NotOpened
  BY DEF TreeInit
<1> QED
  BY <1>2, <1>3, <1>4 DEF InodesTyped

\* A request is under way exactly while its call of get() is.
LEMMA NextRequestsTyped ==
  ASSUME TreeIInv, RequestsTyped, [TreeNext]_allVars
  PROVE  RequestsTyped'
<1> USE DEF RequestsTyped
<1>1. /\ remote \in Nat
      /\ pc \in [Callers -> {"idle", "locking", "fetching", "answered"}]
  BY DEF TreeIInv, IInv, TypeOK
<1>2. CASE TreeTick \/ Change \/ Delete
  BY <1>1, <1>2 DEF TreeTick, Tick, Change, Delete, ApiChange, treeVars, callVars
<1>3. ASSUME NEW p \in Callers, NEW what \in {"list", "enter"} \cup Files, Begin(p, what),
             what \in Files => p \in inside
      PROVE  RequestsTyped'
  BY <1>1, <1>3, FilesAssumption DEF Begin, Call
<1>4. ASSUME NEW p \in Callers, Readdir(p) \/ EnterDir(p) \/ \E f \in Files : LookupFile(p, f)
      PROVE  RequestsTyped'
  BY <1>3, <1>4, FilesAssumption DEF Readdir, EnterDir, LookupFile
<1>5. ASSUME NEW p \in Callers, Fetching(p) PROVE RequestsTyped'
  BY <1>1, <1>5 DEF Fetching, Miss, EnterFetch, ApiAnswers, treeVars
<1>6. ASSUME NEW p \in Callers, ReplyFromCache(p) \/ ReplyRefreshed(p) \/ ReplyStale(p)
      PROVE  RequestsTyped'
  <2>1. remote' = remote /\ pc' = [pc EXCEPT ![p] = "idle"]
    BY <1>6 DEF ReplyFromCache, ReplyRefreshed, ReplyStale, Hit, FetchOK, Store, FetchErr, Return
  <2>2. Reply(p)
    BY <1>6 DEF ReplyFromCache, ReplyRefreshed, ReplyStale
  <2>3. /\ task' = [task EXCEPT ![p] = "none"] /\ gone' = gone
        /\ inside \subseteq inside' /\ inside' \subseteq Callers
    BY <2>2 DEF Reply, Listed, Entered, NotEntered, FileFound
  <2> QED
    BY <1>1, <2>1, <2>3, FilesAssumption
<1>7. ASSUME NEW p \in Callers, NEW f \in Files, OpenKnown(p, f) PROVE RequestsTyped'
  BY <1>7 DEF OpenKnown, vars, callVars
<1>8. CASE UNCHANGED allVars
  BY <1>8 DEF allVars, vars, callVars, treeVars
<1> QED
  BY <1>2, <1>4, <1>5, <1>6, <1>7, <1>8 DEF TreeNext

\* Inodes of listings with the resource in them stay so when time passes and
\* the API's state moves on: the resource is deleted in a later version.
LEMMA InodesOutlast ==
  ASSUME InodesTyped, RequestsTyped, remote \in Nat, now \in Nat,
         remote' \in Nat, now' \in Nat, remote <= remote', now <= now',
         UNCHANGED <<dentry, opened, inside>>,
         gone' = gone \/ (gone = 0 /\ gone' = remote + 1)
  PROVE  InodesTyped'
<1> SUFFICES ASSUME NEW p \in Callers, NEW f \in Files
             PROVE  /\ dentry[p][f] # NoInode => p \in inside /\ Present(dentry[p][f].version)'
                    /\ dentry[p][f] \in [version : 0..remote', at : 0..now', until : 0..(now' + TTL)]
                    /\ opened[p][f] \in [version : 0..remote', at : 0..now', when : 0..now']
  BY DEF InodesTyped
<1>1. dentry[p][f].version \in 0..remote
  BY DEF InodesTyped
<1>2. Present(dentry[p][f].version) => Present(dentry[p][f].version)'
  BY <1>1 DEF Present, RequestsTyped
<1>3. dentry[p][f] \in [version : 0..remote', at : 0..now', until : 0..(now' + TTL)]
  BY DEF InodesTyped
<1>4. opened[p][f] \in [version : 0..remote', at : 0..now', when : 0..now']
  BY DEF InodesTyped
<1> QED
  BY <1>2, <1>3, <1>4 DEF InodesTyped

\* The end of a request binds inodes to the listing that get() returned.
LEMMA ReplyInodesTyped ==
  ASSUME NEW p \in Callers, TreeIInv, IInv', RequestsTyped, InodesTyped,
         Reply(p), Delivered(p), remote' = remote
  PROVE  InodesTyped'
<1> DEFINE Inodes == [version : 0..remote, at : 0..now, until : 0..(now + TTL)]
           Opens == [version : 0..remote, at : 0..now, when : 0..now]
           Known(q, g) ==
             /\ dentry'[q][g] # NoInode => q \in inside' /\ Present(dentry'[q][g].version)
             /\ dentry'[q][g] \in Inodes /\ opened'[q][g] \in Opens
<1>1. /\ now' = now /\ gone' = gone /\ remote' = remote
      /\ now \in Nat /\ remote \in Nat /\ now + TTL \in 0..(now + TTL)
      /\ result'[p] \in 0..remote /\ taken' \in 0..now
  BY DEF Delivered, Reply, TreeIInv, IInv, TypeOK
<1>2. SUFFICES \A q \in Callers, g \in Files : Known(q, g)
  <2>1. \A v : Present(v)' = Present(v)
    BY <1>1 DEF Present
  <2> QED
    BY <1>1, <1>2, <2>1 DEF InodesTyped, Present
<1>3. ASSUME NEW q \in Callers, NEW g \in Files, q \in inside => q \in inside',
             dentry'[q][g] = dentry[q][g], opened'[q][g] = opened[q][g]
      PROVE  Known(q, g)
  BY <1>3 DEF InodesTyped
<1>4. CASE UNCHANGED <<inside, dentry, opened>>
  BY <1>3, <1>4
<1>5. CASE Entered(p)
  <2>1. /\ dentry' = [dentry EXCEPT ![p] = [g \in Files |-> NoInode]]
        /\ opened' = opened /\ inside \subseteq inside'
    BY <1>5 DEF Entered
  <2>2. ASSUME NEW g \in Files PROVE Known(p, g)
    <3>1. dentry'[p][g] = NoInode /\ opened'[p][g] = opened[p][g]
      BY <2>1 DEF TreeIInv, TypedTree
    <3>2. NoInode \in Inodes
      BY <1>1 DEF NoInode
    <3> QED
      BY <3>1, <3>2 DEF InodesTyped
  <2>3. ASSUME NEW q \in Callers, NEW g \in Files, q # p PROVE Known(q, g)
    <3>1. dentry'[q][g] = dentry[q][g] /\ opened'[q][g] = opened[q][g]
      BY <2>1, <2>3 DEF TreeIInv, TypedTree
    <3> QED
      BY <1>3, <2>1, <3>1
  <2> QED
    BY <2>2, <2>3
<1>6. ASSUME NEW f \in Files, FileFound(p, f)
      PROVE  \A q \in Callers, g \in Files : Known(q, g)
  <2> DEFINE bound == [version |-> result'[p], at |-> taken', until |-> now + TTL]
             new == IF Present(result'[p]) THEN bound ELSE NoInode
             seen == [version |-> result'[p], at |-> taken', when |-> now]
  <2>1. /\ dentry' = [dentry EXCEPT ![p][f] = new]
        /\ opened' = [opened EXCEPT ![p][f] = seen]
        /\ inside' = inside /\ p \in inside
    BY <1>6 DEF FileFound, EntryTimeout, RequestsTyped
  <2>2. bound \in Inodes /\ bound.version = result'[p] /\ seen \in Opens
    BY <1>1
  <2>3. NoInode \in Inodes
    BY <1>1 DEF NoInode
  <2>4. new \in Inodes /\ (new # NoInode => Present(new.version))
    BY <2>2, <2>3
  <2> HIDE DEF bound, new, seen
  <2>5. dentry'[p][f] = new /\ opened'[p][f] = seen
    BY <2>1 DEF TreeIInv, TypedTree
  <2>6. ASSUME NEW q \in Callers, NEW g \in Files, q # p \/ g # f
        PROVE  dentry'[q][g] = dentry[q][g] /\ opened'[q][g] = opened[q][g]
    BY <2>1, <2>6 DEF TreeIInv, TypedTree
  <2>7. Known(p, f)
    BY <1>6, <2>1, <2>2, <2>4, <2>5
  <2> QED
    BY <1>3, <2>1, <2>6, <2>7
<1> QED
  BY <1>4, <1>5, <1>6 DEF Reply, Listed, NotEntered

LEMMA NextInodesTyped ==
  ASSUME TreeIInv, IInv', RequestsTyped, InodesTyped, [TreeNext]_allVars
  PROVE  InodesTyped'
<1>1. now \in Nat /\ remote \in Nat /\ now' \in Nat /\ remote' \in Nat
  BY DEF TreeIInv, IInv, TypeOK
<1> DEFINE Outlast == /\ remote <= remote' /\ now <= now'
                      /\ UNCHANGED <<dentry, opened, inside>>
                      /\ gone' = gone \/ (gone = 0 /\ gone' = remote + 1)
<1>2. ASSUME Outlast PROVE InodesTyped'
  BY <1>1, <1>2, InodesOutlast
<1>3. CASE TreeTick \/ Change \/ Delete
  BY <1>1, <1>2, <1>3 DEF TreeTick, Tick, Change, Delete, ApiChange, treeVars
<1>4. ASSUME NEW p \in Callers, Readdir(p) \/ EnterDir(p) \/ \E f \in Files : LookupFile(p, f)
      PROVE  InodesTyped'
  BY <1>1, <1>2, <1>4 DEF Readdir, EnterDir, LookupFile, Begin, Call
<1>5. ASSUME NEW p \in Callers, Fetching(p) PROVE InodesTyped'
  BY <1>1, <1>2, <1>5 DEF Fetching, Miss, EnterFetch, ApiAnswers, treeVars
<1>6. ASSUME NEW p \in Callers, ReplyFromCache(p) \/ ReplyRefreshed(p) \/ ReplyStale(p)
      PROVE  InodesTyped'
  <2>1. Reply(p) /\ remote' = remote
    BY <1>6 DEF ReplyFromCache, ReplyRefreshed, ReplyStale, Hit, FetchOK, Store, FetchErr
  <2> QED
    BY <1>6, <2>1, RepliesDeliver, ReplyInodesTyped
<1>7. ASSUME NEW p \in Callers, NEW f \in Files, OpenKnown(p, f) PROVE InodesTyped'
  <2> DEFINE seen == [version |-> dentry[p][f].version, at |-> dentry[p][f].at, when |-> now]
  <2>1. /\ opened' = [opened EXCEPT ![p][f] = seen]
        /\ UNCHANGED <<dentry, inside, gone, now, remote>>
    BY <1>7 DEF OpenKnown, vars
  <2>2. seen \in [version : 0..remote, at : 0..now, when : 0..now]
    BY <1>1 DEF InodesTyped
  <2> HIDE DEF seen
  <2>3. \A q \in Callers, g \in Files : opened'[q][g] = opened[q][g] \/ opened'[q][g] = seen
    BY <2>1 DEF TreeIInv, TypedTree
  <2>4. \A v : Present(v)' = Present(v)
    BY <2>1 DEF Present
  <2> QED
    BY <2>1, <2>2, <2>3, <2>4 DEF InodesTyped
<1>8. CASE UNCHANGED allVars
  BY <1>1, <1>2, <1>8 DEF allVars, vars, treeVars
<1> QED
  BY <1>3, <1>4, <1>5, <1>6, <1>7, <1>8 DEF TreeNext

\* Type correctness; in particular, an inode below a directory exists only for
\* who has entered it, and always shows a listing with the resource in it.
THEOREM TreeTypeCorrect == TreeSpec => []TreeTypeOK
<1>1. TreeInit => RequestsTyped /\ InodesTyped
  BY InitTreeTyped
<1>2. TreeIInv /\ TreeIInv' /\ RequestsTyped /\ InodesTyped /\ [TreeNext]_allVars
      => RequestsTyped' /\ InodesTyped'
  BY NextRequestsTyped, NextInodesTyped DEF TreeIInv
<1>3. TreeIInv /\ RequestsTyped /\ InodesTyped => TreeTypeOK
  BY DEF TreeIInv, TypedTree, RequestsTyped, InodesTyped, TreeTypeOK
<1> QED
  BY <1>1, <1>2, <1>3, SpecTreeIInv, PTL DEF TreeSpec
=============================================================================
