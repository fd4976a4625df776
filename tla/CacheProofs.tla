---------------------------- MODULE CacheProofs ----------------------------
(***************************************************************************)
(* Proofs about Cache, for every set of callers, TTL, longest API call and *)
(* bound.                                                                  *)
(***************************************************************************)
EXTENDS Cache, TLAPS

\* c.mu is held by exactly the caller that is inside fetchFn.
LockInv == \A c \in Callers : InFetch(c) <=> mu = c

\* A fetch under way started at most FetchMax ago, after the data expired,
\* and its answer was produced in between.
FetchInv ==
  \A c \in Callers :
    /\ InFetch(c) => now - started[c] <= FetchMax /\ now - fetched >= TTL
    /\ pc[c] = "answered" =>
         /\ started[c] <= answer[c].at
         /\ answer[c].version >= data
         /\ answer[c].version >= asked[c]

\* The listing stored was produced at most FetchMax before its stamp, and
\* nothing newer was ever returned.
StoreInv ==
  /\ fetched - taken <= FetchMax
  /\ \A c \in Callers : result[c] <= data

\* A call in progress remembers the version the API had when it began.
CallInv ==
  /\ remote >= 1
  /\ \A c \in Callers : pc[c] = "idle" <=> asked[c] = 0

IInv == TypeOK /\ LockInv /\ FetchInv /\ StoreInv /\ CallInv

USE NoCallerAssumption, TTLAssumption, FetchMaxAssumption, BoundsAssumption

-----------------------------------------------------------------------------

LEMMA InitIInv == Init => IInv
BY DEF Init, IInv, TypeOK, LockInv, FetchInv, StoreInv, CallInv, InFetch, NoAnswer

LEMMA NextIInv == IInv /\ [Next]_vars => IInv'
<1> SUFFICES ASSUME IInv, [Next]_vars PROVE IInv'
  OBVIOUS
<1> USE DEF IInv
<1>1. CASE Tick
  BY <1>1 DEF Tick, TypeOK, LockInv, FetchInv, StoreInv, CallInv, InFetch, cacheVars, callVars
<1>2. CASE ApiChange
  BY <1>2 DEF ApiChange, TypeOK, LockInv, FetchInv, StoreInv, CallInv, InFetch, cacheVars, callVars
<1>3. ASSUME NEW c \in Callers, Call(c) PROVE IInv'
  BY <1>3 DEF Call, TypeOK, LockInv, FetchInv, StoreInv, CallInv, InFetch, cacheVars
<1>4. ASSUME NEW c \in Callers, Hit(c) PROVE IInv'
  BY <1>4 DEF Hit, Return, TypeOK, LockInv, FetchInv, StoreInv, CallInv, InFetch, cacheVars, NoAnswer
<1>5. ASSUME NEW c \in Callers, Miss(c) PROVE IInv'
  BY <1>5 DEF Miss, EnterFetch, Fresh, TypeOK, LockInv, FetchInv, StoreInv, CallInv, InFetch
<1>6. ASSUME NEW c \in Callers, ApiAnswers(c) PROVE IInv'
  BY <1>6 DEF ApiAnswers, TypeOK, LockInv, FetchInv, StoreInv, CallInv, InFetch, cacheVars
<1>7. ASSUME NEW c \in Callers, FetchOK(c) PROVE IInv'
  BY <1>7 DEF FetchOK, Store, Return, TypeOK, LockInv, FetchInv, StoreInv, CallInv, InFetch, NoAnswer
<1>8. ASSUME NEW c \in Callers, FetchErr(c) PROVE IInv'
  BY <1>8 DEF FetchErr, Return, TypeOK, LockInv, FetchInv, StoreInv, CallInv, InFetch, NoAnswer
<1>9. CASE UNCHANGED vars
  BY <1>9 DEF vars, cacheVars, callVars, TypeOK, LockInv, FetchInv, StoreInv, CallInv, InFetch
<1>10. QED
  BY <1>1, <1>2, <1>3, <1>4, <1>5, <1>6, <1>7, <1>8, <1>9 DEF Next, Acquire, FetchStep

\* The inductive invariant holds in every reachable state of get().
LEMMA SpecIInv == Spec => []IInv
<1>1. QED
  BY InitIInv, NextIInv, PTL DEF Spec

-----------------------------------------------------------------------------

\* Every variable of cache[T] and of the calls in progress keeps its type: in
\* particular c.fetched is never in the future, and c.data and every result
\* are versions the API has had.
THEOREM TypeCorrect == Spec => []TypeOK
<1>1. IInv => TypeOK
  BY DEF IInv
<1>2. QED
  BY <1>1, SpecIInv, PTL

\* However many goroutines are in get(), one API call per cache is under way.
THEOREM OneFetchAlways == Spec => []OneFetch
<1>1. IInv => OneFetch
  BY DEF IInv, LockInv, OneFetch
<1>2. QED
  BY <1>1, SpecIInv, PTL

\* Two refreshes of one cache are at least TTL apart.
THEOREM RefreshesAreSpaced == Spec => SpacedRefreshes
<1> DEFINE Spaced == data' # data \/ fetched' # fetched => now - fetched >= TTL
<1>1. ASSUME IInv, [Next]_vars PROVE Spaced
  <2>1. ASSUME NEW c \in Callers, FetchOK(c) PROVE Spaced
    BY <1>1, <2>1 DEF FetchOK, Store, InFetch, IInv, FetchInv
  <2>2. CASE ~ \E c \in Callers : FetchOK(c)
    <3>1. UNCHANGED <<data, fetched>>
      BY <1>1, <2>2 DEF Next, Tick, ApiChange, Call, Acquire, Hit, Miss, EnterFetch,
         FetchStep, ApiAnswers, FetchErr, vars, cacheVars
    <3>2. QED
      BY <3>1
  <2>3. QED
    BY <2>1, <2>2
<1>2. IInv /\ [Next]_vars => [Spaced]_vars
  BY <1>1
<1>3. QED
  BY <1>2, SpecIInv, PTL DEF Spec, SpacedRefreshes

\* A get() that does not ask the API returns a listing younger than
\* TTL + FetchMax.
THEOREM HitsAlwaysFresh == Spec => HitsAreFresh
<1> DEFINE HitFresh ==
      \A c \in Callers :
        pc[c] = "locking" /\ pc'[c] = "idle" => now - taken < TTL + FetchMax
<1>1. ASSUME IInv, Next PROVE HitFresh
  <2>1. SUFFICES ASSUME NEW c \in Callers, pc[c] = "locking", pc'[c] = "idle"
                 PROVE now - taken < TTL + FetchMax
    OBVIOUS
  <2>2. Hit(c)
    <3>1. PICK d \in Callers : Call(d) \/ Acquire(d) \/ FetchStep(d)
      BY <1>1, <2>1 DEF Next, Tick, ApiChange, callVars
    <3>2. CASE Call(d) \/ Miss(d) \/ ApiAnswers(d)
      BY <1>1, <2>1, <3>2 DEF Call, Miss, EnterFetch, ApiAnswers, IInv, TypeOK
    <3>3. CASE FetchOK(d) \/ FetchErr(d)
      BY <1>1, <2>1, <3>3 DEF FetchOK, Store, FetchErr, Return, InFetch, IInv, TypeOK
    <3>4. CASE Hit(d)
      BY <1>1, <2>1, <3>4 DEF Hit, Return, IInv, TypeOK
    <3>5. QED
      BY <3>1, <3>2, <3>3, <3>4 DEF Acquire, FetchStep
  <2>3. now - fetched < TTL
    BY <2>2 DEF Hit, Fresh
  <2>4. fetched - taken <= FetchMax
    BY <1>1 DEF IInv, StoreInv
  <2>5. QED
    BY <1>1, <2>3, <2>4 DEF IInv, TypeOK
<1>2. IInv /\ [Next]_vars => [HitFresh]_vars
  BY <1>1
<1>3. QED
  BY <1>2, SpecIInv, PTL DEF Spec, HitsAreFresh

\* A call that returns hands out what is stored when it returns, which is at
\* least what any earlier call returned.
THEOREM ReadsInOrder == Spec => ReadsNeverRegress
<1> DEFINE InOrder ==
      \A c, d \in Callers : result'[c] # result[c] => result'[c] >= result[d]
<1>1. ASSUME IInv, Next PROVE InOrder
  <2>1. SUFFICES ASSUME NEW c \in Callers, NEW d \in Callers, result'[c] # result[c]
                 PROVE result'[c] >= result[d]
    OBVIOUS
  <2>2. Hit(c) \/ FetchOK(c) \/ FetchErr(c)
    BY <1>1, <2>1 DEF Next, Tick, ApiChange, Call, Acquire, Hit, Miss, EnterFetch, FetchStep,
       ApiAnswers, FetchOK, Store, FetchErr, Return, callVars, IInv, TypeOK
  <2>3. result'[c] >= data
    BY <1>1, <2>2 DEF Hit, FetchOK, Store, FetchErr, Return, InFetch, IInv, TypeOK, FetchInv
  <2>4. result[d] <= data
    BY <1>1 DEF IInv, StoreInv
  <2>5. result'[c] \in Int /\ result[d] \in Int /\ data \in Int
    BY <1>1, <2>2 DEF Hit, FetchOK, Store, FetchErr, Return, IInv, TypeOK
  <2>6. QED
    BY <2>3, <2>4, <2>5
<1>2. IInv /\ [Next]_vars => [InOrder]_vars
  BY <1>1
<1>3. QED
  BY <1>2, SpecIInv, PTL DEF Spec, ReadsNeverRegress

-----------------------------------------------------------------------------
(* Refinement *)

LEMMA InitRefines == Init => RT!Init
BY DEF Init, RT!Init

\* Each step of get() is a step of the abstract register or leaves it alone.
LEMMA NextRefines == IInv /\ [Next]_vars => [RT!Next]_(RT!vars)
<1> SUFFICES ASSUME IInv, [Next]_vars PROVE [RT!Next]_(RT!vars)
  OBVIOUS
<1>1. CASE Tick
  BY <1>1 DEF Tick, cacheVars, callVars, RT!vars
<1>2. CASE ApiChange
  <2>1. RT!Change
    BY <1>2 DEF ApiChange, RT!Change, cacheVars, callVars
  <2>2. QED
    BY <2>1 DEF RT!Next
<1>3. ASSUME NEW c \in Callers, Call(c) PROVE [RT!Next]_(RT!vars)
  <2>1. RT!Call(c)
    BY <1>3 DEF Call, RT!Call, cacheVars, IInv, CallInv
  <2>2. QED
    BY <2>1 DEF RT!Next
<1>4. ASSUME NEW c \in Callers, Hit(c) PROVE [RT!Next]_(RT!vars)
  <2>1. RT!Serve(c)
    BY <1>4 DEF Hit, Return, RT!Serve, RT!Answer, cacheVars, IInv, CallInv
  <2>2. QED
    BY <2>1 DEF RT!Next
<1>5. ASSUME NEW c \in Callers, Miss(c) PROVE [RT!Next]_(RT!vars)
  BY <1>5 DEF Miss, EnterFetch, RT!vars
<1>6. ASSUME NEW c \in Callers, ApiAnswers(c) PROVE [RT!Next]_(RT!vars)
  BY <1>6 DEF ApiAnswers, cacheVars, RT!vars
<1>7. ASSUME NEW c \in Callers, FetchOK(c) PROVE [RT!Next]_(RT!vars)
  <2>1. answer[c].version \in asked[c]..remote /\ answer[c].version >= data
    BY <1>7 DEF FetchOK, Store, IInv, TypeOK, FetchInv
  <2>2. RT!Answer(c, answer[c].version)
    BY <1>7 DEF FetchOK, Store, Return, RT!Answer, IInv, CallInv
  <2>3. RT!Refresh(c)
    BY <2>1, <2>2 DEF RT!Refresh
  <2>4. QED
    BY <2>3 DEF RT!Next
<1>8. ASSUME NEW c \in Callers, FetchErr(c) PROVE [RT!Next]_(RT!vars)
  <2>1. RT!Serve(c)
    BY <1>8 DEF FetchErr, Return, InFetch, RT!Serve, RT!Answer, IInv, CallInv
  <2>2. QED
    BY <2>1 DEF RT!Next
<1>9. CASE UNCHANGED vars
  BY <1>9 DEF vars, cacheVars, callVars, RT!vars
<1>10. QED
  BY <1>1, <1>2, <1>3, <1>4, <1>5, <1>6, <1>7, <1>8, <1>9 DEF Next, Acquire, FetchStep

\* get() is an atomic register, refreshed from the API during a call, that
\* only moves forward: the lock, the TTL and the failures cannot be seen.
THEOREM CacheImplementsReadThrough == Spec => ImplementsReadThrough
<1>1. QED
  BY InitRefines, NextRefines, SpecIInv, PTL DEF Spec, ImplementsReadThrough, RT!Spec
=============================================================================
