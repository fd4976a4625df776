------------------------------- MODULE Cache -------------------------------
(***************************************************************************)
(* cache[T] of helpers.go: the TTL cache in front of every API listing     *)
(* (resources, actions, by-name indexes, DNS zones and record sets).       *)
(*                                                                         *)
(* Each FUSE request runs in a goroutine of its own; a caller here is such *)
(* a goroutine inside get().  get() holds c.mu from its first line to its  *)
(* return, the API call included.  Nothing is visible to another goroutine *)
(* while the lock is held, so the critical section is split only where     *)
(* time passes: entering it (Hit or Miss), the moment the API reads its    *)
(* state (ApiAnswers), and the return of fetchFn (FetchOK or FetchErr).    *)
(*                                                                         *)
(* A listing is reduced to the version of the API's state it shows; 0 is   *)
(* the nil slice the cache starts with.  Time is counted in ticks.         *)
(***************************************************************************)
EXTENDS Integers

CONSTANTS Callers,     \* goroutines that call get()
          NoCaller,    \* the holder of a free mutex
          TTL,         \* c.ttl
          FetchMax,    \* the longest an API list call takes (external)
          MaxTime,     \* bound on the clock
          MaxVersion   \* bound on the API's changes

ASSUME NoCallerAssumption == NoCaller \notin Callers
ASSUME TTLAssumption == TTL \in Nat \ {0}
ASSUME FetchMaxAssumption == FetchMax \in Nat
ASSUME BoundsAssumption == MaxTime \in Nat /\ MaxVersion \in Nat

VARIABLES now,       \* the clock
          remote,    \* version of the listing the API has
          mu,        \* holder of c.mu
          data,      \* c.data
          fetched,   \* c.fetched, 0 for the zero time
          pc,        \* where each caller is in get()
          started,   \* when the caller's fetchFn was entered
          answer,    \* what the API put in its answer, and when
          result,    \* what each caller's last get() returned
          taken,     \* auxiliary: when the API produced c.data
          asked      \* auxiliary: remote when the caller's get() began, 0 outside

cacheVars == <<mu, data, fetched, taken>>
callVars == <<pc, started, answer, result, asked>>
vars == <<now, remote, cacheVars, callVars>>

NoAnswer == [version |-> 0, at |-> 0]

InFetch(c) == pc[c] \in {"fetching", "answered"}

Init ==
  /\ now = TTL   \* long after the zero time: a zero c.fetched has expired
  /\ remote = 1
  /\ mu = NoCaller
  /\ data = 0
  /\ fetched = 0
  /\ pc = [c \in Callers |-> "idle"]
  /\ started = [c \in Callers |-> 0]
  /\ answer = [c \in Callers |-> NoAnswer]
  /\ result = [c \in Callers |-> 0]
  /\ taken = 0
  /\ asked = [c \in Callers |-> 0]

-----------------------------------------------------------------------------
(* The environment *)

\* The clock; no API call outlasts FetchMax ticks.
Tick ==
  /\ now < MaxTime
  /\ \A c \in Callers : InFetch(c) => now - started[c] < FetchMax
  /\ now' = now + 1
  /\ UNCHANGED <<remote, cacheVars, callVars>>

\* A resource is created, changed or deleted.
ApiChange ==
  /\ remote < MaxVersion
  /\ remote' = remote + 1
  /\ UNCHANGED <<now, cacheVars, callVars>>

-----------------------------------------------------------------------------
(* get() *)

\* time.Since(c.fetched) < c.ttl
FreshInclusive == now - fetched <= TTL
Fresh == now - fetched < TTL

\* The call ends with version v; its local variables are gone.
Return(c, v) ==
  /\ result' = [result EXCEPT ![c] = v]
  /\ pc' = [pc EXCEPT ![c] = "idle"]
  /\ started' = [started EXCEPT ![c] = 0]
  /\ answer' = [answer EXCEPT ![c] = NoAnswer]
  /\ asked' = [asked EXCEPT ![c] = 0]

\* get() is entered and asks for the lock.
Call(c) ==
  /\ pc[c] = "idle"
  /\ pc' = [pc EXCEPT ![c] = "locking"]
  /\ asked' = [asked EXCEPT ![c] = remote]
  /\ UNCHANGED <<now, remote, cacheVars, started, answer, result>>

\* The lock is taken, the data are young enough, the lock is released.
Hit(c) ==
  /\ pc[c] = "locking"
  /\ mu = NoCaller
  /\ Fresh
  /\ Return(c, data)
  /\ UNCHANGED <<now, remote, cacheVars>>

EnterFetch(c) ==
  /\ pc[c] = "locking"
  /\ mu = NoCaller
  /\ ~Fresh
  /\ pc' = [pc EXCEPT ![c] = "fetching"]
  /\ started' = [started EXCEPT ![c] = now]
  /\ UNCHANGED <<now, remote, data, fetched, taken, answer, result, asked>>

\* The lock is taken and kept; fetchFn is entered.
MissUnlocked(c) == EnterFetch(c) /\ UNCHANGED mu
Miss(c) == EnterFetch(c) /\ mu' = c

\* The API reads its state and answers.
ApiAnswers(c) ==
  /\ pc[c] = "fetching"
  /\ pc' = [pc EXCEPT ![c] = "answered"]
  /\ answer' = [answer EXCEPT ![c] = [version |-> remote, at |-> now]]
  /\ UNCHANGED <<now, remote, cacheVars, started, result, asked>>

\* fetchFn returns a listing: it is stored, stamped and returned.
Store(c, stamp) ==
  /\ pc[c] = "answered"
  /\ data' = answer[c].version
  /\ fetched' = stamp
  /\ taken' = answer[c].at
  /\ mu' = NoCaller
  /\ Return(c, answer[c].version)
  /\ UNCHANGED <<now, remote>>

FetchOKStampsExpiry(c) == Store(c, now + TTL)
FetchOK(c) == Store(c, now)

\* fetchFn returns an error, before or after the API answered: the stale
\* listing is returned, and the next get() will try again.
FetchErrBlank(c) ==
  /\ InFetch(c)
  /\ mu' = NoCaller
  /\ Return(c, 0)
  /\ UNCHANGED <<now, remote, data, fetched, taken>>

FetchErrStamps(c) ==
  /\ InFetch(c)
  /\ mu' = NoCaller
  /\ fetched' = now
  /\ Return(c, data)
  /\ UNCHANGED <<now, remote, data, taken>>

FetchErrKeepsLock(c) ==
  /\ InFetch(c)
  /\ Return(c, data)
  /\ UNCHANGED <<now, remote, cacheVars>>

FetchErr(c) ==
  /\ InFetch(c)
  /\ mu' = NoCaller
  /\ Return(c, data)
  /\ UNCHANGED <<now, remote, data, fetched, taken>>

Acquire(c) == Hit(c) \/ Miss(c)
FetchStep(c) == ApiAnswers(c) \/ FetchOK(c) \/ FetchErr(c)

Next ==
  \/ Tick
  \/ ApiChange
  \/ \E c \in Callers : Call(c) \/ Acquire(c) \/ FetchStep(c)

Spec == Init /\ [][Next]_vars

\* Every API call ends, with an answer or an error, and a Go mutex does not
\* starve a waiter: after one millisecond it is handed over in FIFO order.
Fairness == \A c \in Callers : SF_vars(Acquire(c)) /\ WF_vars(FetchStep(c))

FairSpec == Spec /\ Fairness

-----------------------------------------------------------------------------
(* Properties *)

\* The values the variables range over; no stamp lies in the future, and
\* what is stored is something the API has had.
TypeOK ==
  /\ now \in Nat
  /\ remote \in Nat
  /\ mu \in Callers \cup {NoCaller}
  /\ data \in 0..remote
  /\ fetched \in 0..now
  /\ taken \in 0..now
  /\ pc \in [Callers -> {"idle", "locking", "fetching", "answered"}]
  /\ started \in [Callers -> 0..now]
  /\ answer \in [Callers -> [version : 0..remote, at : 0..now]]
  /\ result \in [Callers -> 0..remote]
  /\ asked \in [Callers -> 0..remote]

\* At most one API call per cache is under way, however many goroutines are
\* in get() (helpers.go holds c.mu across fetchFn).
OneFetch == \A c, d \in Callers : InFetch(c) /\ InFetch(d) => c = d

\* Over all goroutines together, the listings get() returns never go back:
\* a call that returns later never hands out an older state of the API than
\* a call that returned before it, errors included.
ReadsNeverRegress ==
  [][\A c, d \in Callers :
       result'[c] # result[c] => result'[c] >= result[d]]_vars

\* A get() that answers without asking the API hands out a listing that the
\* API produced less than TTL + FetchMax ago; failed refreshes in between do
\* not stretch this.
HitsAreFresh ==
  [][\A c \in Callers :
       pc[c] = "locking" /\ pc'[c] = "idle" => now - taken < TTL + FetchMax]_vars

\* Two refreshes of one cache are at least TTL apart, whatever the number of
\* goroutines that found it expired at the same time: those that waited for
\* the lock use the new data instead of fetching again.
SpacedRefreshes ==
  [][data' # data \/ fetched' # fetched => now - fetched >= TTL]_vars

\* Every get() returns, also when API calls fail and callers keep coming.
GetReturns == \A c \in Callers : pc[c] = "locking" ~> pc[c] = "idle"

\* A cache is an atomic register that is refreshed from the API during a
\* call and only moves forward.
RT == INSTANCE ReadThrough WITH store <- data, Forward <- TRUE
ImplementsReadThrough == RT!Spec
=============================================================================
