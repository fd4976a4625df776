------------------------------ MODULE PromFile ------------------------------
(***************************************************************************)
(* prometheusFile of prometheus.go: a metrics file that is generated when  *)
(* it is opened and kept for a TTL.                                        *)
(*                                                                         *)
(* A reader is the goroutine of one Open().  Unlike Cache, get() releases  *)
(* f.mu while genFn talks to the API and takes it again to store the       *)
(* content, so readers that find the file expired generate side by side.   *)
(* f.mu is never held across anything that takes time: each of its two     *)
(* critical sections is one step here.                                     *)
(*                                                                         *)
(* Content is reduced to the version of the API's state it shows, 0 for    *)
(* the empty string the file starts with.  How the content is put together *)
(* is the subject of MetricsFanout.                                        *)
(***************************************************************************)
EXTENDS Integers

CONSTANTS Readers,     \* goroutines that open the file
          Hung,        \* the readers whose API calls never end
          TTL,         \* f.ttl: the -prometheus-ttl flag, which may be zero
          GenMax,      \* the longest genFn takes outside Hung (external)
          MaxTime,     \* bound on the clock
          MaxVersion   \* bound on the API's changes

ASSUME HungAssumption == Hung \subseteq Readers
ASSUME TTLAssumption == TTL \in Nat
ASSUME GenMaxAssumption == GenMax \in Nat
ASSUME BoundsAssumption == MaxTime \in Nat /\ MaxVersion \in Nat

VARIABLES now,       \* the clock
          remote,    \* version of the state the API has
          cached,    \* f.cached
          fetched,   \* f.fetched, 0 for the zero time
          pc,        \* where each reader is in get()
          started,   \* when the reader's genFn was entered
          answer,    \* the state genFn was given by the API, and when
          result,    \* what each reader's last Open() put in its handle
          taken,     \* auxiliary: when the API produced what f.cached shows
          asked      \* auxiliary: remote when the reader's get() began, 0 outside

fileVars == <<cached, fetched, taken>>
readVars == <<pc, started, answer, result, asked>>
vars == <<now, remote, fileVars, readVars>>

NoAnswer == [version |-> 0, at |-> 0]

Generating(r) == pc[r] \in {"generating", "generated"}

Init ==
  /\ now = TTL   \* long after the zero time: a zero f.fetched has expired
  /\ remote = 1
  /\ cached = 0
  /\ fetched = 0
  /\ pc = [r \in Readers |-> "idle"]
  /\ started = [r \in Readers |-> 0]
  /\ answer = [r \in Readers |-> NoAnswer]
  /\ result = [r \in Readers |-> 0]
  /\ taken = 0
  /\ asked = [r \in Readers |-> 0]

-----------------------------------------------------------------------------
(* The environment *)

\* The clock; outside Hung, no generation outlasts GenMax ticks.
Tick ==
  /\ now < MaxTime
  /\ \A r \in Readers \ Hung : Generating(r) => now - started[r] < GenMax
  /\ now' = now + 1
  /\ UNCHANGED <<remote, fileVars, readVars>>

\* A server, a load balancer or one of their metrics changes.
ApiChange ==
  /\ remote < MaxVersion
  /\ remote' = remote + 1
  /\ UNCHANGED <<now, fileVars, readVars>>

-----------------------------------------------------------------------------
(* get() *)

\* time.Since(f.fetched) < f.ttl
FreshInclusive == now - fetched <= TTL
Fresh == now - fetched < TTL

\* The handle is given version v; the call's local variables are gone.
Return(r, v) ==
  /\ result' = [result EXCEPT ![r] = v]
  /\ pc' = [pc EXCEPT ![r] = "idle"]
  /\ started' = [started EXCEPT ![r] = 0]
  /\ answer' = [answer EXCEPT ![r] = NoAnswer]
  /\ asked' = [asked EXCEPT ![r] = 0]

Open(r) ==
  /\ pc[r] = "idle"
  /\ pc' = [pc EXCEPT ![r] = "opening"]
  /\ asked' = [asked EXCEPT ![r] = remote]
  /\ UNCHANGED <<now, remote, fileVars, started, answer, result>>

\* First critical section, the content is young enough.
ServeCached(r) ==
  /\ pc[r] = "opening"
  /\ Fresh
  /\ Return(r, cached)
  /\ UNCHANGED <<now, remote, fileVars>>

EnterGen(r) ==
  /\ pc[r] = "opening"
  /\ ~Fresh
  /\ pc' = [pc EXCEPT ![r] = "generating"]
  /\ started' = [started EXCEPT ![r] = now]
  /\ UNCHANGED <<now, remote, fileVars, answer, result, asked>>

\* First critical section, the content has expired: the lock is released and
\* genFn entered.
StartGenAlone(r) == EnterGen(r) /\ \A q \in Readers : ~Generating(q)
StartGen(r) == EnterGen(r)

\* The API reads the state that genFn will show.
ApiAnswers(r) ==
  /\ pc[r] = "generating"
  /\ r \notin Hung
  /\ pc' = [pc EXCEPT ![r] = "generated"]
  /\ answer' = [answer EXCEPT ![r] = [version |-> remote, at |-> now]]
  /\ UNCHANGED <<now, remote, fileVars, started, result, asked>>

\* Second critical section: the content is stored, stamped and returned.
GenOKUnstored(r) ==
  /\ pc[r] = "generated"
  /\ fetched' = now
  /\ Return(r, cached)
  /\ UNCHANGED <<now, remote, cached, taken>>

Store(r, stamp) ==
  /\ pc[r] = "generated"
  /\ cached' = answer[r].version
  /\ fetched' = stamp
  /\ taken' = answer[r].at
  /\ Return(r, answer[r].version)
  /\ UNCHANGED <<now, remote>>

GenOKStampsExpiry(r) == Store(r, now + TTL)
GenOK(r) == Store(r, now)

\* Second critical section after an error: the old content is returned and
\* will be generated again by the next Open().
GenErrStores(r) ==
  /\ Generating(r)
  /\ r \notin Hung
  /\ cached' = 0
  /\ fetched' = now
  /\ taken' = now
  /\ Return(r, 0)
  /\ UNCHANGED <<now, remote>>

GenErr(r) ==
  /\ Generating(r)
  /\ r \notin Hung
  /\ Return(r, cached)
  /\ UNCHANGED <<now, remote, fileVars>>

Check(r) == ServeCached(r) \/ StartGen(r)
GenStep(r) == ApiAnswers(r) \/ GenOK(r) \/ GenErr(r)

Next ==
  \/ Tick
  \/ ApiChange
  \/ \E r \in Readers : Open(r) \/ Check(r) \/ GenStep(r)

Spec == Init /\ [][Next]_vars

\* A goroutine that can run is run, and outside Hung every API call ends.
Fairness == \A r \in Readers : WF_vars(Check(r)) /\ WF_vars(GenStep(r))

FairSpec == Spec /\ Fairness

-----------------------------------------------------------------------------
(* Properties *)

\* The values the variables range over; the stamp is never in the future and
\* never older than the content it dates.
TypeOK ==
  /\ now \in Nat
  /\ remote \in Nat
  /\ cached \in 0..remote
  /\ fetched \in 0..now
  /\ taken \in 0..fetched
  /\ pc \in [Readers -> {"idle", "opening", "generating", "generated"}]
  /\ started \in [Readers -> 0..now]
  /\ answer \in [Readers -> [version : 0..remote, at : 0..now]]
  /\ result \in [Readers -> 0..remote]
  /\ asked \in [Readers -> 0..remote]

\* An Open() served from f.cached is given metrics that the API produced less
\* than TTL + GenMax ago, even when generations overlap and the slower one
\* stores an older state.
HitsAreFresh ==
  [][\A r \in Readers :
       pc[r] = "opening" /\ pc'[r] = "idle" => now - taken < TTL + GenMax]_vars

\* The content only ever goes back to an older state of the API when the
\* generation that stores it was already under way at the previous store.
RegressesOnlyOnOverlap ==
  [][cached' < cached =>
       \E r \in Readers :
         pc[r] = "generated" /\ pc'[r] = "idle" /\ started[r] <= fetched]_vars

\* "Fetch outside the lock so concurrent reads don't block": an Open() whose
\* own API calls end returns, also when those of other readers never do.
ReadsDontBlock ==
  \A r \in Readers \ Hung : pc[r] = "opening" ~> pc[r] = "idle"

\* An Open() is given the content stored when it ends, or one the API had
\* during the call and that is stored from then on.
RT == INSTANCE ReadThrough WITH Callers <- Readers, store <- cached, Forward <- FALSE
ImplementsReadThrough == RT!Spec
=============================================================================
