----------------------------- MODULE CacheCalls -----------------------------
(***************************************************************************)
(* cache[T] of helpers.go as a value, for the modules in which several     *)
(* caches work together, are made while the system runs, or are shared by  *)
(* directories.  Cache is the model of one cache with its goroutines told  *)
(* apart; here they are not: a cache says whether some get() holds its     *)
(* lock and how far that call is, and whose request it answers is decided  *)
(* when it returns.                                                        *)
(*                                                                         *)
(* get() is split as in Cache: it finds the listing fresh and returns, or  *)
(* it takes the lock and enters fetchFn (Asking), the API reads its state  *)
(* (Answered), and the call returns with the answer (Stored) or an error   *)
(* (Unlocked).  A request that waits for the lock meanwhile has done       *)
(* nothing yet.                                                            *)
(***************************************************************************)
EXTENDS Integers

CONSTANTS TTL,         \* c.ttl
          FetchMax     \* the longest an API list call takes (external)

ASSUME TTLAssumption == TTL \in Nat \ {0}
ASSUME FetchMaxAssumption == FetchMax \in Nat

VARIABLE now           \* the clock, which is at TTL or more: a zero stamp has expired

\* asked is when the fetchFn under way was entered, 0 if c.mu is free; answer
\* is empty until the API has read its state, and then holds what it read.
NewCache(nil) == [data |-> nil, fetched |-> 0, asked |-> 0, answer |-> {}]

Locked(c) == c.asked # 0

\* No API call outlasts FetchMax ticks: the clock waits for it.
InTime(c) == Locked(c) => now - c.asked < FetchMax

\* time.Since(c.fetched) < c.ttl
FreshTwice(c) == now - c.fetched < 2 * TTL
Fresh(c) == now - c.fetched < TTL

\* get() finds the listing expired: it keeps the lock and enters fetchFn.
Expired(c) == ~Locked(c) /\ ~Fresh(c)
Asking(c) == [c EXCEPT !.asked = now]

\* The API reads its state, and its answer is d.
Waiting(c) == Locked(c) /\ c.answer = {}
Answered(c, d) == [c EXCEPT !.answer = {d}]

\* fetchFn returns d, which is stored and stamped; the lock is free again.
StoredUntil(c, d) == [NewCache(d) EXCEPT !.fetched = now + TTL]
Stored(c, d) == [NewCache(d) EXCEPT !.fetched = now]

\* fetchFn returns an error: the lock is free and nothing has changed.
UnlockedStamped(c) == [c EXCEPT !.fetched = now, !.asked = 0, !.answer = {}]
Unlocked(c) == [c EXCEPT !.asked = 0, !.answer = {}]

\* What a get() may return now: the cache it leaves, whose data it returns,
\* and whether its fetchFn has failed, before or after the API's answer.
Returned(c, failed) == [cache |-> c, failed |-> failed]

Returns(c) ==
  IF Locked(c)
  THEN {Returned(Stored(c, d), FALSE) : d \in c.answer} \cup {Returned(Unlocked(c), TRUE)}
  ELSE {Returned(h, FALSE) : h \in {x \in {c} : Fresh(x)}}
=============================================================================
