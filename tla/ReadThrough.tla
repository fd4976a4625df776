---------------------------- MODULE ReadThrough ----------------------------
(***************************************************************************)
(* What a read-through cache of an API listing promises its callers.       *)
(*                                                                         *)
(* The API's listing is a version number that only grows.  A call is       *)
(* answered in one instant, either with the version already stored or with *)
(* a version the API really had between the start of the call and that     *)
(* instant, which then becomes the stored one.  With Forward = TRUE the    *)
(* stored version also never goes back: the listings handed out, over all  *)
(* callers together, are in the order in which the API produced them.      *)
(*                                                                         *)
(* Cache (cache.get of helpers.go) implements Forward = TRUE, PromFile     *)
(* (prometheusFile.get of prometheus.go) only Forward = FALSE.             *)
(***************************************************************************)
EXTENDS Naturals

CONSTANTS Callers,   \* the goroutines that call get()
          Forward    \* TRUE: the stored version never goes back

VARIABLES remote,    \* version of the listing the API has now, from 1
          store,     \* version stored, 0 while nothing was ever stored
          asked,     \* per caller: the API's version when its call began, 0 outside a call
          result     \* per caller: version its last call returned, 0 for none

vars == <<remote, store, asked, result>>

Init ==
  /\ remote = 1
  /\ store = 0
  /\ asked = [c \in Callers |-> 0]
  /\ result = [c \in Callers |-> 0]

Change ==
  /\ remote' = remote + 1
  /\ UNCHANGED <<store, asked, result>>

Call(c) ==
  /\ asked[c] = 0
  /\ asked' = [asked EXCEPT ![c] = remote]
  /\ UNCHANGED <<remote, store, result>>

\* The call ends: v is handed out, and is what is stored from now on.
Answer(c, v) ==
  /\ asked[c] # 0
  /\ store' = v
  /\ result' = [result EXCEPT ![c] = v]
  /\ asked' = [asked EXCEPT ![c] = 0]
  /\ UNCHANGED remote

Serve(c) == Answer(c, store)

Refresh(c) ==
  \E v \in asked[c]..remote :
    /\ Forward => v >= store
    /\ Answer(c, v)

Next ==
  \/ Change
  \/ \E c \in Callers : Call(c) \/ Serve(c) \/ Refresh(c)

Spec == Init /\ [][Next]_vars
=============================================================================
