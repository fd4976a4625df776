---------------------------- MODULE MCLifecycle ----------------------------
(* Lifecycle for TLC: the run gives its constants their values. *)
EXTENDS Lifecycle
=============================================================================
