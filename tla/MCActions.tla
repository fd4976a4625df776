----------------------------- MODULE MCActions -----------------------------
(* Actions for TLC: the runs give its constants their values. *)
EXTENDS Actions, TLC

Symmetry == Permutations(Callers)
=============================================================================
