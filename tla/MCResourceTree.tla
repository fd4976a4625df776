--------------------------- MODULE MCResourceTree ---------------------------
(* ResourceTree for TLC: the runs give its constants their values. *)
EXTENDS ResourceTree, TLC

Symmetry == Permutations(Callers)
=============================================================================
