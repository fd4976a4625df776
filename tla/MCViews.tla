------------------------------ MODULE MCViews ------------------------------
(* Views for TLC: the run gives its constants their values. *)
EXTENDS Views, TLC

Symmetry == Permutations(Ids)
=============================================================================
