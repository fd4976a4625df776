------------------------------ MODULE MCBuffer ------------------------------
(* Buffer for TLC: the run gives its constants their values. *)
EXTENDS Buffer
=============================================================================
