------------------------------ MODULE MCCache ------------------------------
(* Cache for TLC: the runs give its constants their values. *)
EXTENDS Cache, TLC
=============================================================================
