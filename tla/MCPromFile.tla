----------------------------- MODULE MCPromFile -----------------------------
(* PromFile for TLC: the runs give its constants their values. *)
EXTENDS PromFile, TLC
=============================================================================
