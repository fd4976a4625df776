--------------------------- MODULE MCWritableFile ---------------------------
(* WritableFile for TLC: the runs give its constants their values. *)
EXTENDS WritableFile
=============================================================================
