------------------------------- MODULE MCDns -------------------------------
(* Dns for TLC: the run gives its constants their values. *)
EXTENDS Dns
=============================================================================
