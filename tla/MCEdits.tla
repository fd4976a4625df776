------------------------------ MODULE MCEdits ------------------------------
(* Edits for TLC: the run gives its constants their values. *)
EXTENDS Edits, TLC

\* Names are alike.
Symmetry == Permutations(Names)

\* One file of each sort: written with labels, with the nil map sent, with
\* power actions, by its name, and not at all.
MCEdited ==
  {<<"primary_ips", "labels.json">>, <<"servers", "status">>, <<"volumes", "name">>,
   <<"images", "name">>, <<"servers", "location">>, <<"isos", "name">>}
=============================================================================
