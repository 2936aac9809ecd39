-------------------------- MODULE MCAdministration --------------------------
(***************************************************************************)
(* Values for checking Administration.  One user, the one that is made the *)
(* first administrator, is named, so the users are not symmetric.          *)
(***************************************************************************)
EXTENDS Administration, TLC

Symmetry == Permutations(Request)
=============================================================================
