---------------------------- MODULE MCBffClient ----------------------------
(***************************************************************************)
(* Values for checking BffClient alone.  No formula names an element of    *)
(* the symmetric sets.                                                     *)
(***************************************************************************)
EXTENDS BffClient, TLC

Symmetry == Permutations(Login) \cup Permutations(Call)
=============================================================================
