------------------------------ MODULE MCFiles ------------------------------
(* Files for TLC.                                                           *)
EXTENDS Files, TLC

Symmetry ==
  Permutations(Documents) \cup Permutations(Images) \cup Permutations(Requests)
=============================================================================
