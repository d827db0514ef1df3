----------------------------- MODULE MCComments -----------------------------
(* Comments for TLC.                                                        *)
EXTENDS Comments, TLC

Symmetry ==
  Permutations(Versions) \cup Permutations(Comments) \cup Permutations(Requests)
=============================================================================
