----------------------------- MODULE MCSessions -----------------------------
(* Sessions for TLC.                                                        *)
EXTENDS Sessions, TLC

Symmetry ==
  Permutations(Tokens) \cup Permutations(Resets) \cup Permutations(Requests)
=============================================================================
