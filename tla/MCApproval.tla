----------------------------- MODULE MCApproval -----------------------------
(* Approval for TLC.  Ids and requests are interchangeable model values.   *)
EXTENDS Approval, TLC

Symmetry ==
  Permutations(Requests) \cup Permutations(DeliverableIds) \cup Permutations(VersionIds)
=============================================================================
