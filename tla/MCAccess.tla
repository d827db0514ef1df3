------------------------------ MODULE MCAccess ------------------------------
(* Access for TLC.  The owner and the owner's address are told apart from   *)
(* the others.                                                              *)
EXTENDS Access, TLC

Symmetry ==
  Permutations(Users \ {Owner}) \cup Permutations(Contacts) \cup
  Permutations(Invitations) \cup Permutations(Emails \ {OwnerEmail}) \cup
  Permutations(Requests)
=============================================================================
