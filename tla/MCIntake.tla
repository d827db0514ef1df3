----------------------------- MODULE MCIntake -----------------------------
(* Intake for TLC.                                                          *)
EXTENDS Intake, TLC

Symmetry == Permutations(Contacts) \cup Permutations(Staff)
=============================================================================
