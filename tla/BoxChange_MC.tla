---------------------------- MODULE BoxChange_MC ----------------------------
(***************************************************************************)
(* Model values for the runs of BoxChange.                                 *)
(***************************************************************************)
EXTENDS BoxChange, TLC

\* Slots differ in nothing but their identity.
SlotSymmetry == Permutations(Slots)
=============================================================================
