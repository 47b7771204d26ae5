----------------------------- MODULE BoxAddr_MC -----------------------------
(***************************************************************************)
(* Model values for the runs of BoxAddr.                                   *)
(***************************************************************************)
EXTENDS BoxAddr, TLC

\* Boxes differ by their UniID only.
BoxSymmetry == Permutations(Boxes)
=============================================================================
