---------------------------- MODULE Serial485_MC ----------------------------
(***************************************************************************)
(* Model values for the runs of Serial485.                                 *)
(***************************************************************************)
EXTENDS Serial485_service, TLC

\* The clients run the same code; sound for the safety runs only.
ClientSymmetry == Permutations(Clients)
=============================================================================
