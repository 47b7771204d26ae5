--------------------------- MODULE MotorFaults_MC ---------------------------
(* Instances of MotorFaults for TLC.  The startup handlers are alike.       *)
EXTENDS MotorFaults, TLC

HandlerSymmetry == Permutations(Handlers)
=============================================================================
