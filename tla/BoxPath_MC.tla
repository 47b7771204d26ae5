----------------------------- MODULE BoxPath_MC -----------------------------
(* An instance of BoxPath for TLC: two boxes with a slot in play each.       *)
EXTENDS BoxPath, TLC

CONSTANTS T0, T4
OneEach == (T0 :> 1) @@ (T4 :> 2)
=============================================================================
