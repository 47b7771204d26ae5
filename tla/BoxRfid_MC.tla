----------------------------- MODULE BoxRfid_MC -----------------------------
(* Instances of BoxRfid for TLC: a tag that names a Spoolman spool and whose  *)
(* code is not known, and one of a known product.                          *)
EXTENDS BoxRfid, TLC

CONSTANTS T0, a, b
=============================================================================
