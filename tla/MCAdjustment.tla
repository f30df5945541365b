---------------------------- MODULE MCAdjustment ----------------------------
(***************************************************************************)
(* Three plugins are the fewest of which one can come between two others;  *)
(* two keys let a response conflict in one item and not in the other.      *)
(***************************************************************************)
EXTENDS Adjustment

CONSTANTS k1, k2

MCKeys == {k1, k2}
=============================================================================
