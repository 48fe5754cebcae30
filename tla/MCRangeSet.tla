----------------------------- MODULE MCRangeSet -----------------------------
(* Addresses of three bits, three entries: enough for a merge of three       *)
(* ranges, a split, a full array, padding that is kept and that is dropped.  *)
EXTENDS RangeSet

MCU64Max == 7
MCSizes == {0, 1, 3, 5}
MCAligns == {1, 2, 3, 4}
MCLimits == {4, 7}
=============================================================================
