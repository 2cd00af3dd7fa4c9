---------------------------- MODULE MCRangeCheck ----------------------------
(* RangeCheck for TLC: four 16-byte slots, one unaligned address, one below *)
(* the heap and one above it.                                              *)
EXTENDS RangeCheck
MCReturns == {-16, 0, 8, 16, 32, 48, 64}
MCBreaks == {0, 17, 48, 63, 64}
=============================================================================
