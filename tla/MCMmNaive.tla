----------------------------- MODULE MCMmNaive ------------------------------
(* MmNaive for TLC: an arena of a few chunks.                              *)
EXTENDS MmNaive
=============================================================================
