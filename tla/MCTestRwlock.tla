---------------------------- MODULE MCTestRwlock ----------------------------
(* TestRwlock for TLC: a few readers, and a clock far from and close to the *)
(* end of a second.                                                         *)
EXTENDS TestRwlock
MCLocks == {"contract", "stub", "barging", "unfair", "shared"}
=============================================================================
