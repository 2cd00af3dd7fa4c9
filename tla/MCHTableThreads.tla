--------------------------- MODULE MCHTableThreads --------------------------
(* HTableThreads for TLC: keys that share a slot and keys that do not.      *)
EXTENDS HTableThreads, TLC
MCHash == [k \in 0 .. TESTSZ - 1 |-> IF k = 1 THEN 5 ELSE 4]
=============================================================================
