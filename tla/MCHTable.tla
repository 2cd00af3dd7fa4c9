------------------------------ MODULE MCHTable ------------------------------
(* HTable for TLC: the first two keys have one hash code, the third has     *)
(* BIG_PRIME itself, and the last two meet the first in small tables.       *)
EXTENDS HTable

MCKeys ==
    {<<65, 115, 122>>,      \* "Asz", 1169388
     <<89, 65, 65>>,        \* "YAA", 1169388
     <<71, 105, 85>>,       \* "GiU", 1560007
     <<88>>,                \* "X"
     <<66>>}                \* "B"

\* The fact about primes that the proofs take from number theory (PrimesFound), up
\* to a bound.
ASSUME InstancePrimes ==
    \A min \in 1 .. 300 : \E n \in min .. 2 * min + 3 : is_prime(n)
=============================================================================
