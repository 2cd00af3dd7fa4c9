------------------------------- MODULE RkHash -------------------------------
(***************************************************************************)
(* The modular arithmetic of rklab/rkgrep.c and the Rabin-Karp hash built  *)
(* from it.  rkgrep.c leaves rkhash_init and rkhash_next to the student;   *)
(* they are modelled after the compiled rkhash_init_1 and rkhash_next_1 of *)
(* rkgrep_harness.o, which the test compares the student's with.           *)
(*                                                                         *)
(* With PRIME = 961748941 no product below exceeds a long long.            *)
(***************************************************************************)
EXTENDS Integers, SequencesExt

CONSTANTS PRIME, RADIX      \* RADIX is 256 in the code

ASSUME RkHashAssumption == PRIME \in Nat \ {0, 1} /\ RADIX \in Nat \ {0}

\* The % of C: the sign of the dividend.
CMod(x, n) == IF x >= 0 THEN x % n ELSE -((-x) % n)

madd(a, b) == CMod(a + b, PRIME)

\* Mutant: no multiple of PRIME is added back.
msub_NoWrap(a, b) == a - b

\* For a = b this is PRIME, not 0.
msub(a, b) == IF a > b THEN a - b ELSE a + PRIME - b

mmul(a, b) == CMod(a * b, PRIME)

\* The hash of the characters of charbuf.
rkhash_init(charbuf) ==
    LET step(c) == [sum \in Int |-> madd(mmul(sum, RADIX), c)]
        hash[k \in 0 .. Len(charbuf)] == IF k = 0 THEN 0 ELSE step(charbuf[k])[hash[k - 1]]
    IN  hash[Len(charbuf)]

\* What rkhash_init stores in *h: RADIX to the power m.
rkhash_h(m) ==
    LET h[k \in 0 .. m] == IF k = 0 THEN 1 ELSE mmul(h[k - 1], RADIX)
    IN  h[m]

\* From the hash of one window to the hash of the next.
rkhash_next(curr_hash, h, leftmost, rightmost) ==
    madd(msub(mmul(curr_hash, RADIX), mmul(leftmost, h)), rightmost)

\* The positions of p in s, which all matchers look for.
Occurrences(p, s) == {pos \in 0 .. Len(s) - Len(p) : SubSeq(s, pos + 1, pos + Len(p)) = p}
=============================================================================
