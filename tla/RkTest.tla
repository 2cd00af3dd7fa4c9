------------------------------- MODULE RkTest -------------------------------
(***************************************************************************)
(* rklab/rkgrep_test.c: the unit tests of the Rabin-Karp lab, run on a     *)
(* submission.  rand() returns anything.  The reference functions of       *)
(* rkgrep_harness.o are the operators of RkHash and Bloom; a submission is *)
(* right or differs from them in one point.                                *)
(***************************************************************************)
EXTENDS Bloom

CONSTANTS
    Submissions,    \* a subset of Kinds
    Lengths,        \* the pairs <<test_pattern_len, test_document_len>> of -m and -n
    WordLens,       \* rand() % 5 + 5 in the code
    Letters,        \* 'a' + rand() % 26 in the code
    Numbers,        \* what the test of the Bloom filter inserts
    TRIES,          \* 100 in the code
    SMALL, LARGE    \* test_bloom_bsz_small, test_bloom_bsz_large

Kinds == {"right", "wrong_h", "little_endian", "one_hash_less"}
WhichTests == {"naive", "rk", "bloom", "rkbloom", "all"}

NUL == 0
SPACE == 32
BANG == 33

ASSUME RkTestAssumption ==
    /\ Submissions \subseteq Kinds
    /\ Lengths \subseteq Nat \X Nat /\ \A l \in Lengths : l[1] \in 1 .. l[2]
    /\ WordLens \subseteq Nat
    /\ Letters \subseteq 1 .. SPACE - 1
    /\ TRIES \in Nat \ {0}
    /\ SMALL \in Nat /\ LARGE \in Nat /\ SMALL % 8 = 0 /\ LARGE % 8 = 0

VARIABLES
    pc,             \* the step of the test, or how it ended: passed, panic (a
                    \* panic_cond failed), abort (an assert), exit1, crash
    which_test, m, n,
    submission,
    doc,            \* the document in use
    i,              \* how much of a document is generated
    count,
    bf, bf1,        \* the filter of the submission and the one of the reference
    test_numbers,
    \* Auxiliary:
    drawn,          \* the positions rk_substring_match was tried at
    repeated        \* whether an expected single match was one of several

options == <<which_test, m, n, submission>>
filters == <<bf, bf1, test_numbers>>
aux == <<drawn, repeated>>
testVars == <<pc, options, doc, i, count, filters, aux>>

TestInit ==
    /\ pc = "options"
    /\ submission \in Submissions
    /\ which_test = "all"
    /\ \E l \in Lengths : m = l[1] /\ n = l[2]
    /\ doc = <<>> /\ i = 0 /\ count = 0
    /\ bf = bloom_init(0) /\ bf1 = bloom_init(0) /\ test_numbers = {}
    /\ drawn = {} /\ repeated = FALSE

-----------------------------------------------------------------------------
(* The submission.                                                         *)

\* The h that the submission's rkhash_init stores.
StudentH(k) == rkhash_h(IF submission = "wrong_h" THEN k - 1 ELSE k)

\* The windows whose hash is that of the pattern, compared character by character.
rk_matches(p, s) ==
    UNION {{pos \in Occurrences(p, s) : hs[pos] = rkhash_init(p)} :
               hs \in {Windows(Len(p), Len(s), s, StudentH(Len(p)))}}

StudentBits(x, bsz) ==
    CASE submission = "little_endian" ->
             {8 * (q \div 8) + 7 - (q % 8) : q \in Positions(x, bsz)}
      [] submission = "one_hash_less" ->
             {CMod(hash_i(k, x), bsz) : k \in 0 .. BLOOM_HASH_NUM - 2}
      [] OTHER -> Positions(x, bsz)

student_add(f, x) == [f EXCEPT !.bits = @ \cup StudentBits(x, f.bsz)]
student_query(f, x) == StudentBits(x, f.bsz) \subseteq f.bits

student_create(k, s, bsz) ==
    [bsz |-> bsz,
     bits |-> UNION {StudentBits(hash, bsz) :
                         hash \in Range(Windows(k, Len(s), s, StudentH(k)))}]

bloom_matches(f, p, s) == IF student_query(f, rkhash_init(p)) THEN rk_matches(p, s) ELSE {}

-----------------------------------------------------------------------------
(* Steps common to the tests.                                              *)

After(test) ==
    CASE which_test # "all" -> "passed"
      [] test = "naive" -> "rk"
      [] test = "rk" -> "bloom"
      [] test = "bloom" -> "rkbloom"
      [] OTHER -> "passed"

\* panic_cond ends the process when its condition is false.
PanicUnless(ok, next) == pc' = IF ok THEN next ELSE "panic"

\* Mutant: no match at all is not compared.
test_match_at_pos_AnyCount(found, pos, expected_n_matches) ==
    \/ found = {}
    \/ /\ expected_n_matches >= 0 => Cardinality(found) = expected_n_matches
       /\ expected_n_matches # 0 => Min(found) = pos

\* The two comparisons, on the positions that the matcher found.
test_match_at_pos(found, pos, expected_n_matches) ==
    /\ expected_n_matches >= 0 => Cardinality(found) = expected_n_matches
    /\ expected_n_matches # 0 => found # {} /\ Min(found) = pos

SameBits(f, g) == \A k \in 0 .. f.bsz - 1 : bloom_bit_at_pos(f, k) = bloom_bit_at_pos(g, k)

-----------------------------------------------------------------------------
(* test_naive and test_rk.                                                 *)

abracadabra == <<1, 2, 3, 1, 4, 1, 5, 1, 2, 3, 1>>
aaa == <<1, 1, 1>>
A == 1
B == 2

\* The command line and the seed.
main ==
    /\ pc = "options"
    /\ which_test' \in WhichTests
    /\ pc' = IF which_test' = "all" THEN "naive" ELSE which_test'
    /\ UNCHANGED <<m, n, submission, doc, i, count, filters, aux>>

UnknownTest ==
    /\ pc = "options"
    /\ pc' = "exit1"
    /\ UNCHANGED <<options, doc, i, count, filters, aux>>

AllA == [k \in 1 .. n |-> A]

\* The matches in the short document, then a long document of one letter.
test_naive ==
    LET Found(p) == Occurrences(p, abracadabra)
    IN  /\ pc = "naive"
        /\ PanicUnless(/\ test_match_at_pos(Found(SubSeq(abracadabra, 1, 3)), 0, 2)
                       /\ test_match_at_pos(Found(SubSeq(abracadabra, 7, 9)), 6, 1)
                       /\ Found(aaa) = {}, "naive_worst")
        /\ doc' = AllA /\ count' = 0
        /\ UNCHANGED <<options, i, filters, aux>>

\* The second call stores its h over the submission's: both roll with the right h.
test_rkhash(k, s) ==
    LET h == rkhash_h(k)
        hash  == Windows(k, Len(s), s, h)
        hash1 == Windows(k, Len(s), s, h)
    IN  hash = hash1

test_rk ==
    /\ pc = "rk"
    /\ PanicUnless(test_rkhash(3, abracadabra) /\ rk_matches(aaa, abracadabra) = {}, "rk_worst")
    /\ doc' = AllA /\ count' = 0
    /\ UNCHANGED <<options, i, filters, aux>>

Worst == {"naive_worst", "rk_worst"}
TestOf(p) == IF p = "naive_worst" THEN "naive" ELSE "rk"

\* Mutant: the letter is not put back.
WorstCase_KeepsB ==
    /\ pc \in Worst /\ count < TRIES /\ m < n
    /\ \E pos \in 0 .. n - m - 1 :
           LET d == [doc EXCEPT ![pos + m] = B]
               p == SubSeq(d, pos + 1, pos + m)
               found == IF pc = "rk_worst" THEN rk_matches(p, d) ELSE Occurrences(p, d)
           IN  /\ PanicUnless(test_match_at_pos(found, pos, 1), pc)
               /\ drawn' = IF pc = "rk_worst" THEN drawn \cup {pos} ELSE drawn
               /\ doc' = d
    /\ count' = count + 1
    /\ UNCHANGED <<options, i, filters, repeated>>

\* One round of the worst case: a single b ends the pattern, and is put back.
WorstCase ==
    /\ pc \in Worst /\ count < TRIES /\ m < n
    /\ \E pos \in 0 .. n - m - 1 :
           LET d == [doc EXCEPT ![pos + m] = B]
               p == SubSeq(d, pos + 1, pos + m)
               found == IF pc = "rk_worst" THEN rk_matches(p, d) ELSE Occurrences(p, d)
           IN  /\ PanicUnless(test_match_at_pos(found, pos, 1), pc)
               /\ drawn' = IF pc = "rk_worst" THEN drawn \cup {pos} ELSE drawn
               /\ doc' = [d EXCEPT ![pos + m] = A]
    /\ count' = count + 1
    /\ UNCHANGED <<options, i, filters, repeated>>

\* rand() % (n - m) divides by zero when the lengths are the same.
SameLengths ==
    /\ pc \in Worst \cup {"tries"} /\ m = n
    /\ pc' = "crash"
    /\ UNCHANGED <<options, doc, i, count, filters, aux>>

WorstDone ==
    /\ pc \in Worst /\ count = TRIES
    /\ pc' = After(TestOf(pc))
    /\ doc' = <<>> /\ count' = 0 /\ drawn' = {}
    /\ UNCHANGED <<options, i, filters, repeated>>

-----------------------------------------------------------------------------
(* test_bloom.                                                             *)

\* One number in a small filter.
test_bloom ==
    /\ pc = "bloom"
    /\ \E x \in Numbers :
           /\ bf' = student_add(bloom_init(SMALL), x)
           /\ bf1' = bloom_add(bloom_init(SMALL), x)
           /\ PanicUnless(SameBits(bf', bf1') /\ student_query(bf', x), "bloom_large")
    /\ test_numbers' = {}
    /\ UNCHANGED <<options, doc, i, count, aux>>

\* Several numbers in a large one: all must be found, then the bits are compared.
BloomLarge ==
    /\ pc = "bloom_large"
    /\ \E xs \in SUBSET Numbers \ {{}} :
           /\ bf' = [bsz |-> LARGE, bits |-> UNION {StudentBits(x, LARGE) : x \in xs}]
           /\ bf1' = [bsz |-> LARGE, bits |-> UNION {Positions(x, LARGE) : x \in xs}]
           /\ test_numbers' = xs
           /\ PanicUnless((\A x \in xs : student_query(bf', x)) /\ SameBits(bf', bf1'),
                          After("bloom"))
    /\ UNCHANGED <<options, doc, i, count, aux>>

-----------------------------------------------------------------------------
(* test_rk_bloom.                                                          *)

\* "123 456 789"
digits == <<11, 12, 13, SPACE, 14, 15, 16, SPACE, 17, 18, 19>>

\* The short document; then the buffer of the random one is allocated.
test_rk_bloom ==
    /\ pc = "rkbloom"
    /\ bf' = student_create(3, digits, SMALL)
    /\ bf1' = rk_create_doc_bloom(3, Len(digits), digits, SMALL)
    /\ LET found == bloom_matches(bf', SubSeq(digits, 5, 7), digits)
       IN  PanicUnless(SameBits(bf', bf1') /\ found # {} /\ Min(found) = 4, "generate")
    /\ doc' = [k \in 1 .. n + 1 |-> NUL] /\ i' = 0
    /\ test_numbers' = {}
    /\ UNCHANGED <<options, count, aux>>

\* Mutant: the last word is not shortened.
WordLen_NoClamp(len) == IF len = n - i - 1 THEN len + 1 ELSE len

\* How long a word gets that rand() wants len long.
WordLen(len) ==
    IF len > n - i THEN n - i
    ELSE IF len = n - i - 1 THEN len + 1 ELSE len

\* A word and its zero, and a space over the zero unless it is the last word; i
\* stays at the space, so the next word overwrites it.
generate_random_word ==
    /\ pc = "generate" /\ i < n
    /\ \E l \in WordLens :
           LET w == WordLen(l)
           IN  \E word \in [1 .. w -> Letters] :
                   /\ doc' = [k \in 1 .. Max({n + 1, i + w + 1}) |->
                                  IF k \in i + 1 .. i + w THEN word[k - i]
                                  ELSE IF k = i + w + 1 THEN (IF i + w = n THEN NUL ELSE SPACE)
                                  ELSE doc[k]]
                   /\ i' = i + w
    /\ UNCHANGED <<pc, options, count, filters, aux>>

\* The filters of the document; their size must be a multiple of 8.
DocumentFilters ==
    /\ pc = "generate" /\ i >= n
    /\ doc' = SubSeq(doc, 1, n) /\ count' = 0
    /\ IF (10 * n) % 8 # 0 THEN pc' = "abort" /\ UNCHANGED <<bf, bf1>>
       ELSE /\ bf' = student_create(m, doc', 10 * n)
            /\ bf1' = rk_create_doc_bloom(m, n, doc', 10 * n)
            /\ PanicUnless(SameBits(bf', bf1'), "tries")
    /\ UNCHANGED <<options, i, test_numbers, aux>>

\* A pattern that is nowhere in the document.
TryMissing ==
    /\ pc = "tries" /\ count < TRIES /\ m < n
    /\ \E word \in [1 .. m - 1 -> Letters] :
           PanicUnless(test_match_at_pos(bloom_matches(bf, Append(word, BANG), doc), -1, 0), pc)
    /\ count' = count + 1
    /\ UNCHANGED <<options, doc, i, filters, aux>>

\* A pattern from the document, which is expected there once.
TryPresent ==
    /\ pc = "tries" /\ count < TRIES /\ m < n
    /\ \E pos \in 0 .. n - m - 1 :
           LET p == SubSeq(doc, pos + 1, pos + m)
           IN  /\ PanicUnless(test_match_at_pos(bloom_matches(bf, p, doc), pos, 1), pc)
               /\ repeated' = (repeated \/ Cardinality(Occurrences(p, doc)) > 1)
    /\ count' = count + 1
    /\ UNCHANGED <<options, doc, i, filters, drawn>>

TriesDone ==
    /\ pc = "tries" /\ count = TRIES
    /\ pc' = After("rkbloom")
    /\ UNCHANGED <<options, doc, i, count, filters, aux>>

TestNext ==
    \/ main \/ UnknownTest
    \/ test_naive \/ test_rk \/ WorstCase \/ SameLengths \/ WorstDone
    \/ test_bloom \/ BloomLarge
    \/ test_rk_bloom \/ generate_random_word \/ DocumentFilters
    \/ TryMissing \/ TryPresent \/ TriesDone

TestSpec == TestInit /\ [][TestNext]_testVars

-----------------------------------------------------------------------------
(* Properties.                                                             *)

\* What the tests expect is true: a right submission is failed only when a random
\* document holds the pattern more than once.
RightPasses == submission = "right" /\ pc = "panic" => repeated

\* generate_random_document fills its buffer and never writes past it: n characters,
\* none of them a zero, and the terminating zero.
DocumentIsFull ==
    /\ pc = "generate" => i <= n /\ Len(doc) = n + 1
    /\ pc = "generate" /\ i = n => doc[n + 1] = NUL /\ \A k \in 1 .. n : doc[k] # NUL

\* PRIME is large enough that a hash rolled with the wrong h to a position other
\* than 0 of the worst case is never the right one by accident.
NoAccident ==
    \A l \in Lengths : \A pos \in 1 .. l[2] - l[1] - 1 :
        LET d == [k \in 1 .. l[2] |-> IF k = pos + l[1] THEN B ELSE A]
        IN  Windows(l[1], l[2], d, rkhash_h(l[1] - 1))[pos]
                # rkhash_init(SubSeq(d, pos + 1, pos + l[1]))

\* test_rkhash cannot see a wrong h, which the reference overwrites; the searches of
\* test_rk after it let one pass only as long as every position they drew was 0,
\* where no hash is rolled (with NoAccident).
WrongHCaught ==
    submission = "wrong_h" /\ pc # "panic" => drawn \subseteq {0}

\* bloom_bit_at_pos "returns whether the bit at position "pos" of the bitmap is set or
\* not" (bloom.c), which is what the tests compare filters by.
BitIsRead ==
    \A pos \in 0 .. bf.bsz - 1 : bloom_bit_at_pos(bf, pos) <=> pos \in bf.bits

=============================================================================
