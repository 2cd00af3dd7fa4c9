---------------------------- MODULE RkTestProofs ----------------------------
(***************************************************************************)
(* rkgrep_test.c for every prime, all lengths, letters, numbers of tries   *)
(* and filter sizes: the random document is full, and a right submission   *)
(* fails only where a random document repeats the pattern.                 *)
(***************************************************************************)
EXTENDS RkTest, BloomProofs

-----------------------------------------------------------------------------
(* What a right submission finds.                                          *)

\* Its windows are compared with the right hash: it finds all matches.
LEMMA RightFinds ==
    ASSUME submission = "right", NEW p \in Seq(Nat), NEW s \in Seq(Nat), Len(p) # 0
    PROVE  rk_matches(p, s) = Occurrences(p, s)
<1> DEFINE M == Len(p)  N == Len(s)
           hs == Windows(M, N, s, rkhash_h(M))
<1>1. M \in Nat \ {0} /\ N \in Nat
  BY LenProperties
<1>2. StudentH(M) = rkhash_h(M)
  BY DEF StudentH
<1>3. rk_matches(p, s) = {pos \in Occurrences(p, s) : hs[pos] = rkhash_init(p)}
  BY <1>2 DEF rk_matches
<1>4. ASSUME NEW pos \in Occurrences(p, s) PROVE hs[pos] = rkhash_init(p)
  <2>1. pos \in 0 .. N - M /\ SubSeq(s, pos + 1, pos + M) = p
    BY DEF Occurrences
  <2>2. M <= N
    BY <1>1, <2>1
  <2>3. s \in Seq(Int) /\ \A k \in 1 .. N : s[k] \in Nat
    BY ElementOfSeq
  <2> HIDE DEF M, N
  <2>4. N <= Len(s)
    BY <1>1 DEF N
  <2>5. Windows(M, N, s, rkhash_h(M)) =
          [w \in 0 .. N - M |-> rkhash_init(SubSeq(s, w + 1, w + M))]
    BY <1>1, <2>2, <2>3, <2>4, WindowHashes
  <2> QED
    BY <2>1, <2>5
<1> QED
  BY <1>3, <1>4

\* Its filters are the reference's.
LEMMA RightCreates ==
    ASSUME submission = "right", NEW k, NEW s, NEW bsz
    PROVE  student_create(k, s, bsz) = rk_create_doc_bloom(k, Len(s), s, bsz)
<1> DEFINE R == Range(Windows(k, Len(s), s, rkhash_h(k)))
           empty == bloom_init(bsz)
<1>1. StudentH(k) = rkhash_h(k) /\ \A x : StudentBits(x, bsz) = Positions(x, bsz)
  BY DEF StudentH, StudentBits
<1>2. empty = [bsz |-> bsz, bits |-> {}]
  BY DEF bloom_init
<1> HIDE DEF R
<1>3. \A x : bloom_add(empty, x).bits = Positions(x, bsz)
  BY <1>2 DEF bloom_add
<1>4. student_create(k, s, bsz) = [bsz |-> bsz, bits |-> UNION {Positions(x, bsz) : x \in R}]
  BY <1>1 DEF student_create, R
<1> DEFINE U == UNION {bloom_add(empty, x).bits : x \in R}
<1>5. rk_create_doc_bloom(k, Len(s), s, bsz) = [empty EXCEPT !.bits = U]
  BY DEF rk_create_doc_bloom, R
<1>6. U = UNION {Positions(x, bsz) : x \in R}
  BY <1>3
<1> HIDE DEF U
<1>7. [empty EXCEPT !.bits = U] = [bsz |-> bsz, bits |-> U]
  BY <1>2
<1> QED
  BY <1>4, <1>5, <1>6, <1>7

\* Through the filter of a document it finds all matches too.
LEMMA RightFindsFiltered ==
    ASSUME submission = "right", NEW p \in Seq(Nat), NEW s \in Seq(Nat), Len(p) # 0, NEW bsz
    PROVE  bloom_matches(student_create(Len(p), s, bsz), p, s) = Occurrences(p, s)
<1> DEFINE M == Len(p)  N == Len(s)
           f == student_create(M, s, bsz)
<1>1. rk_matches(p, s) = Occurrences(p, s)
  BY RightFinds
<1>2. M \in Nat \ {0} /\ N \in Nat
  BY LenProperties
<1>3. ASSUME NEW pos \in Occurrences(p, s) PROVE student_query(f, rkhash_init(p))
  <2>1. pos \in 0 .. N - M /\ SubSeq(s, pos + 1, pos + M) = p
    BY DEF Occurrences
  <2>2. M <= N
    BY <1>2, <2>1
  <2>3. s \in Seq(Int) /\ \A k \in 1 .. N : s[k] \in Nat
    BY ElementOfSeq
  <2>4. f = rk_create_doc_bloom(M, N, s, bsz)
    BY RightCreates
  <2> HIDE DEF M, N, f
  <2>5. N <= Len(s)
    BY <1>2 DEF N
  <2> DEFINE g == [w \in 0 .. N - M |-> rkhash_init(SubSeq(s, w + 1, w + M))]
  <2>6. Windows(M, N, s, rkhash_h(M)) = g
    BY <1>2, <2>2, <2>3, <2>5, WindowHashes
  <2>7. g[pos] = rkhash_init(p) /\ pos \in DOMAIN g
    BY <2>1
  <2> HIDE DEF g
  <2>8. rkhash_init(p) \in Range(g)
    BY <2>7 DEF Range
  <2>9. bloom_query(f, rkhash_init(p))
    BY <2>4, <2>6, <2>8, FilterHolds
  <2> QED
    BY <2>9 DEF bloom_query, student_query, StudentBits
<1> HIDE DEF f
<1>4. bloom_matches(f, p, s) = Occurrences(p, s)
  BY <1>1, <1>3 DEF bloom_matches
<1> QED
  BY <1>4 DEF f

-----------------------------------------------------------------------------
(* The fixed documents.                                                    *)

\* A part of a text.
LEMMA Part ==
    ASSUME NEW s \in Seq(Nat), NEW pos \in Nat, NEW len \in Nat \ {0}, pos + len <= Len(s)
    PROVE  /\ SubSeq(s, pos + 1, pos + len) \in Seq(Nat)
           /\ Len(SubSeq(s, pos + 1, pos + len)) = len
           /\ \A k \in 1 .. len : SubSeq(s, pos + 1, pos + len)[k] = s[pos + k]
<1> DEFINE N == Len(s)
<1>1. N \in Nat /\ s \in Seq(Int) /\ N <= Len(s) /\ \A k \in 1 .. N : s[k] \in Nat
  BY LenProperties, ElementOfSeq
<1>2. pos \in 0 .. N - len
  BY <1>1
<1> HIDE DEF N
<1> QED
  BY <1>1, <1>2, WindowType

\* A document of eleven characters, for patterns of three.
LEMMA Threes ==
    ASSUME NEW s \in Seq(Nat), Len(s) = 11, NEW p \in Seq(Nat), Len(p) = 3
    PROVE  Occurrences(p, s) =
               {pos \in 0 .. 8 : s[pos + 1] = p[1] /\ s[pos + 2] = p[2] /\ s[pos + 3] = p[3]}
<1>1. s \in Seq(Int) /\ p \in Seq(Int)
  OBVIOUS
<1>2. Occurrences(p, s) =
        {pos \in 0 .. Len(s) - Len(p) : \A k \in 1 .. Len(p) : s[pos + k] = p[k]}
  BY <1>1, OccurrencesAre
<1>3. 11 - 3 = 8
  OBVIOUS
<1>4. \A pos \in 0 .. 8 : (\A k \in 1 .. 3 : s[pos + k] = p[k]) <=>
                          (s[pos + 1] = p[1] /\ s[pos + 2] = p[2] /\ s[pos + 3] = p[3])
  <2> TAKE pos \in 0 .. 8
  <2>1. \A k \in 1 .. 3 : k = 1 \/ k = 2 \/ k = 3
    OBVIOUS
  <2>2. 1 \in 1 .. 3 /\ 2 \in 1 .. 3 /\ 3 \in 1 .. 3
    OBVIOUS
  <2> QED
    BY <2>1, <2>2, Zenon
<1> QED
  BY <1>2, <1>3, <1>4

\* Three characters of it.
LEMMA PartOfThree ==
    ASSUME NEW s \in Seq(Nat), Len(s) = 11, NEW pos \in 0 .. 8
    PROVE  LET p == SubSeq(s, pos + 1, pos + 3)
           IN  p \in Seq(Nat) /\ Len(p) = 3 /\ p[1] = s[pos + 1] /\ p[2] = s[pos + 2] /\ p[3] = s[pos + 3]
<1>1. pos \in Nat /\ 3 \in Nat \ {0} /\ pos + 3 <= Len(s)
  OBVIOUS
<1> DEFINE p == SubSeq(s, pos + 1, pos + 3)
<1>2. p \in Seq(Nat) /\ Len(p) = 3 /\ \A k \in 1 .. 3 : p[k] = s[pos + k]
  BY <1>1, Part
<1> HIDE DEF p
<1>3. p[1] = s[pos + 1] /\ p[2] = s[pos + 2] /\ p[3] = s[pos + 3]
  BY <1>2
<1> QED
  BY <1>2, <1>3 DEF p

\* abracadabra holds what test_naive expects, and no aaa.
LEMMA Abracadabra ==
    /\ abracadabra \in Seq(Nat) /\ Len(abracadabra) = 11 /\ aaa \in Seq(Nat) /\ Len(aaa) = 3
    /\ Occurrences(SubSeq(abracadabra, 1, 3), abracadabra) = {0, 7}
    /\ Occurrences(SubSeq(abracadabra, 7, 9), abracadabra) = {6}
    /\ Occurrences(aaa, abracadabra) = {}
<1> DEFINE s == abracadabra  p == SubSeq(s, 1, 3)  q == SubSeq(s, 7, 9)
<1>1. s \in Seq(Nat) /\ Len(s) = 11
  BY DEF abracadabra
<1>2. /\ s[1] = 1 /\ s[2] = 2 /\ s[3] = 3 /\ s[4] = 1 /\ s[5] = 4 /\ s[6] = 1 /\ s[7] = 5
      /\ s[8] = 1 /\ s[9] = 2 /\ s[10] = 3 /\ s[11] = 1
  BY DEF abracadabra
<1>3. aaa \in Seq(Nat) /\ Len(aaa) = 3 /\ aaa[1] = 1 /\ aaa[2] = 1 /\ aaa[3] = 1
  BY DEF aaa
<1> HIDE DEF s
<1>4. p \in Seq(Nat) /\ Len(p) = 3 /\ p[1] = s[1] /\ p[2] = s[2] /\ p[3] = s[3]
  BY <1>1, PartOfThree, 0 + 1 = 1, 0 + 3 = 3, 0 + 2 = 2
<1>5. q \in Seq(Nat) /\ Len(q) = 3 /\ q[1] = s[7] /\ q[2] = s[8] /\ q[3] = s[9]
  BY <1>1, PartOfThree, 6 + 1 = 7, 6 + 3 = 9, 6 + 2 = 8
<1> HIDE DEF p, q
<1>6. \A k \in 0 .. 8 : k \in {0, 1, 2, 3, 4, 5, 6, 7, 8}
  OBVIOUS
<1>7. Occurrences(p, s) = {0, 7}
  <2>1. Occurrences(p, s) =
          {pos \in 0 .. 8 : s[pos + 1] = p[1] /\ s[pos + 2] = p[2] /\ s[pos + 3] = p[3]}
    BY <1>1, <1>4, Threes
  <2>2. p[1] = 1 /\ p[2] = 2 /\ p[3] = 3
    BY <1>2, <1>4
  <2> QED
    BY <1>2, <1>6, <2>1, <2>2
<1>8. Occurrences(q, s) = {6}
  <2>1. Occurrences(q, s) =
          {pos \in 0 .. 8 : s[pos + 1] = q[1] /\ s[pos + 2] = q[2] /\ s[pos + 3] = q[3]}
    BY <1>1, <1>5, Threes
  <2>2. q[1] = 5 /\ q[2] = 1 /\ q[3] = 2
    BY <1>2, <1>5
  <2> QED
    BY <1>2, <1>6, <2>1, <2>2
<1>9. Occurrences(aaa, s) = {}
  <2>1. Occurrences(aaa, s) =
          {pos \in 0 .. 8 : s[pos + 1] = aaa[1] /\ s[pos + 2] = aaa[2] /\ s[pos + 3] = aaa[3]}
    BY <1>1, <1>3, Threes
  <2>2. aaa[1] = 1 /\ aaa[2] = 1 /\ aaa[3] = 1
    BY <1>3
  <2> QED
    BY <1>2, <1>6, <2>1, <2>2
<1> QED
  BY <1>1, <1>3, <1>7, <1>8, <1>9 DEF p, q, s

\* 456 is in "123 456 789" once.
LEMMA Digits ==
    LET p == SubSeq(digits, 5, 7)
    IN  /\ digits \in Seq(Nat) /\ Len(digits) = 11 /\ p \in Seq(Nat) /\ Len(p) = 3
        /\ Occurrences(p, digits) = {4}
<1> DEFINE s == digits  p == SubSeq(s, 5, 7)
<1>1. s \in Seq(Nat) /\ Len(s) = 11
  BY DEF digits, SPACE
<1>2. /\ s[1] = 11 /\ s[2] = 12 /\ s[3] = 13 /\ s[4] = 32 /\ s[5] = 14 /\ s[6] = 15 /\ s[7] = 16
      /\ s[8] = 32 /\ s[9] = 17 /\ s[10] = 18 /\ s[11] = 19
  BY DEF digits, SPACE
<1> HIDE DEF s
<1>3. p \in Seq(Nat) /\ Len(p) = 3 /\ p[1] = s[5] /\ p[2] = s[6] /\ p[3] = s[7]
  BY <1>1, PartOfThree, 4 + 1 = 5, 4 + 2 = 6, 4 + 3 = 7
<1> HIDE DEF p
<1>4. \A k \in 0 .. 8 : k \in {0, 1, 2, 3, 4, 5, 6, 7, 8}
  OBVIOUS
<1>5. /\ Occurrences(p, s) =
           {pos \in 0 .. 8 : s[pos + 1] = p[1] /\ s[pos + 2] = p[2] /\ s[pos + 3] = p[3]}
      /\ p[1] = 14 /\ p[2] = 15 /\ p[3] = 16
  BY <1>1, <1>2, <1>3, Threes
<1>6. Occurrences(p, s) = {4}
  BY <1>2, <1>4, <1>5
<1> QED
  BY <1>1, <1>3, <1>6 DEF p, s

-----------------------------------------------------------------------------
(* The inductive invariant.                                                *)

LengthsInv == m \in Nat \ {0} /\ n \in Nat /\ m <= n

\* What is generated are letters, and the zero at the end of the buffer stays.
GeneratedInv ==
    pc = "generate" =>
        /\ i \in 0 .. n /\ doc \in [1 .. n + 1 -> Nat] /\ doc[n + 1] = NUL
        /\ \A k \in 1 .. i : doc[k] \in Letters

\* The document of the tries, and the filter of a right submission for it.
TriesInv ==
    pc = "tries" =>
        /\ doc \in [1 .. n -> Letters]
        /\ submission = "right" => bf = rk_create_doc_bloom(m, n, doc, 10 * n)

FilterSize(f) == f.bsz \in Nat /\ f.bsz % 8 = 0

TestInv ==
    /\ LengthsInv
    /\ pc \in Worst => doc = AllA
    /\ GeneratedInv
    /\ TriesInv
    /\ RightPasses
    /\ FilterSize(bf) /\ FilterSize(bf1)

\* The places where the invariant says nothing of the document.
Quiet == {"options", "naive", "rk", "bloom", "bloom_large", "rkbloom", "passed", "exit1", "abort", "crash"}

\* A step to such a place.
LEMMA QuietKeeps ==
    ASSUME TestInv, UNCHANGED <<m, n>>, pc' \in Quiet, FilterSize(bf'), FilterSize(bf1')
    PROVE  TestInv'
<1>1. LengthsInv' /\ pc' \notin Worst \cup {"generate", "tries", "panic"}
  BY DEF TestInv, LengthsInv, Quiet, Worst
<1> QED
  BY <1>1 DEF TestInv, GeneratedInv, TriesInv, RightPasses, FilterSize

\* A step to the panic, which is right.
LEMMA PanicKeeps ==
    ASSUME TestInv, UNCHANGED <<m, n>>, pc' = "panic", submission' = "right" => repeated',
           FilterSize(bf'), FilterSize(bf1')
    PROVE  TestInv'
<1>1. LengthsInv' /\ pc' \notin Worst \cup {"generate", "tries"}
  BY DEF TestInv, LengthsInv, Worst
<1> QED
  BY <1>1 DEF TestInv, GeneratedInv, TriesInv, RightPasses, FilterSize

\* The test starts right.
LEMMA TestInitHolds == TestInit => TestInv
<1> SUFFICES ASSUME TestInit PROVE TestInv
  OBVIOUS
<1>1. PICK l \in Lengths : m = l[1] /\ n = l[2]
  BY DEF TestInit
<1>2. l \in Nat \X Nat /\ l[1] \in 1 .. l[2]
  BY RkTestAssumption
<1>3. LengthsInv
  BY <1>1, <1>2 DEF LengthsInv
<1>4. FilterSize(bf) /\ FilterSize(bf1)
  BY DEF TestInit, FilterSize, bloom_init
<1> QED
  BY <1>3, <1>4 DEF TestInit, TestInv, GeneratedInv, TriesInv, RightPasses, Worst

\* Where a test goes on.
LEMMA AfterQuiet ==
    ASSUME NEW test
    PROVE  After(test) \in Quiet
BY DEF After, Quiet

\* A set of one element, and the two of the first search.
LEMMA Counts ==
    /\ \A x \in Int : Cardinality({x}) = 1 /\ Min({x}) = x
    /\ Cardinality({0, 7}) = 2 /\ Min({0, 7}) = 0
    /\ Cardinality({}) = 0
<1>1. ASSUME NEW x \in Int PROVE Cardinality({x}) = 1 /\ Min({x}) = x
  <2>1. {x} \subseteq Int /\ x \in {x} /\ \A y \in {x} : x <= y
    OBVIOUS
  <2> QED
    BY <2>1, MinIs, FS_Singleton
<1>2. Min({0, 7}) = 0
  <2>1. {0, 7} \subseteq Int /\ 0 \in {0, 7} /\ \A y \in {0, 7} : 0 <= y
    OBVIOUS
  <2> QED
    BY <2>1, MinIs
<1>3. Cardinality({0, 7}) = 2
  <2>1. IsFiniteSet({0}) /\ Cardinality({0}) = 1
    BY FS_Singleton
  <2>2. {0, 7} = {0} \cup {7} /\ 7 \notin {0}
    OBVIOUS
  <2>3. Cardinality({0} \cup {7}) = Cardinality({0}) + 1
    BY <2>1, <2>2, FS_AddElement
  <2> QED
    BY <2>1, <2>2, <2>3
<1> QED
  BY <1>1, <1>2, <1>3, FS_EmptySet

-----------------------------------------------------------------------------
(* The steps.                                                              *)

\* The searches of test_naive are what it expects.
LEMMA NaiveKeeps ==
    ASSUME TestInv, test_naive
    PROVE  TestInv'
<1> DEFINE Found(p) == Occurrences(p, abracadabra)
<1>1. /\ UNCHANGED <<m, n, bf, bf1>> /\ doc' = AllA
      /\ PanicUnless(/\ test_match_at_pos(Found(SubSeq(abracadabra, 1, 3)), 0, 2)
                     /\ test_match_at_pos(Found(SubSeq(abracadabra, 7, 9)), 6, 1)
                     /\ Found(aaa) = {}, "naive_worst")
  BY DEF test_naive, options, filters
<1>2. test_match_at_pos({0, 7}, 0, 2) /\ test_match_at_pos({6}, 6, 1)
  BY Counts DEF test_match_at_pos
<1>3. pc' = "naive_worst"
  BY <1>1, <1>2, Abracadabra DEF PanicUnless
<1>4. LengthsInv' /\ doc' = AllA'
  BY <1>1 DEF TestInv, LengthsInv, AllA
<1> QED
  BY <1>1, <1>3, <1>4 DEF TestInv, GeneratedInv, TriesInv, RightPasses, FilterSize

\* So are those of test_rk, for a right submission.
LEMMA RkKeeps ==
    ASSUME TestInv, test_rk
    PROVE  TestInv'
<1>1. /\ UNCHANGED <<m, n, submission, bf, bf1>> /\ doc' = AllA
      /\ PanicUnless(test_rkhash(3, abracadabra) /\ rk_matches(aaa, abracadabra) = {}, "rk_worst")
  BY DEF test_rk, options, filters
<1>2. test_rkhash(3, abracadabra)
  BY DEF test_rkhash
<1>3. submission = "right" => rk_matches(aaa, abracadabra) = {}
  <2>1. aaa \in Seq(Nat) /\ abracadabra \in Seq(Nat) /\ Len(aaa) # 0
    BY Abracadabra
  <2> QED
    BY <2>1, Abracadabra, RightFinds
<1>4. pc' = "rk_worst" \/ (pc' = "panic" /\ submission # "right")
  BY <1>1, <1>2, <1>3 DEF PanicUnless
<1>5. LengthsInv' /\ doc' = AllA' /\ FilterSize(bf') /\ FilterSize(bf1')
  BY <1>1 DEF TestInv, LengthsInv, AllA
<1>6. CASE pc' = "panic" /\ submission # "right"
  BY <1>1, <1>5, <1>6, PanicKeeps
<1>7. CASE pc' = "rk_worst"
  BY <1>1, <1>5, <1>7 DEF TestInv, GeneratedInv, TriesInv, RightPasses, FilterSize
<1> QED
  BY <1>4, <1>6, <1>7

\* A document of one letter with one other letter in it: the pattern that ends with
\* the other letter is there once.
LEMMA OneB ==
    ASSUME LengthsInv, NEW pos \in 0 .. n - m - 1
    PROVE  LET d == [AllA EXCEPT ![pos + m] = B]
               p == SubSeq(d, pos + 1, pos + m)
           IN  /\ d \in Seq(Nat) /\ p \in Seq(Nat) /\ Len(p) # 0
               /\ Occurrences(p, d) = {pos}
               /\ [d EXCEPT ![pos + m] = A] = AllA
<1> DEFINE d == [AllA EXCEPT ![pos + m] = B]
           p == SubSeq(d, pos + 1, pos + m)
<1>1. m \in Nat \ {0} /\ n \in Nat /\ m <= n
  BY DEF LengthsInv
<1>2. pos \in Nat /\ pos + m \in 1 .. n /\ pos + m <= n
  BY <1>1
<1>3. AllA = [k \in 1 .. n |-> 1]
  BY DEF AllA, A
<1>4. d = [k \in 1 .. n |-> IF k = pos + m THEN 2 ELSE 1]
  BY <1>3 DEF B
<1>5. d \in [1 .. n -> Nat]
  <2>1. \A k \in 1 .. n : (IF k = pos + m THEN 2 ELSE 1) \in Nat
    OBVIOUS
  <2> QED
    BY <1>4, <2>1, Zenon
<1>6. [d EXCEPT ![pos + m] = A] = AllA
  BY <1>3, <1>4 DEF A
<1>7. \A k \in 1 .. n : d[k] = IF k = pos + m THEN 2 ELSE 1
  BY <1>4
<1> HIDE DEF d
<1>8. d \in Seq(Nat) /\ Len(d) = n
  BY <1>1, <1>5
<1>9. p \in Seq(Nat) /\ Len(p) = m /\ \A k \in 1 .. m : p[k] = d[pos + k]
  BY <1>1, <1>2, <1>8, Part
<1> HIDE DEF p
<1>10. Occurrences(p, d) = {q \in 0 .. n - m : \A k \in 1 .. m : d[q + k] = p[k]}
  <2>1. p \in Seq(Int) /\ d \in Seq(Int)
    BY <1>8, <1>9
  <2>2. Occurrences(p, d) =
          {q \in 0 .. Len(d) - Len(p) : \A k \in 1 .. Len(p) : d[q + k] = p[k]}
    BY <2>1, OccurrencesAre
  <2> QED
    BY <1>8, <1>9, <2>2
<1>11. pos \in 0 .. n - m
  BY <1>1
<1>12. ASSUME NEW q \in 0 .. n - m, \A k \in 1 .. m : d[q + k] = p[k] PROVE q = pos
  <2>1. m \in 1 .. m /\ q + m \in 1 .. n
    BY <1>1
  <2>2. d[q + m] = d[pos + m]
    BY <1>9, <1>12, <2>1
  <2>3. q + m = pos + m
    BY <1>2, <1>7, <2>1, <2>2
  <2> QED
    BY <1>1, <1>2, <2>3
<1>13. Occurrences(p, d) = {pos}
  BY <1>9, <1>10, <1>11, <1>12
<1>14. Len(p) # 0
  BY <1>1, <1>9
<1> QED
  BY <1>6, <1>8, <1>9, <1>13, <1>14 DEF d, p

\* Each round of the worst case ends with the document it began with.
LEMMA WorstKeeps ==
    ASSUME TestInv, WorstCase
    PROVE  TestInv'
<1>1. UNCHANGED <<m, n, submission, bf, bf1>> /\ pc \in Worst /\ doc = AllA
  BY DEF WorstCase, options, filters, TestInv
<1>2. PICK pos \in 0 .. n - m - 1 :
        LET d == [doc EXCEPT ![pos + m] = B]
            p == SubSeq(d, pos + 1, pos + m)
            found == IF pc = "rk_worst" THEN rk_matches(p, d) ELSE Occurrences(p, d)
        IN  /\ PanicUnless(test_match_at_pos(found, pos, 1), pc)
            /\ doc' = [d EXCEPT ![pos + m] = A]
  BY DEF WorstCase
<1> DEFINE d == [AllA EXCEPT ![pos + m] = B]
           p == SubSeq(d, pos + 1, pos + m)
           found == IF pc = "rk_worst" THEN rk_matches(p, d) ELSE Occurrences(p, d)
<1>3. PanicUnless(test_match_at_pos(found, pos, 1), pc) /\ doc' = [d EXCEPT ![pos + m] = A]
  BY <1>1, <1>2
<1>4. /\ d \in Seq(Nat) /\ p \in Seq(Nat) /\ Len(p) # 0 /\ Occurrences(p, d) = {pos}
      /\ [d EXCEPT ![pos + m] = A] = AllA
  BY OneB DEF TestInv
<1> HIDE DEF d, p
<1>5. submission = "right" => found = {pos}
  BY <1>4, RightFinds
<1>6. test_match_at_pos({pos}, pos, 1)
  <2>1. pos \in Int
    OBVIOUS
  <2> QED
    BY <2>1, Counts DEF test_match_at_pos
<1> HIDE DEF found
<1>7. pc' = pc \/ (pc' = "panic" /\ submission # "right")
  BY <1>3, <1>5, <1>6 DEF PanicUnless
<1>8. LengthsInv' /\ doc' = AllA' /\ FilterSize(bf') /\ FilterSize(bf1')
  BY <1>1, <1>3, <1>4 DEF TestInv, LengthsInv, AllA
<1>9. CASE pc' = "panic" /\ submission # "right"
  BY <1>1, <1>8, <1>9, PanicKeeps
<1>10. CASE pc' = pc
  BY <1>1, <1>8, <1>10 DEF TestInv, GeneratedInv, TriesInv, RightPasses, FilterSize, Worst
<1> QED
  BY <1>7, <1>9, <1>10

\* The test of one number.
LEMMA BloomKeeps ==
    ASSUME TestInv, test_bloom
    PROVE  TestInv'
<1>1. PICK x \in Numbers :
        /\ bf' = student_add(bloom_init(SMALL), x) /\ bf1' = bloom_add(bloom_init(SMALL), x)
        /\ PanicUnless(SameBits(bf', bf1') /\ student_query(bf', x), "bloom_large")
  BY DEF test_bloom
<1>2. UNCHANGED <<m, n, submission>>
  BY DEF test_bloom, options
<1>3. bloom_init(SMALL) = [bsz |-> SMALL, bits |-> {}]
  BY DEF bloom_init
<1>4. /\ bf' = [bsz |-> SMALL, bits |-> StudentBits(x, SMALL)]
      /\ bf1' = [bsz |-> SMALL, bits |-> Positions(x, SMALL)]
  BY <1>1, <1>3 DEF student_add, bloom_add
<1>5. FilterSize(bf') /\ FilterSize(bf1')
  BY <1>4, RkTestAssumption DEF FilterSize
<1>6. ASSUME submission = "right" PROVE pc' = "bloom_large"
  <2>1. StudentBits(x, SMALL) = Positions(x, SMALL)
    BY <1>6 DEF StudentBits
  <2>2. SameBits(bf', bf1')
    BY <1>4, <2>1 DEF SameBits
  <2>3. student_query(bf', x)
    BY <1>4 DEF student_query
  <2> QED
    BY <1>1, <2>2, <2>3 DEF PanicUnless
<1>7. CASE pc' = "panic" /\ submission # "right"
  BY <1>2, <1>5, <1>7, PanicKeeps
<1>8. CASE pc' = "bloom_large"
  BY <1>2, <1>5, <1>8, QuietKeeps DEF Quiet
<1> QED
  BY <1>1, <1>6, <1>7, <1>8 DEF PanicUnless

\* The test of several.
LEMMA LargeKeeps ==
    ASSUME TestInv, BloomLarge
    PROVE  TestInv'
<1>1. PICK xs \in SUBSET Numbers \ {{}} :
        /\ bf' = [bsz |-> LARGE, bits |-> UNION {StudentBits(x, LARGE) : x \in xs}]
        /\ bf1' = [bsz |-> LARGE, bits |-> UNION {Positions(x, LARGE) : x \in xs}]
        /\ PanicUnless((\A x \in xs : student_query(bf', x)) /\ SameBits(bf', bf1'),
                       After("bloom"))
  BY DEF BloomLarge
<1>2. UNCHANGED <<m, n, submission>>
  BY DEF BloomLarge, options
<1>3. FilterSize(bf') /\ FilterSize(bf1')
  BY <1>1, RkTestAssumption DEF FilterSize
<1>4. ASSUME submission = "right" PROVE pc' = After("bloom")
  <2>1. \A x : StudentBits(x, LARGE) = Positions(x, LARGE)
    BY <1>4 DEF StudentBits
  <2>2. bf'.bsz = LARGE /\ bf'.bits = UNION {Positions(x, LARGE) : x \in xs} /\ bf' = bf1'
    BY <1>1, <2>1
  <2>3. SameBits(bf', bf1')
    BY <2>2 DEF SameBits
  <2>4. \A x \in xs : student_query(bf', x)
    BY <2>1, <2>2 DEF student_query
  <2> QED
    BY <1>1, <2>3, <2>4 DEF PanicUnless
<1>5. CASE pc' = "panic" /\ submission # "right"
  BY <1>2, <1>3, <1>5, PanicKeeps
<1>6. CASE pc' = After("bloom")
  BY <1>2, <1>3, <1>6, QuietKeeps, AfterQuiet
<1> QED
  BY <1>1, <1>4, <1>5, <1>6 DEF PanicUnless

\* The short document of test_rk_bloom, and the buffer of the random one.
LEMMA RkBloomKeeps ==
    ASSUME TestInv, test_rk_bloom
    PROVE  TestInv'
<1> DEFINE p == SubSeq(digits, 5, 7)
           found == bloom_matches(bf', p, digits)
<1>1. /\ UNCHANGED <<m, n, submission>> /\ doc' = [k \in 1 .. n + 1 |-> NUL] /\ i' = 0
      /\ bf' = student_create(3, digits, SMALL)
      /\ bf1' = rk_create_doc_bloom(3, Len(digits), digits, SMALL)
      /\ PanicUnless(SameBits(bf', bf1') /\ found # {} /\ Min(found) = 4, "generate")
  BY DEF test_rk_bloom, options
<1>2. FilterSize(bf') /\ FilterSize(bf1')
  BY <1>1, RkTestAssumption DEF FilterSize, student_create, rk_create_doc_bloom, bloom_init
<1>3. /\ digits \in Seq(Nat) /\ p \in Seq(Nat) /\ Len(p) = 3 /\ Len(p) # 0
      /\ Occurrences(p, digits) = {4}
  BY Digits
<1> HIDE DEF p
<1>4. ASSUME submission = "right" PROVE pc' = "generate"
  <2>1. bf' = bf1'
    BY <1>1, <1>4, RightCreates
  <2>2. SameBits(bf', bf1')
    BY <2>1 DEF SameBits
  <2>3. found = {4}
    BY <1>1, <1>3, <1>4, RightFindsFiltered
  <2>4. Min({4}) = 4
    BY Counts
  <2> HIDE DEF found
  <2> QED
    BY <1>1, <2>2, <2>3, <2>4 DEF PanicUnless
<1> HIDE DEF found
<1>5. CASE pc' = "panic" /\ submission # "right"
  BY <1>1, <1>2, <1>5, PanicKeeps
<1>6. CASE pc' = "generate"
  <2>1. n \in Nat /\ LengthsInv'
    BY <1>1 DEF TestInv, LengthsInv
  <2>2. doc' \in [1 .. n + 1 -> Nat] /\ doc'[n + 1] = NUL /\ 0 \in 0 .. n /\ 1 .. 0 = {}
    BY <1>1, <2>1 DEF NUL
  <2>3. GeneratedInv'
    BY <1>1, <2>2 DEF GeneratedInv
  <2> QED
    BY <1>1, <1>2, <1>6, <2>1, <2>3 DEF TestInv, TriesInv, RightPasses, FilterSize, Worst
<1> QED
  BY <1>1, <1>4, <1>5, <1>6 DEF PanicUnless

\* A word ends at the end of the document or leaves room for another one.
LEMMA WordFits ==
    ASSUME n \in Nat, i \in 0 .. n, i < n, NEW l \in Nat
    PROVE  /\ WordLen(l) \in 0 .. n - i
           /\ i + WordLen(l) = n \/ i + WordLen(l) + 1 < n
BY DEF WordLen

\* The generator writes inside its buffer.
LEMMA GenerateKeeps ==
    ASSUME TestInv, generate_random_word
    PROVE  TestInv'
<1>1. UNCHANGED <<pc, m, n, submission, bf, bf1, repeated>> /\ pc = "generate" /\ i < n
  BY DEF generate_random_word, options, filters, aux
<1>2. /\ n \in Nat /\ i \in 0 .. n /\ doc \in [1 .. n + 1 -> Nat] /\ doc[n + 1] = NUL
      /\ \A k \in 1 .. i : doc[k] \in Letters
  BY <1>1 DEF TestInv, GeneratedInv, LengthsInv
<1>3. PICK l \in WordLens : \E word \in [1 .. WordLen(l) -> Letters] :
        /\ doc' = [k \in 1 .. Max({n + 1, i + WordLen(l) + 1}) |->
                       IF k \in i + 1 .. i + WordLen(l) THEN word[k - i]
                       ELSE IF k = i + WordLen(l) + 1
                            THEN (IF i + WordLen(l) = n THEN NUL ELSE SPACE)
                       ELSE doc[k]]
        /\ i' = i + WordLen(l)
  BY DEF generate_random_word
<1> DEFINE w == WordLen(l)
<1>4. w \in 0 .. n - i /\ (i + w = n \/ i + w + 1 < n)
  BY <1>1, <1>2, RkTestAssumption, WordFits
<1> HIDE DEF w
<1>5. PICK word \in [1 .. w -> Letters] :
        /\ doc' = [k \in 1 .. Max({n + 1, i + w + 1}) |->
                       IF k \in i + 1 .. i + w THEN word[k - i]
                       ELSE IF k = i + w + 1 THEN (IF i + w = n THEN NUL ELSE SPACE)
                       ELSE doc[k]]
        /\ i' = i + w
  BY <1>3 DEF w
<1>6. Max({n + 1, i + w + 1}) = n + 1
  <2> DEFINE S == {n + 1, i + w + 1}
  <2>1. S \subseteq Int /\ n + 1 \in S /\ \A y \in S : y <= n + 1
    BY <1>2, <1>4
  <2> HIDE DEF S
  <2>2. Max(S) = n + 1
    BY <2>1, MaxIs
  <2> QED
    BY <2>2 DEF S
<1> DEFINE new(k) == IF k \in i + 1 .. i + w THEN word[k - i]
                     ELSE IF k = i + w + 1 THEN (IF i + w = n THEN NUL ELSE SPACE)
                     ELSE doc[k]
<1>7. doc' = [k \in 1 .. n + 1 |-> new(k)]
  BY <1>5, <1>6
<1>8. Letters \subseteq Nat /\ NUL \in Nat /\ SPACE \in Nat
  BY RkTestAssumption DEF NUL, SPACE
<1>9. \A k \in i + 1 .. i + w : new(k) = word[k - i] /\ word[k - i] \in Letters
  <2> TAKE k \in i + 1 .. i + w
  <2>1. k - i \in 1 .. w
    BY <1>2, <1>4
  <2> QED
    BY <2>1
<1>10. \A k \in 1 .. n + 1 : new(k) \in Nat
  <2> TAKE k \in 1 .. n + 1
  <2>1. CASE k \in i + 1 .. i + w
    BY <1>8, <1>9, <2>1
  <2>2. CASE k \notin i + 1 .. i + w
    <3>1. doc[k] \in Nat
      BY <1>2
    <3> QED
      BY <1>8, <2>2, <3>1
  <2> QED
    BY <2>1, <2>2
<1>11. new(n + 1) = NUL
  <2>1. n + 1 \notin i + 1 .. i + w
    BY <1>2, <1>4
  <2> QED
    BY <1>2, <1>4, <2>1
<1>12. \A k \in 1 .. i + w : new(k) \in Letters
  <2> TAKE k \in 1 .. i + w
  <2>1. CASE k \in i + 1 .. i + w
    BY <1>9, <2>1
  <2>2. CASE k \notin i + 1 .. i + w
    <3>1. k \in 1 .. i /\ k # i + w + 1
      BY <1>2, <1>4, <2>2
    <3> QED
      BY <1>2, <2>2, <3>1
  <2> QED
    BY <2>1, <2>2
<1>13. i' \in 0 .. n /\ \A k \in 1 .. i' : k \in 1 .. i + w /\ k \in 1 .. n + 1
  BY <1>2, <1>4, <1>5
<1> HIDE DEF new
<1>14. doc' \in [1 .. n + 1 -> Nat]
  BY <1>7, <1>10
<1>15. doc'[n + 1] = NUL
  <2>1. n + 1 \in 1 .. n + 1
    BY <1>2
  <2> QED
    BY <1>7, <1>11, <2>1
<1>16. \A k \in 1 .. i' : doc'[k] \in Letters
  BY <1>7, <1>12, <1>13
<1>17. GeneratedInv'
  BY <1>1, <1>13, <1>14, <1>15, <1>16 DEF GeneratedInv
<1> QED
  BY <1>1, <1>17 DEF TestInv, LengthsInv, TriesInv, RightPasses, FilterSize, Worst

\* The filters of the random document.
LEMMA FiltersKeep ==
    ASSUME TestInv, DocumentFilters
    PROVE  TestInv'
<1>1. UNCHANGED <<m, n, submission>> /\ pc = "generate" /\ i >= n /\ doc' = SubSeq(doc, 1, n)
  BY DEF DocumentFilters, options
<1>2. /\ n \in Nat /\ i \in 0 .. n /\ doc \in [1 .. n + 1 -> Nat] /\ m \in Nat \ {0}
      /\ \A k \in 1 .. i : doc[k] \in Letters
  BY <1>1 DEF TestInv, GeneratedInv, LengthsInv
<1>3. i = n
  BY <1>1, <1>2
<1>4. doc' \in [1 .. n -> Letters]
  <2>1. doc \in Seq(Nat) /\ Len(doc) = n + 1
    BY <1>2
  <2>2. doc' = [k \in 1 .. n |-> doc[k]]
    BY <1>1, <1>2, <2>1
  <2> QED
    BY <1>2, <1>3, <2>2
<1>5. Len(doc') = n
  BY <1>2, <1>4
<1>6. CASE (10 * n) % 8 # 0
  <2>1. pc' = "abort" /\ UNCHANGED <<bf, bf1>>
    BY <1>6 DEF DocumentFilters
  <2> QED
    BY <1>1, <2>1, QuietKeeps DEF Quiet, TestInv
<1>7. CASE (10 * n) % 8 = 0
  <2>1. /\ bf' = student_create(m, doc', 10 * n) /\ bf1' = rk_create_doc_bloom(m, n, doc', 10 * n)
        /\ PanicUnless(SameBits(bf', bf1'), "tries")
    BY <1>7 DEF DocumentFilters
  <2>2. bf'.bsz = 10 * n /\ bf1'.bsz = 10 * n
    BY <2>1 DEF student_create, rk_create_doc_bloom, bloom_init
  <2>3. FilterSize(bf') /\ FilterSize(bf1')
    <3>1. 10 * n \in Nat
      BY <1>2
    <3> QED
      BY <1>7, <2>2, <3>1 DEF FilterSize
  <2>4. submission = "right" => bf' = bf1'
    BY <1>5, <2>1, RightCreates
  <2>5. submission = "right" => pc' = "tries"
    BY <2>1, <2>4 DEF PanicUnless, SameBits
  <2>6. CASE pc' = "panic" /\ submission # "right"
    BY <1>1, <2>3, <2>6, PanicKeeps
  <2>7. CASE pc' = "tries"
    <3>1. TriesInv'
      BY <1>1, <1>4, <2>1, <2>4 DEF TriesInv
    <3> QED
      BY <1>1, <2>3, <2>7, <3>1 DEF TestInv, LengthsInv, GeneratedInv, RightPasses, FilterSize, Worst
  <2> QED
    BY <2>1, <2>5, <2>6, <2>7 DEF PanicUnless
<1> QED
  BY <1>6, <1>7

\* Letters are codes.
LEMMA LettersAreCodes == Letters \subseteq Nat
BY RkTestAssumption DEF SPACE

\* What the tries find, for a right submission: all matches in the random document.
LEMMA TriesFind ==
    ASSUME TestInv, pc = "tries", submission = "right", NEW p \in Seq(Nat), Len(p) = m
    PROVE  /\ bloom_matches(bf, p, doc) = Occurrences(p, doc)
           /\ Occurrences(p, doc) = {q \in 0 .. n - m : \A k \in 1 .. m : doc[q + k] = p[k]}
<1>1. m \in Nat \ {0} /\ n \in Nat
  BY DEF TestInv, LengthsInv
<1>2. doc \in [1 .. n -> Letters] /\ bf = rk_create_doc_bloom(m, n, doc, 10 * n)
  BY DEF TestInv, TriesInv
<1>3. doc \in [1 .. n -> Nat]
  BY <1>2, LettersAreCodes
<1>4. doc \in Seq(Nat) /\ Len(doc) = n
  BY <1>1, <1>3
<1>5. bf = student_create(Len(p), doc, 10 * n)
  BY <1>2, <1>4, RightCreates
<1>6. Len(p) # 0
  BY <1>1
<1>7. bloom_matches(bf, p, doc) = Occurrences(p, doc)
  BY <1>4, <1>5, <1>6, RightFindsFiltered
<1>8. p \in Seq(Int) /\ doc \in Seq(Int)
  BY <1>4
<1>9. Occurrences(p, doc) =
        {q \in 0 .. Len(doc) - Len(p) : \A k \in 1 .. Len(p) : doc[q + k] = p[k]}
  BY <1>8, OccurrencesAre
<1> QED
  BY <1>4, <1>7, <1>9

\* A try keeps the invariant when its panic is right.
LEMMA TryKeeps ==
    ASSUME TestInv, pc = "tries", UNCHANGED <<m, n, submission, doc, i, bf, bf1>>,
           \/ pc' = pc
           \/ pc' = "panic" /\ (submission = "right" => repeated')
    PROVE  TestInv'
<1>1. FilterSize(bf') /\ FilterSize(bf1') /\ LengthsInv'
  BY DEF TestInv, LengthsInv
<1>2. CASE pc' = "panic" /\ (submission = "right" => repeated')
  BY <1>1, <1>2, PanicKeeps
<1>3. CASE pc' = pc
  BY <1>1, <1>3 DEF TestInv, GeneratedInv, TriesInv, RightPasses, FilterSize, Worst
<1> QED
  BY <1>2, <1>3

\* No random document holds an exclamation mark.
LEMMA MissingKeeps ==
    ASSUME TestInv, TryMissing
    PROVE  TestInv'
<1>1. UNCHANGED <<m, n, submission, doc, i, bf, bf1>> /\ pc = "tries"
  BY DEF TryMissing, options, filters
<1>2. m \in Nat \ {0} /\ n \in Nat /\ doc \in [1 .. n -> Letters]
  BY <1>1 DEF TestInv, LengthsInv, TriesInv
<1>3. PICK word \in [1 .. m - 1 -> Letters] :
        PanicUnless(test_match_at_pos(bloom_matches(bf, Append(word, BANG), doc), -1, 0), pc)
  BY DEF TryMissing
<1> DEFINE p == Append(word, BANG)
<1>4. p \in Seq(Nat) /\ Len(p) = m /\ p[m] = BANG
  <2>1. m - 1 \in Nat /\ BANG \in Nat
    BY <1>2 DEF BANG
  <2>2. word \in [1 .. m - 1 -> Nat]
    BY LettersAreCodes
  <2>3. word \in Seq(Nat) /\ Len(word) = m - 1
    BY <2>1, <2>2
  <2>4. p \in Seq(Nat) /\ Len(p) = Len(word) + 1 /\ p[Len(word) + 1] = BANG
    BY <2>1, <2>3
  <2>5. (m - 1) + 1 = m
    BY <1>2
  <2> QED
    BY <2>3, <2>4, <2>5
<1> HIDE DEF p
<1>5. ASSUME submission = "right" PROVE bloom_matches(bf, p, doc) = {}
  <2>1. /\ bloom_matches(bf, p, doc) = Occurrences(p, doc)
        /\ Occurrences(p, doc) = {q \in 0 .. n - m : \A k \in 1 .. m : doc[q + k] = p[k]}
    BY <1>1, <1>4, <1>5, TriesFind
  <2>2. ASSUME NEW q \in 0 .. n - m, \A k \in 1 .. m : doc[q + k] = p[k] PROVE FALSE
    <3>1. m \in 1 .. m /\ q + m \in 1 .. n
      BY <1>2
    <3>2. doc[q + m] = BANG /\ doc[q + m] \in Letters
      BY <1>2, <1>4, <2>2, <3>1
    <3> QED
      BY <3>2, RkTestAssumption DEF BANG, SPACE
  <2> QED
    BY <2>1, <2>2
<1>6. test_match_at_pos({}, -1, 0)
  BY Counts DEF test_match_at_pos
<1>7. PanicUnless(test_match_at_pos(bloom_matches(bf, p, doc), -1, 0), pc)
  BY <1>3 DEF p
<1>8. pc' = pc \/ (pc' = "panic" /\ submission # "right")
  BY <1>5, <1>6, <1>7 DEF PanicUnless
<1> QED
  BY <1>1, <1>8, TryKeeps

\* A pattern of the document is found where it was taken from, unless it is repeated.
LEMMA PresentKeeps ==
    ASSUME TestInv, TryPresent
    PROVE  TestInv'
<1>1. UNCHANGED <<m, n, submission, doc, i, bf, bf1>> /\ pc = "tries"
  BY DEF TryPresent, options, filters
<1>2. m \in Nat \ {0} /\ n \in Nat /\ doc \in [1 .. n -> Letters]
  BY <1>1 DEF TestInv, LengthsInv, TriesInv
<1>3. PICK pos \in 0 .. n - m - 1 :
        LET p == SubSeq(doc, pos + 1, pos + m)
        IN  /\ PanicUnless(test_match_at_pos(bloom_matches(bf, p, doc), pos, 1), pc)
            /\ repeated' = (repeated \/ Cardinality(Occurrences(p, doc)) > 1)
  BY DEF TryPresent
<1> DEFINE p == SubSeq(doc, pos + 1, pos + m)
           at == Occurrences(p, doc)
<1>4. doc \in Seq(Nat) /\ Len(doc) = n
  <2>1. doc \in [1 .. n -> Nat]
    BY <1>2, LettersAreCodes
  <2> QED
    BY <1>2, <2>1
<1>5. p \in Seq(Nat) /\ Len(p) = m /\ \A k \in 1 .. m : p[k] = doc[pos + k]
  <2>1. pos \in Nat /\ pos + m <= Len(doc)
    BY <1>2, <1>4
  <2> QED
    BY <1>2, <1>4, <2>1, Part
<1>6. /\ PanicUnless(test_match_at_pos(bloom_matches(bf, p, doc), pos, 1), pc)
      /\ repeated' = (repeated \/ Cardinality(at) > 1)
  BY <1>3
<1> HIDE DEF p
<1>7. ASSUME submission = "right", pc' # pc PROVE repeated'
  <2>1. /\ bloom_matches(bf, p, doc) = at
        /\ at = {q \in 0 .. n - m : \A k \in 1 .. m : doc[q + k] = p[k]}
    BY <1>1, <1>5, <1>7, TriesFind
  <2>2. pos \in 0 .. n - m /\ pos \in Int
    BY <1>2
  <2>3. pos \in at /\ at \subseteq 0 .. n - m
    BY <1>5, <2>1, <2>2
  <2>4. IsFiniteSet(at)
    <3>1. IsFiniteSet(0 .. n - m)
      <4>1. 0 \in Int /\ n - m \in Int
        BY <1>2
      <4> QED
        BY <4>1, FS_Interval
    <3> QED
      BY <2>3, <3>1, FS_Subset
  <2> HIDE DEF at
  <2>5. Cardinality(at) \in Nat /\ Cardinality(at) # 0
    BY <2>3, <2>4, FS_CardinalityType, FS_EmptySet
  <2>6. CASE Cardinality(at) = 1
    <3>1. PICK x : at = {x}
      BY <2>4, <2>6, FS_Singleton
    <3>2. at = {pos}
      BY <2>3, <3>1
    <3>3. test_match_at_pos(at, pos, 1)
      BY <2>2, <3>2, Counts DEF test_match_at_pos
    <3> QED
      BY <1>6, <1>7, <2>1, <3>3 DEF PanicUnless
  <2>7. CASE Cardinality(at) # 1
    <3>1. Cardinality(at) > 1
      BY <2>5, <2>7
    <3> QED
      BY <1>6, <3>1
  <2> QED
    BY <2>6, <2>7
<1>8. pc' = pc \/ pc' = "panic"
  BY <1>6 DEF PanicUnless
<1> QED
  BY <1>1, <1>7, <1>8, TryKeeps

\* The invariant of the test, on every submission.
THEOREM TestInvariant == TestSpec => []TestInv
<1>1. ASSUME TestInv, [TestNext]_testVars PROVE TestInv'
  <2> USE <1>1
  <2>1. CASE UNCHANGED testVars
    BY <2>1 DEF testVars, options, filters, aux, TestInv, LengthsInv, GeneratedInv, TriesInv,
                RightPasses, FilterSize, AllA
  <2>2. CASE main
    <3>1. UNCHANGED <<m, n, bf, bf1>> /\ pc' \in {"naive", "rk", "bloom", "rkbloom"}
      BY <2>2 DEF main, filters, WhichTests
    <3> QED
      BY <3>1, QuietKeeps DEF Quiet, TestInv
  <2>3. CASE UnknownTest \/ SameLengths \/ TriesDone
    <3>1. UNCHANGED <<m, n, bf, bf1>> /\ pc' \in {"exit1", "crash", After("rkbloom")}
      BY <2>3 DEF UnknownTest, SameLengths, TriesDone, options, filters
    <3>2. pc' \in Quiet
      BY <3>1, AfterQuiet DEF Quiet
    <3> QED
      BY <3>1, <3>2, QuietKeeps DEF TestInv
  <2>4. CASE WorstDone
    <3>1. UNCHANGED <<m, n, bf, bf1>> /\ pc' \in Quiet
      BY <2>4, AfterQuiet DEF WorstDone, options, filters
    <3> QED
      BY <3>1, QuietKeeps DEF TestInv
  <2>5. CASE test_naive
    BY <2>5, NaiveKeeps
  <2>6. CASE test_rk
    BY <2>6, RkKeeps
  <2>7. CASE WorstCase
    BY <2>7, WorstKeeps
  <2>8. CASE test_bloom
    BY <2>8, BloomKeeps
  <2>9. CASE BloomLarge
    BY <2>9, LargeKeeps
  <2>10. CASE test_rk_bloom
    BY <2>10, RkBloomKeeps
  <2>11. CASE generate_random_word
    BY <2>11, GenerateKeeps
  <2>12. CASE DocumentFilters
    BY <2>12, FiltersKeep
  <2>13. CASE TryMissing
    BY <2>13, MissingKeeps
  <2>14. CASE TryPresent
    BY <2>14, PresentKeeps
  <2> QED
    BY <2>1, <2>2, <2>3, <2>4, <2>5, <2>6, <2>7, <2>8, <2>9, <2>10, <2>11, <2>12, <2>13, <2>14
       DEF TestNext
<1> QED
  BY <1>1, TestInitHolds, PTL DEF TestSpec

\* The tests are fair: a right submission fails only when a random document holds
\* the pattern that is expected once more than once.
THEOREM TestRightPasses == TestSpec => []RightPasses
<1>1. TestInv => RightPasses
  BY DEF TestInv
<1> QED
  BY <1>1, TestInvariant, PTL

\* generate_random_document fills its buffer and stays inside it.
THEOREM TestDocumentIsFull == TestSpec => []DocumentIsFull
<1>1. TestInv => DocumentIsFull
  <2> SUFFICES ASSUME TestInv, pc = "generate"
               PROVE  /\ i <= n /\ Len(doc) = n + 1
                      /\ i = n => doc[n + 1] = NUL /\ \A k \in 1 .. n : doc[k] # NUL
    BY DEF DocumentIsFull
  <2>1. /\ n \in Nat /\ i \in 0 .. n /\ doc \in [1 .. n + 1 -> Nat] /\ doc[n + 1] = NUL
        /\ \A k \in 1 .. i : doc[k] \in Letters
    BY DEF TestInv, GeneratedInv, LengthsInv
  <2>2. Len(doc) = n + 1
    <3> DEFINE N == n + 1
    <3>1. N \in Nat /\ doc \in [1 .. N -> Nat]
      BY <2>1
    <3> HIDE DEF N
    <3>2. Len(doc) = N
      BY <3>1
    <3> QED
      BY <3>2 DEF N
  <2>3. \A k \in 1 .. i : doc[k] # NUL
    BY <2>1, RkTestAssumption DEF NUL
  <2> QED
    BY <2>1, <2>2, <2>3
<1> QED
  BY <1>1, TestInvariant, PTL

-----------------------------------------------------------------------------
(* A wrong h.                                                              *)

\* A round of the worst case at a position other than 0 fails a wrong h.
LEMMA WrongHFails ==
    ASSUME NoAccident, TestInv, <<m, n>> \in Lengths, submission = "wrong_h", pc = "rk_worst",
           NEW pos \in 1 .. n - m - 1
    PROVE  LET d == [doc EXCEPT ![pos + m] = B]
               p == SubSeq(d, pos + 1, pos + m)
           IN  ~test_match_at_pos(rk_matches(p, d), pos, 1)
<1> DEFINE d == [AllA EXCEPT ![pos + m] = B]
           p == SubSeq(d, pos + 1, pos + m)
           e == [k \in 1 .. n |-> IF k = pos + m THEN B ELSE A]
           hs == Windows(m, n, d, rkhash_h(m - 1))
<1>1. doc = AllA /\ m \in Nat \ {0} /\ n \in Nat /\ m <= n
  BY DEF TestInv, LengthsInv, Worst
<1>2. d = e
  BY DEF AllA
<1>3. Windows(m, n, e, rkhash_h(m - 1))[pos] # rkhash_init(SubSeq(e, pos + 1, pos + m))
  <2>1. <<m, n>>[1] = m /\ <<m, n>>[2] = n
    OBVIOUS
  <2> QED
    BY <2>1 DEF NoAccident
<1>4. pos \in 0 .. n - m - 1
  OBVIOUS
<1>5. d \in Seq(Nat) /\ Occurrences(p, d) = {pos}
  BY <1>4, OneB DEF TestInv
<1>6. Len(d) = n
  BY <1>1, <1>2
<1>7. Len(p) = m
  <2>1. pos \in Nat /\ pos + m <= Len(d)
    BY <1>1, <1>6
  <2> HIDE DEF d
  <2> QED
    BY <1>1, <1>5, <2>1, Part
<1>8. hs[pos] # rkhash_init(p)
  BY <1>2, <1>3
<1> HIDE DEF d, p
<1>9. rk_matches(p, d) = {q \in {pos} : hs[q] = rkhash_init(p)}
  BY <1>5, <1>6, <1>7 DEF rk_matches, StudentH
<1>10. rk_matches(p, d) = {}
  BY <1>8, <1>9
<1>11. ~test_match_at_pos({}, pos, 1)
  BY DEF test_match_at_pos
<1> QED
  BY <1>1, <1>10, <1>11 DEF d, p

WrongInv == <<m, n>> \in Lengths /\ WrongHCaught

\* A wrong h is caught by the first search of test_rk away from position 0.
THEOREM TestWrongHCaught ==
    ASSUME NoAccident
    PROVE  TestSpec => []WrongHCaught
<1>1. TestInit => WrongInv
  <2> SUFFICES ASSUME TestInit PROVE WrongInv
    OBVIOUS
  <2>1. PICK l \in Lengths : m = l[1] /\ n = l[2]
    BY DEF TestInit
  <2>2. l \in Nat \X Nat
    BY RkTestAssumption
  <2>3. l = <<m, n>>
    BY <2>1, <2>2
  <2> QED
    BY <2>3 DEF WrongInv, WrongHCaught, TestInit
<1>2. ASSUME TestInv, WrongInv, [TestNext]_testVars PROVE WrongInv'
  <2>1. UNCHANGED <<m, n, submission>>
    BY <1>2 DEF TestNext, main, UnknownTest, test_naive, test_rk, WorstCase, SameLengths, WorstDone,
                test_bloom, BloomLarge, test_rk_bloom, generate_random_word, DocumentFilters,
                TryMissing, TryPresent, TriesDone, testVars, options
  <2>2. CASE WorstCase
    <3> SUFFICES ASSUME submission = "wrong_h", pc' # "panic" PROVE drawn' \subseteq {0}
      BY <1>2, <2>1 DEF WrongInv, WrongHCaught
    <3>1. PICK pos \in 0 .. n - m - 1 :
            LET d == [doc EXCEPT ![pos + m] = B]
                p == SubSeq(d, pos + 1, pos + m)
                found == IF pc = "rk_worst" THEN rk_matches(p, d) ELSE Occurrences(p, d)
            IN  /\ PanicUnless(test_match_at_pos(found, pos, 1), pc)
                /\ drawn' = IF pc = "rk_worst" THEN drawn \cup {pos} ELSE drawn
      BY <2>2 DEF WorstCase
    <3>2. drawn \subseteq {0}
      BY <1>2, <2>2 DEF WrongInv, WrongHCaught, WorstCase, Worst
    <3>3. CASE pc = "rk_worst" /\ pos # 0
      <4>1. pos \in 1 .. n - m - 1
        BY <1>2, <3>3 DEF TestInv, LengthsInv
      <4> QED
        BY <1>2, <3>1, <3>3, <4>1, WrongHFails DEF PanicUnless, WrongInv
    <3>4. CASE pc # "rk_worst" \/ pos = 0
      BY <3>1, <3>2, <3>4
    <3> QED
      BY <3>3, <3>4
  <2>3. CASE WorstDone
    BY <1>2, <2>1, <2>3 DEF WorstDone, WrongInv, WrongHCaught
  <2>4. CASE UNCHANGED testVars
    BY <1>2, <2>1, <2>4 DEF testVars, aux, WrongInv, WrongHCaught
  <2>5. CASE ~WorstCase /\ ~WorstDone /\ ~UNCHANGED testVars
    <3>1. drawn' = drawn /\ pc # "panic"
      BY <1>2, <2>5 DEF TestNext, main, UnknownTest, test_naive, test_rk, SameLengths,
                test_bloom, BloomLarge, test_rk_bloom, generate_random_word, DocumentFilters,
                TryMissing, TryPresent, TriesDone, aux, Worst
    <3> QED
      BY <1>2, <2>1, <3>1 DEF WrongInv, WrongHCaught
  <2> QED
    BY <2>2, <2>3, <2>4, <2>5
<1>3. WrongInv => WrongHCaught
  BY DEF WrongInv
<1> QED
  BY <1>1, <1>2, <1>3, TestInvariant, PTL DEF TestSpec

-----------------------------------------------------------------------------
(* The comparison of two filters bit by bit.                               *)

\* The weights of the bits of a byte.
Weights == [w \in 0 .. 7 |-> 2 ^ (7 - w)]

\* What they are.
LEMMA WeightsAre ==
    /\ \A w \in 0 .. 7 : Weights[w] \in Nat
    /\ Weights[0] = 128 /\ Weights[1] = 64 /\ Weights[2] = 32 /\ Weights[3] = 16
    /\ Weights[4] = 8 /\ Weights[5] = 4 /\ Weights[6] = 2 /\ Weights[7] = 1
<1>1. /\ 2 ^ (7 - 0) = 128 /\ 2 ^ (7 - 1) = 64 /\ 2 ^ (7 - 2) = 32 /\ 2 ^ (7 - 3) = 16
      /\ 2 ^ (7 - 4) = 8 /\ 2 ^ (7 - 5) = 4 /\ 2 ^ (7 - 6) = 2 /\ 2 ^ (7 - 7) = 1
  OBVIOUS
<1>2. /\ Weights[0] = 128 /\ Weights[1] = 64 /\ Weights[2] = 32 /\ Weights[3] = 16
      /\ Weights[4] = 8 /\ Weights[5] = 4 /\ Weights[6] = 2 /\ Weights[7] = 1
  BY <1>1 DEF Weights
<1>3. \A w \in 0 .. 7 : w \in {0, 1, 2, 3, 4, 5, 6, 7}
  OBVIOUS
<1> QED
  BY <1>2, <1>3

\* A byte is a signed char.
LEMMA ByteRange ==
    ASSUME NEW f, NEW b
    PROVE  Byte(f, b) \in -128 .. 127
<1> DEFINE sum(S) == SumFunctionOnSet(Weights, S)
           ones == {w \in 0 .. 7 : 8 * b + w \in f.bits}
<1>1. \A k \in 0 .. 8 : IsFiniteSet(k .. 7)
  BY FS_Interval
<1>2. \A k \in 0 .. 8 : sum(k .. 7) \in Nat
  <2> TAKE k \in 0 .. 8
  <2>1. \A x \in k .. 7 : Weights[x] \in Nat
    BY WeightsAre
  <2> QED
    BY <1>1, <2>1, SumNat
<1>3. \A k \in 0 .. 7 : sum(k .. 7) = Weights[k] + sum(k + 1 .. 7)
  <2> TAKE k \in 0 .. 7
  <2>1. \A x \in k .. 7 : Weights[x] \in Int
    BY WeightsAre
  <2>2. k \in k .. 7 /\ (k .. 7) \ {k} = k + 1 .. 7 /\ k \in 0 .. 8
    OBVIOUS
  <2>3. sum(k .. 7) = Weights[k] + sum((k .. 7) \ {k})
    <3> DEFINE S == k .. 7
               g == Weights
    <3>1. IsFiniteSet(S) /\ \A x \in S : g[x] \in Int
      BY <1>1, <2>1, <2>2
    <3> HIDE DEF S, g
    <3>2. \A x \in S : SumFunctionOnSet(g, S) = g[x] + SumFunctionOnSet(g, S \ {x})
      BY <3>1, SumRemove
    <3> QED
      BY <2>2, <3>2 DEF S, g
  <2> QED
    BY <2>2, <2>3
<1>4. sum(8 .. 7) = 0
  <2>1. 8 .. 7 = {}
    OBVIOUS
  <2> QED
    BY <2>1, SumEmpty
<1>5. ones \in SUBSET (0 .. 7) /\ IsFiniteSet(0 .. 7) /\ \A x \in 0 .. 7 : Weights[x] \in Nat
  BY <1>1, WeightsAre
<1> HIDE DEF ones
<1>6. sum(ones) <= sum(0 .. 7)
  BY <1>5, SumSubset
<1>7. sum(ones) \in Nat
  <2>1. IsFiniteSet(ones) /\ \A x \in ones : Weights[x] \in Nat
    BY <1>5, FS_Subset
  <2> QED
    BY <2>1, SumNat
<1> HIDE DEF sum
<1>8. /\ sum(0 .. 7) = Weights[0] + sum(1 .. 7) /\ sum(1 .. 7) = Weights[1] + sum(2 .. 7)
      /\ sum(2 .. 7) = Weights[2] + sum(3 .. 7) /\ sum(3 .. 7) = Weights[3] + sum(4 .. 7)
      /\ sum(4 .. 7) = Weights[4] + sum(5 .. 7) /\ sum(5 .. 7) = Weights[5] + sum(6 .. 7)
      /\ sum(6 .. 7) = Weights[6] + sum(7 .. 7) /\ sum(7 .. 7) = Weights[7] + sum(8 .. 7)
  BY <1>3
<1>9. sum(0 .. 7) = 255
  BY <1>4, <1>8, WeightsAre
<1>10. Byte(f, b) = IF sum(ones) >= 128 THEN sum(ones) - 256 ELSE sum(ones)
  BY DEF Byte, sum, ones, Weights
<1> QED
  BY <1>6, <1>7, <1>9, <1>10

\* What bloom_bit_at_pos sees of a byte at each of its bits.
Reaches(v, q) == v < 0 \/ v >= <<128, 32, 8, 2, 1, 1, 1, 1>>[q + 1]

\* The shifts, bit by bit.
LEMMA Shifted ==
    ASSUME NEW v \in -128 .. 127, NEW q \in 0 .. 7
    PROVE  ((v * 2 ^ q) \div 2 ^ (7 - q)) # 0 <=> Reaches(v, q)
<1>1. CASE q = 0
  <2>1. 2 ^ q = 1 /\ 2 ^ (7 - q) = 128
    BY <1>1
  <2>2. Reaches(v, q) <=> v < 0 \/ v >= 128
    BY <1>1 DEF Reaches
  <2> QED
    BY <2>1, <2>2
<1>2. CASE q = 1
  <2>1. 2 ^ q = 2 /\ 2 ^ (7 - q) = 64
    BY <1>2
  <2>2. Reaches(v, q) <=> v < 0 \/ v >= 32
    BY <1>2 DEF Reaches
  <2> QED
    BY <2>1, <2>2
<1>3. CASE q = 2
  <2>1. 2 ^ q = 4 /\ 2 ^ (7 - q) = 32
    BY <1>3
  <2>2. Reaches(v, q) <=> v < 0 \/ v >= 8
    BY <1>3 DEF Reaches
  <2> QED
    BY <2>1, <2>2
<1>4. CASE q = 3
  <2>1. 2 ^ q = 8 /\ 2 ^ (7 - q) = 16
    BY <1>4
  <2>2. Reaches(v, q) <=> v < 0 \/ v >= 2
    BY <1>4 DEF Reaches
  <2> QED
    BY <2>1, <2>2
<1>5. CASE q = 4
  <2>1. 2 ^ q = 16 /\ 2 ^ (7 - q) = 8
    BY <1>5
  <2>2. Reaches(v, q) <=> v < 0 \/ v >= 1
    BY <1>5 DEF Reaches
  <2> QED
    BY <2>1, <2>2
<1>6. CASE q = 5
  <2>1. 2 ^ q = 32 /\ 2 ^ (7 - q) = 4
    BY <1>6
  <2>2. Reaches(v, q) <=> v < 0 \/ v >= 1
    BY <1>6 DEF Reaches
  <2> QED
    BY <2>1, <2>2
<1>7. CASE q = 6
  <2>1. 2 ^ q = 64 /\ 2 ^ (7 - q) = 2
    BY <1>7
  <2>2. Reaches(v, q) <=> v < 0 \/ v >= 1
    BY <1>7 DEF Reaches
  <2> QED
    BY <2>1, <2>2
<1>8. CASE q = 7
  <2>1. 2 ^ q = 128 /\ 2 ^ (7 - q) = 1
    BY <1>8
  <2>2. Reaches(v, q) <=> v < 0 \/ v >= 1
    BY <1>8 DEF Reaches
  <2> QED
    BY <2>1, <2>2
<1>9. q \in {0, 1, 2, 3, 4, 5, 6, 7}
  OBVIOUS
<1> QED
  BY <1>1, <1>2, <1>3, <1>4, <1>5, <1>6, <1>7, <1>8, <1>9

\* What bloom_bit_at_pos tells apart in a byte: whether it is negative, and which
\* of 1, 2, 8 and 32 it reaches.
Class(byte) == IF byte < 0 THEN -1 ELSE Cardinality({t \in {1, 2, 8, 32} : byte >= t})

\* The class of a byte counts the thresholds.
LEMMA ClassIs ==
    ASSUME NEW v \in -128 .. 127
    PROVE  Class(v) = IF v < 0 THEN -1 ELSE IF v < 1 THEN 0 ELSE IF v < 2 THEN 1
                      ELSE IF v < 8 THEN 2 ELSE IF v < 32 THEN 3 ELSE 4
<1> DEFINE S == {t \in {1, 2, 8, 32} : v >= t}
<1>1. Cardinality({}) = 0
  BY FS_EmptySet
<1>2. Cardinality({1}) = 1 /\ IsFiniteSet({1})
  BY FS_Singleton
<1>3. Cardinality({1, 2}) = 2 /\ IsFiniteSet({1, 2})
  <2>1. {1, 2} = {1} \cup {2} /\ 2 \notin {1}
    OBVIOUS
  <2> QED
    BY <1>2, <2>1, FS_AddElement
<1>4. Cardinality({1, 2, 8}) = 3 /\ IsFiniteSet({1, 2, 8})
  <2>1. {1, 2, 8} = {1, 2} \cup {8} /\ 8 \notin {1, 2}
    OBVIOUS
  <2> QED
    BY <1>3, <2>1, FS_AddElement
<1>5. Cardinality({1, 2, 8, 32}) = 4
  <2>1. {1, 2, 8, 32} = {1, 2, 8} \cup {32} /\ 32 \notin {1, 2, 8}
    OBVIOUS
  <2> QED
    BY <1>4, <2>1, FS_AddElement
<1>6. Class(v) = IF v < 0 THEN -1 ELSE Cardinality(S)
  BY DEF Class
<1>7. ~(v < 0) => S = IF v < 1 THEN {} ELSE IF v < 2 THEN {1} ELSE IF v < 8 THEN {1, 2}
                      ELSE IF v < 32 THEN {1, 2, 8} ELSE {1, 2, 8, 32}
  <2> SUFFICES ASSUME ~(v < 0)
               PROVE  S = IF v < 1 THEN {} ELSE IF v < 2 THEN {1} ELSE IF v < 8 THEN {1, 2}
                          ELSE IF v < 32 THEN {1, 2, 8} ELSE {1, 2, 8, 32}
    OBVIOUS
  <2>1. CASE v < 1
    BY <2>1
  <2>2. CASE ~(v < 1) /\ v < 2
    BY <2>2
  <2>3. CASE ~(v < 2) /\ v < 8
    BY <2>3
  <2>4. CASE ~(v < 8) /\ v < 32
    BY <2>4
  <2>5. CASE ~(v < 32)
    BY <2>5
  <2> QED
    BY <2>1, <2>2, <2>3, <2>4, <2>5
<1> HIDE DEF S
<1> QED
  BY <1>1, <1>2, <1>3, <1>4, <1>5, <1>6, <1>7

\* Two bytes look the same at all of their bits exactly when they are of one class.
LEMMA SameClass ==
    ASSUME NEW v \in -128 .. 127, NEW w \in -128 .. 127
    PROVE  (\A q \in 0 .. 7 : Reaches(v, q) <=> Reaches(w, q)) <=> Class(v) = Class(w)
<1>1. ASSUME NEW u
      PROVE  /\ Reaches(u, 0) <=> (u < 0 \/ u >= 128)
             /\ Reaches(u, 1) <=> (u < 0 \/ u >= 32)
             /\ Reaches(u, 2) <=> (u < 0 \/ u >= 8)
             /\ Reaches(u, 3) <=> (u < 0 \/ u >= 2)
             /\ Reaches(u, 4) <=> (u < 0 \/ u >= 1)
             /\ Reaches(u, 5) <=> (u < 0 \/ u >= 1)
             /\ Reaches(u, 6) <=> (u < 0 \/ u >= 1)
             /\ Reaches(u, 7) <=> (u < 0 \/ u >= 1)
  BY DEF Reaches
<1>2. \A q \in 0 .. 7 : q \in {0, 1, 2, 3, 4, 5, 6, 7}
  OBVIOUS
<1> DEFINE Alike == /\ v < 0 <=> w < 0
                    /\ (v < 0 \/ v >= 32) <=> (w < 0 \/ w >= 32)
                    /\ (v < 0 \/ v >= 8) <=> (w < 0 \/ w >= 8)
                    /\ (v < 0 \/ v >= 2) <=> (w < 0 \/ w >= 2)
                    /\ (v < 0 \/ v >= 1) <=> (w < 0 \/ w >= 1)
<1>3. ASSUME \A q \in 0 .. 7 : Reaches(v, q) <=> Reaches(w, q) PROVE Alike
  <2>1. /\ Reaches(v, 0) <=> Reaches(w, 0)
        /\ Reaches(v, 1) <=> Reaches(w, 1)
        /\ Reaches(v, 2) <=> Reaches(w, 2)
        /\ Reaches(v, 3) <=> Reaches(w, 3)
        /\ Reaches(v, 4) <=> Reaches(w, 4)
    BY <1>3
  <2>2. ~(v >= 128) /\ ~(w >= 128)
    OBVIOUS
  <2> QED
    BY <1>1, <2>1, <2>2
<1>4. ASSUME Alike, NEW q \in 0 .. 7 PROVE Reaches(v, q) <=> Reaches(w, q)
  <2>1. ~(v >= 128) /\ ~(w >= 128)
    OBVIOUS
  <2> QED
    BY <1>1, <1>2, <1>4, <2>1
<1>5. Alike <=> Class(v) = Class(w)
  BY ClassIs
<1> HIDE DEF Alike
<1> QED
  BY <1>3, <1>4, <1>5

BitsComparedByClass ==
    bf.bsz = bf1.bsz =>
        (SameBits(bf, bf1) <=>
            \A k \in 0 .. bf.bsz \div 8 - 1 : Class(Byte(bf, k)) = Class(Byte(bf1, k)))

\* The bit-by-bit comparison accepts a filter exactly when each byte is of the class
\* of the reference's, whatever bits the two filters hold.
THEOREM TestBitsComparedByClass == TestSpec => []BitsComparedByClass
<1>1. TestInv => BitsComparedByClass
  <2> SUFFICES ASSUME TestInv, bf.bsz = bf1.bsz
               PROVE  SameBits(bf, bf1) <=>
                        \A k \in 0 .. bf.bsz \div 8 - 1 : Class(Byte(bf, k)) = Class(Byte(bf1, k))
    BY DEF BitsComparedByClass
  <2> DEFINE N == bf.bsz
             K == N \div 8
             V(k) == Byte(bf, k)
             W(k) == Byte(bf1, k)
  <2>1. N \in Nat /\ N % 8 = 0
    BY DEF TestInv, FilterSize
  <2>2. K \in Nat /\ N = 8 * K
    BY <2>1
  <2>3. \A k : V(k) \in -128 .. 127 /\ W(k) \in -128 .. 127
    BY ByteRange
  <2>4. ASSUME NEW pos \in Nat
        PROVE  /\ bloom_bit_at_pos(bf, pos) <=> Reaches(V(pos \div 8), pos % 8)
               /\ bloom_bit_at_pos(bf1, pos) <=> Reaches(W(pos \div 8), pos % 8)
               /\ bloom_bit_at_pos(bf, pos) \in BOOLEAN /\ bloom_bit_at_pos(bf1, pos) \in BOOLEAN
    <3>1. pos % 8 \in 0 .. 7
      OBVIOUS
    <3> QED
      BY <2>3, <3>1, Shifted, Zenon DEF bloom_bit_at_pos
  <2> HIDE DEF N, K, V, W
  <2>5. ASSUME \A k \in 0 .. K - 1 : Class(V(k)) = Class(W(k)), NEW pos \in 0 .. N - 1
        PROVE  bloom_bit_at_pos(bf, pos) = bloom_bit_at_pos(bf1, pos)
    <3>1. pos \in Nat /\ pos \div 8 \in 0 .. K - 1 /\ pos % 8 \in 0 .. 7
      BY <2>2
    <3> DEFINE b == pos \div 8
               q == pos % 8
    <3>2. /\ V(b) \in -128 .. 127 /\ W(b) \in -128 .. 127 /\ Class(V(b)) = Class(W(b))
          /\ q \in 0 .. 7
      BY <2>3, <2>5, <3>1
    <3>3. Reaches(V(b), q) <=> Reaches(W(b), q)
      <4> HIDE DEF b, q
      <4> QED
        BY <3>2, SameClass
    <3> QED
      BY <2>4, <3>1, <3>3
  <2>6. ASSUME \A pos \in 0 .. N - 1 : bloom_bit_at_pos(bf, pos) = bloom_bit_at_pos(bf1, pos),
               NEW k \in 0 .. K - 1
        PROVE  Class(V(k)) = Class(W(k))
    <3>1. ASSUME NEW q \in 0 .. 7 PROVE Reaches(V(k), q) <=> Reaches(W(k), q)
      <4>1. /\ 8 * k + q \in 0 .. N - 1 /\ 8 * k + q \in Nat
            /\ (8 * k + q) \div 8 = k /\ (8 * k + q) % 8 = q
        BY <2>2
      <4>2. bloom_bit_at_pos(bf, 8 * k + q) = bloom_bit_at_pos(bf1, 8 * k + q)
        BY <2>6, <4>1
      <4>3. /\ bloom_bit_at_pos(bf, 8 * k + q) <=> Reaches(V(k), q)
            /\ bloom_bit_at_pos(bf1, 8 * k + q) <=> Reaches(W(k), q)
        BY <2>4, <4>1
      <4> QED
        BY <4>2, <4>3
    <3> QED
      BY <2>3, <3>1, SameClass
  <2>7. SameBits(bf, bf1) <=>
          \A pos \in 0 .. N - 1 : bloom_bit_at_pos(bf, pos) = bloom_bit_at_pos(bf1, pos)
    BY DEF SameBits, N
  <2>8. SameBits(bf, bf1) <=> \A k \in 0 .. K - 1 : Class(V(k)) = Class(W(k))
    BY <2>5, <2>6, <2>7
  <2> QED
    BY <2>8 DEF N, K, V, W
<1> QED
  BY <1>1, TestInvariant, PTL

=============================================================================
