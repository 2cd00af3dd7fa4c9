------------------------------ MODULE BloomProofs ---------------------------
(***************************************************************************)
(* The hash of rkgrep.c and the filter of bloom.c, for every PRIME, RADIX  *)
(* and text without a negative char: the rolled hashes are the hashes of   *)
(* the windows, and the filter of a document holds each of them.           *)
(***************************************************************************)
EXTENDS Bloom, Collections

-----------------------------------------------------------------------------
(* Congruence modulo PRIME.                                                *)

Cong(x, y) == \E q \in Int : x = y + q * PRIME

\* It is an equivalence,
LEMMA CongRefl ==
    ASSUME NEW x \in Int
    PROVE  Cong(x, x)
<1>1. x = x + 0 * PRIME
  BY RkHashAssumption
<1> QED
  BY <1>1 DEF Cong

\* symmetric
LEMMA CongSym ==
    ASSUME NEW x \in Int, NEW y \in Int, Cong(x, y)
    PROVE  Cong(y, x)
<1>1. PICK q \in Int : x = y + q * PRIME
  BY DEF Cong
<1>2. y = x + (-q) * PRIME /\ -q \in Int
  BY <1>1, RkHashAssumption
<1> QED
  BY <1>2 DEF Cong

\* and transitive,
LEMMA CongTrans ==
    ASSUME NEW x \in Int, NEW y \in Int, NEW z \in Int, Cong(x, y), Cong(y, z)
    PROVE  Cong(x, z)
<1>1. PICK q \in Int : x = y + q * PRIME
  BY DEF Cong
<1>2. PICK r \in Int : y = z + r * PRIME
  BY DEF Cong
<1>3. x = z + (q + r) * PRIME /\ q + r \in Int
  BY <1>1, <1>2, RkHashAssumption
<1> QED
  BY <1>3 DEF Cong

\* and agrees with addition
LEMMA CongAdd ==
    ASSUME NEW a \in Int, NEW b \in Int, NEW c \in Int, NEW d \in Int, Cong(a, b), Cong(c, d)
    PROVE  Cong(a + c, b + d)
<1>1. PICK q \in Int : a = b + q * PRIME
  BY DEF Cong
<1>2. PICK r \in Int : c = d + r * PRIME
  BY DEF Cong
<1>3. a + c = (b + d) + (q + r) * PRIME /\ q + r \in Int
  BY <1>1, <1>2, RkHashAssumption
<1> QED
  BY <1>3 DEF Cong

\* and multiplication.
LEMMA CongTimes ==
    ASSUME NEW a \in Int, NEW b \in Int, NEW c \in Int, Cong(a, b)
    PROVE  Cong(a * c, b * c)
<1>1. PICK q \in Int : a = b + q * PRIME
  BY DEF Cong
<1>2. a * c = b * c + (q * c) * PRIME /\ q * c \in Int
  BY <1>1, RkHashAssumption
<1> QED
  BY <1>2 DEF Cong

\* Two residues that are congruent are equal.
LEMMA CongResidues ==
    ASSUME NEW x \in 0 .. PRIME - 1, NEW y \in 0 .. PRIME - 1, Cong(x, y)
    PROVE  x = y
<1>1. PICK q \in Int : x = y + q * PRIME
  BY DEF Cong
<1>2. ~(q >= 1) /\ ~(q <= -1)
  BY <1>1, RkHashAssumption
<1> QED
  BY <1>1, <1>2, RkHashAssumption

\* The % of a number that is not negative is its residue.
LEMMA CModResidue ==
    ASSUME NEW x \in Nat
    PROVE  CMod(x, PRIME) \in 0 .. PRIME - 1 /\ Cong(CMod(x, PRIME), x)
<1> DEFINE q == x \div PRIME
           r == x % PRIME
<1>1. PRIME \in Nat /\ PRIME > 1
  BY RkHashAssumption
<1>2. q \in Int /\ r \in 0 .. PRIME - 1 /\ x = PRIME * q + r
  BY <1>1
<1>3. CMod(x, PRIME) = r
  BY DEF CMod
<1> HIDE DEF q, r
<1>4. r = x + (-q) * PRIME /\ -q \in Int
  BY <1>1, <1>2
<1> QED
  BY <1>2, <1>3, <1>4 DEF Cong

\* The difference of two residues.
LEMMA MsubResidue ==
    ASSUME NEW a \in 0 .. PRIME - 1, NEW b \in 0 .. PRIME - 1
    PROVE  msub(a, b) \in Nat /\ Cong(msub(a, b), a - b)
<1>1. PRIME \in Nat /\ PRIME > 1
  BY RkHashAssumption
<1>2. CASE a > b
  <2>1. msub(a, b) = a - b
    BY <1>2 DEF msub
  <2> QED
    BY <1>1, <1>2, <2>1, CongRefl
<1>3. CASE ~(a > b)
  <2>1. msub(a, b) = a + PRIME - b
    BY <1>3 DEF msub
  <2>2. msub(a, b) = (a - b) + 1 * PRIME /\ msub(a, b) \in Nat
    BY <1>1, <2>1
  <2> QED
    BY <2>2 DEF Cong
<1> QED
  BY <1>2, <1>3

-----------------------------------------------------------------------------
(* The hash of a string of characters that are not negative.               *)

Residues == 0 .. PRIME - 1

\* g holds the hashes of the beginnings of s.
Digests(s, g) ==
    /\ g \in [0 .. Len(s) -> Residues]
    /\ g[0] = 0
    /\ \A k \in 1 .. Len(s) : Cong(g[k], g[k - 1] * RADIX + s[k])

\* The recursion of rkhash_init.
HashTable(s, g) ==
    g = [k \in 0 .. Len(s) |->
            IF k = 0 THEN 0
            ELSE [sum \in Int |-> madd(mmul(sum, RADIX), s[k])][g[k - 1]]]

\* rkhash_init in terms of it.
LEMMA InitIsTable ==
    ASSUME NEW s
    PROVE  rkhash_init(s) = (CHOOSE g : HashTable(s, g))[Len(s)]
BY DEF rkhash_init, HashTable

\* One step of it.
LEMMA HashStep ==
    ASSUME NEW x \in Residues, NEW c \in Nat
    PROVE  /\ madd(mmul(x, RADIX), c) \in Residues
           /\ Cong(madd(mmul(x, RADIX), c), x * RADIX + c)
<1>1. x * RADIX \in Nat /\ x \in Int
  BY RkHashAssumption DEF Residues
<1>2. mmul(x, RADIX) \in Residues /\ Cong(mmul(x, RADIX), x * RADIX)
  BY <1>1, CModResidue DEF mmul, Residues
<1> DEFINE y == mmul(x, RADIX)
           z == x * RADIX
<1>3. y + c \in Nat /\ y \in Int /\ z \in Int /\ z + c \in Int
  BY <1>1, <1>2, RkHashAssumption DEF Residues
<1>4. Cong(y, z) /\ madd(y, c) = CMod(y + c, PRIME)
  BY <1>2 DEF madd
<1> HIDE DEF y, z
<1>5. madd(y, c) \in Residues /\ Cong(madd(y, c), y + c)
  BY <1>3, <1>4, CModResidue DEF Residues
<1>6. Cong(y + c, z + c)
  BY <1>3, <1>4, CongAdd, CongRefl
<1>7. madd(y, c) \in Int
  BY <1>5, RkHashAssumption DEF Residues
<1>8. Cong(madd(y, c), z + c)
  BY <1>3, <1>5, <1>6, <1>7, CongTrans
<1> QED
  BY <1>5, <1>8 DEF y, z

\* rkhash_init computes a table of hashes.
LEMMA InitDigests ==
    ASSUME NEW s \in Seq(Nat)
    PROVE  \E g : Digests(s, g) /\ rkhash_init(s) = g[Len(s)]
<1> DEFINE N == Len(s)
           step == [x \in (1 .. N) \X Residues |-> madd(mmul(x[2], RADIX), s[x[1]])]
<1>1. N \in Nat /\ \A k \in 1 .. N : s[k] \in Nat
  BY LenProperties, ElementOfSeq
<1>2. \A k \in 1 .. N : \A v \in Residues :
        /\ madd(mmul(v, RADIX), s[k]) \in Residues
        /\ Cong(madd(mmul(v, RADIX), s[k]), v * RADIX + s[k])
  BY <1>1, HashStep
<1>3. step \in [(1 .. N) \X Residues -> Residues]
  BY <1>2
<1>4. \A k \in 1 .. N : \A v \in Residues : step[<<k, v>>] = madd(mmul(v, RADIX), s[k])
  OBVIOUS
<1>5. 0 \in Residues /\ Residues \subseteq Int
  BY RkHashAssumption DEF Residues
<1> HIDE DEF step, N
<1>6. PICK g \in [0 .. N -> Residues] : Recursion(g, N, 0, step)
  BY <1>1, <1>3, <1>5, RecursionExists
<1>7. g[0] = 0
  BY <1>6 DEF Recursion
<1>8. ASSUME NEW k \in 1 .. N
      PROVE  g[k - 1] \in Residues /\ g[k] = madd(mmul(g[k - 1], RADIX), s[k])
  <2>1. k - 1 \in 0 .. N
    BY <1>1
  <2>2. g[k - 1] \in Residues
    BY <2>1
  <2>3. g[k] = step[<<k, g[k - 1]>>]
    BY <1>6 DEF Recursion
  <2> QED
    BY <1>4, <2>2, <2>3, Zenon
<1>9. HashTable(s, g)
  <2>1. ASSUME NEW k \in 1 .. N
        PROVE  g[k] = [sum \in Int |-> madd(mmul(sum, RADIX), s[k])][g[k - 1]]
    <3>1. g[k - 1] \in Int
      BY <1>5, <1>8
    <3> QED
      BY <1>8, <3>1, Zenon
  <2>2. \A k \in 0 .. N : k = 0 \/ k \in 1 .. N
    BY <1>1
  <2> DEFINE rhs == [k \in 0 .. N |->
                        IF k = 0 THEN 0
                        ELSE [sum \in Int |-> madd(mmul(sum, RADIX), s[k])][g[k - 1]]]
  <2>3. \A k \in 0 .. N : g[k] = rhs[k]
    BY <1>7, <2>1, <2>2, Zenon
  <2>4. g = rhs
    BY <2>3
  <2> QED
    BY <2>4 DEF HashTable, N
<1>10. \A f : HashTable(s, f) => f = g
  <2> SUFFICES ASSUME NEW f, HashTable(s, f) PROVE f = g
    OBVIOUS
  <2> DEFINE G == {k \in 0 .. N : f[k] = g[k]}
  <2>1. f = [k \in 0 .. N |->
                IF k = 0 THEN 0
                ELSE [sum \in Int |-> madd(mmul(sum, RADIX), s[k])][f[k - 1]]]
    BY DEF HashTable, N
  <2>2. 0 \in G
    BY <1>1, <1>7, <2>1
  <2>3. ASSUME NEW k \in 1 .. N, k - 1 \in G PROVE k \in G
    <3>a. f[k - 1] = g[k - 1] /\ k \in 0 .. N /\ k # 0
      BY <1>1, <2>3
    <3>b. g[k - 1] \in Int
      BY <1>5, <1>8, Zenon
    <3>1. f[k - 1] = g[k - 1] /\ g[k - 1] \in Int /\ k \in 0 .. N /\ k # 0
      BY <3>a, <3>b
    <3>2. f[k] = [sum \in Int |-> madd(mmul(sum, RADIX), s[k])][f[k - 1]]
      BY <2>1, <3>1, Zenon
    <3>3. f[k] = g[k]
      BY <1>8, <3>1, <3>2, Zenon
    <3> QED
      BY <3>1, <3>3
  <2> HIDE DEF G
  <2>4. 0 .. N \subseteq G
    BY <1>1, <2>2, <2>3, IntervalInduction
  <2>5. \A k \in 0 .. N : f[k] = g[k]
    BY <2>4 DEF G
  <2>6. f = [k \in 0 .. N |-> f[k]]
    BY <2>1
  <2> QED
    BY <2>5, <2>6
<1>11. (CHOOSE f : HashTable(s, f)) = g
  BY <1>9, <1>10
<1>12. rkhash_init(s) = g[Len(s)]
  BY <1>11, InitIsTable
<1>13. Digests(s, g)
  BY <1>2, <1>7, <1>8 DEF Digests, N
<1> QED
  BY <1>12, <1>13

\* The powers of RADIX that rkhash_h multiplies up.
Powers(m, h) ==
    /\ h \in [0 .. m -> Residues]
    /\ h[0] = 1
    /\ \A k \in 1 .. m : Cong(h[k], h[k - 1] * RADIX)

PowerTable(m, h) == h = [k \in 0 .. m |-> IF k = 0 THEN 1 ELSE mmul(h[k - 1], RADIX)]

\* rkhash_h in terms of it.
LEMMA HIsTable ==
    ASSUME NEW m
    PROVE  rkhash_h(m) = (CHOOSE h : PowerTable(m, h))[m]
BY DEF rkhash_h, PowerTable

\* rkhash_h computes them.
LEMMA HPowers ==
    ASSUME NEW m \in Nat
    PROVE  \E h : Powers(m, h) /\ rkhash_h(m) = h[m]
<1> DEFINE step == [x \in (1 .. m) \X Residues |-> mmul(x[2], RADIX)]
<1>1. \A v \in Residues : mmul(v, RADIX) \in Residues /\ Cong(mmul(v, RADIX), v * RADIX)
  <2>1. \A v \in Residues : v * RADIX \in Nat
    BY RkHashAssumption DEF Residues
  <2> QED
    BY <2>1, CModResidue DEF mmul, Residues
<1>2. step \in [(1 .. m) \X Residues -> Residues]
  BY <1>1
<1>3. \A k \in 1 .. m : \A v \in Residues : step[<<k, v>>] = mmul(v, RADIX)
  OBVIOUS
<1>4. 1 \in Residues
  BY RkHashAssumption DEF Residues
<1> HIDE DEF step
<1>5. PICK h \in [0 .. m -> Residues] : Recursion(h, m, 1, step)
  BY <1>2, <1>4, RecursionExists
<1>6. h[0] = 1
  BY <1>5 DEF Recursion
<1>7. ASSUME NEW k \in 1 .. m
      PROVE  h[k - 1] \in Residues /\ h[k] = mmul(h[k - 1], RADIX)
  <2>1. k - 1 \in 0 .. m
    OBVIOUS
  <2>2. h[k - 1] \in Residues
    BY <2>1
  <2>3. h[k] = step[<<k, h[k - 1]>>]
    BY <1>5 DEF Recursion
  <2> QED
    BY <1>3, <2>2, <2>3, Zenon
<1>8. PowerTable(m, h)
  <2>1. \A k \in 0 .. m : k = 0 \/ k \in 1 .. m
    OBVIOUS
  <2> DEFINE rhs == [k \in 0 .. m |-> IF k = 0 THEN 1 ELSE mmul(h[k - 1], RADIX)]
  <2>2. \A k \in 0 .. m : h[k] = rhs[k]
    BY <1>6, <1>7, <2>1, Zenon
  <2>3. h = rhs
    BY <2>2
  <2> QED
    BY <2>3 DEF PowerTable
<1>9. ASSUME NEW f, PowerTable(m, f) PROVE f = h
  <2> DEFINE G == {k \in 0 .. m : f[k] = h[k]}
  <2>1. f = [k \in 0 .. m |-> IF k = 0 THEN 1 ELSE mmul(f[k - 1], RADIX)]
    BY <1>9 DEF PowerTable
  <2>2. 0 \in G
    BY <1>6, <2>1
  <2>3. ASSUME NEW k \in 1 .. m, k - 1 \in G PROVE k \in G
    <3>1. f[k - 1] = h[k - 1] /\ k \in 0 .. m /\ k # 0
      BY <2>3
    <3>2. f[k] = mmul(f[k - 1], RADIX)
      BY <2>1, <3>1, Zenon
    <3>3. f[k] = h[k]
      BY <1>7, <3>1, <3>2, Zenon
    <3> QED
      BY <3>1, <3>3
  <2> HIDE DEF G
  <2>4. 0 .. m \subseteq G
    BY <2>2, <2>3, IntervalInduction
  <2>5. \A k \in 0 .. m : f[k] = h[k]
    BY <2>4 DEF G
  <2>6. f = [k \in 0 .. m |-> f[k]]
    BY <2>1
  <2> QED
    BY <2>5, <2>6
<1>10. (CHOOSE f : PowerTable(m, f)) = h
  BY <1>8, <1>9
<1>11. rkhash_h(m) = h[m]
  BY <1>10, HIsTable
<1>12. Powers(m, h)
  BY <1>1, <1>6, <1>7 DEF Powers
<1> QED
  BY <1>11, <1>12

-----------------------------------------------------------------------------
(* Rolling.                                                                *)

\* What the leftmost character of s contributes to its hashes: t is s without it.
LEMMA Leftmost ==
    ASSUME NEW m \in Nat \ {0}, NEW s \in Seq(Nat), NEW t \in Seq(Nat),
           Len(s) = m, Len(t) = m, \A k \in 1 .. m - 1 : t[k] = s[k + 1],
           NEW gs, Digests(s, gs), NEW gt, Digests(t, gt), NEW h, Powers(m, h)
    PROVE  Cong(gs[m], s[1] * h[m - 1] + gt[m - 1])
<1> DEFINE c == s[1]
           G == {k \in 0 .. m - 1 : Cong(gs[k + 1], c * h[k] + gt[k])}
<1>1. Residues \subseteq Int /\ RADIX \in Int /\ m - 1 \in Nat
  BY RkHashAssumption DEF Residues
<1>2. \A k \in 1 .. m : s[k] \in Nat /\ t[k] \in Nat
  BY ElementOfSeq
<1>3. \A k \in 0 .. m : gs[k] \in Int /\ gt[k] \in Int /\ h[k] \in Int
  BY <1>1 DEF Digests, Powers
<1>4. c \in Int
  BY <1>2
<1> HIDE DEF c
<1>5. 0 \in G
  <2>1. Cong(gs[1], gs[0] * RADIX + s[1]) /\ gs[0] = 0 /\ gt[0] = 0 /\ h[0] = 1
    BY DEF Digests, Powers
  <2>2. gs[0] * RADIX + s[1] = c * h[0] + gt[0]
    BY <1>1, <1>4, <2>1 DEF c
  <2>3. Cong(gs[0 + 1], c * h[0] + gt[0])
    BY <2>1, <2>2
  <2> QED
    BY <1>1, <2>3
<1>6. ASSUME NEW k \in 1 .. m - 1, k - 1 \in G PROVE k \in G
  <2>1. /\ k \in 1 .. m /\ k + 1 \in 1 .. m /\ k - 1 \in 0 .. m /\ (k + 1) - 1 = k
        /\ (k - 1) + 1 = k /\ k \in 0 .. m - 1
    OBVIOUS
  <2>2. Cong(gs[k], c * h[k - 1] + gt[k - 1])
    BY <1>6, <2>1
  <2>3. Cong(gs[k + 1], gs[k] * RADIX + s[k + 1])
    BY <2>1 DEF Digests
  <2>4. Cong(h[k], h[k - 1] * RADIX)
    BY <2>1 DEF Powers
  <2>5. Cong(gt[k], gt[k - 1] * RADIX + s[k + 1])
    BY <2>1 DEF Digests
  <2> DEFINE a == gs[k]  a1 == gs[k + 1]  b == gt[k - 1]  b1 == gt[k]
             p == h[k - 1]  p1 == h[k]  d == s[k + 1]
  <2>6. /\ a \in Int /\ a1 \in Int /\ b \in Int /\ b1 \in Int /\ p \in Int /\ p1 \in Int
        /\ d \in Int
    BY <1>2, <1>3, <2>1
  <2>7. /\ Cong(a, c * p + b) /\ Cong(a1, a * RADIX + d) /\ Cong(p1, p * RADIX)
        /\ Cong(b1, b * RADIX + d)
    BY <2>2, <2>3, <2>4, <2>5
  <2> HIDE DEF a, a1, b, b1, p, p1, d
  <2>8. Cong(a1, c * p1 + b1)
    <3>1. /\ c * p + b \in Int /\ (c * p + b) * RADIX \in Int /\ a * RADIX \in Int
          /\ a * RADIX + d \in Int /\ p * RADIX \in Int /\ p1 * c \in Int
          /\ b * RADIX + d \in Int /\ (p * RADIX) * c \in Int
      BY <1>1, <1>4, <2>6
    <3>2. Cong(a * RADIX, (c * p + b) * RADIX)
      BY <1>1, <2>6, <2>7, <3>1, CongTimes
    <3>3. Cong(a * RADIX + d, (c * p + b) * RADIX + d)
      BY <2>6, <3>1, <3>2, CongAdd, CongRefl
    <3>4. Cong(p1 * c, (p * RADIX) * c)
      BY <1>4, <2>6, <2>7, <3>1, CongTimes
    <3>5. Cong(p1 * c + b1, (p * RADIX) * c + (b * RADIX + d))
      BY <2>6, <2>7, <3>1, <3>4, CongAdd
    <3>6. (p * RADIX) * c + (b * RADIX + d) = (c * p + b) * RADIX + d
      BY <1>1, <1>4, <2>6
    <3>7. p1 * c + b1 = c * p1 + b1
      BY <1>4, <2>6
    <3> DEFINE x == a * RADIX + d  y == (c * p + b) * RADIX + d  z == c * p1 + b1
    <3>8. x \in Int /\ y \in Int /\ z \in Int
      BY <1>1, <1>4, <2>6, <3>1
    <3>9. Cong(a1, x) /\ Cong(x, y) /\ Cong(z, y)
      BY <2>7, <3>3, <3>5, <3>6, <3>7
    <3> HIDE DEF x, y, z
    <3>10. Cong(a1, z)
      BY <2>6, <3>8, <3>9, CongTrans, CongSym
    <3> QED
      BY <3>10 DEF z
  <2>9. Cong(gs[k + 1], c * h[k] + gt[k])
    BY <2>8 DEF a1, p1, b1
  <2> QED
    BY <2>1, <2>9
<1> HIDE DEF G
<1>7. 0 .. m - 1 \subseteq G
  BY <1>1, <1>5, <1>6, IntervalInduction
<1>8. m - 1 \in G /\ (m - 1) + 1 = m
  BY <1>1, <1>7
<1> QED
  BY <1>8 DEF G, c

\* Differences of congruent numbers are congruent.
LEMMA CongSub ==
    ASSUME NEW a \in Int, NEW b \in Int, NEW c \in Int, NEW d \in Int, Cong(a, b), Cong(c, d)
    PROVE  Cong(a - c, b - d)
<1>1. PICK q \in Int : a = b + q * PRIME
  BY DEF Cong
<1>2. PICK r \in Int : c = d + r * PRIME
  BY DEF Cong
<1>3. a - c = (b - d) + (q - r) * PRIME /\ q - r \in Int
  BY <1>1, <1>2, RkHashAssumption
<1> QED
  BY <1>3 DEF Cong

\* rkhash_next is right: it turns the hash of a window into the hash of the next one,
\* also where msub meets equal arguments and yields PRIME.
LEMMA Rolls ==
    ASSUME NEW m \in Nat \ {0}, NEW s \in Seq(Nat), NEW t \in Seq(Nat),
           Len(s) = m, Len(t) = m, \A k \in 1 .. m - 1 : t[k] = s[k + 1]
    PROVE  rkhash_next(rkhash_init(s), rkhash_h(m), s[1], t[m]) = rkhash_init(t)
<1>1. PICK gs : Digests(s, gs) /\ rkhash_init(s) = gs[m]
  BY InitDigests
<1>2. PICK gt : Digests(t, gt) /\ rkhash_init(t) = gt[m]
  BY InitDigests
<1>3. PICK h : Powers(m, h) /\ rkhash_h(m) = h[m]
  BY HPowers
<1>4. Cong(gs[m], s[1] * h[m - 1] + gt[m - 1])
  BY <1>1, <1>2, <1>3, Leftmost
<1>5. Cong(h[m], h[m - 1] * RADIX) /\ Cong(gt[m], gt[m - 1] * RADIX + t[m])
  BY <1>2, <1>3 DEF Powers, Digests
<1> DEFINE c == s[1]  r == t[m]  H == gs[m]  b == gt[m - 1]  T == gt[m]
           p == h[m - 1]  P == h[m]
<1>6. c \in Nat /\ r \in Nat
  BY ElementOfSeq
<1>7. H \in Residues /\ b \in Residues /\ T \in Residues /\ p \in Residues /\ P \in Residues
  <2>1. m \in 0 .. m /\ m - 1 \in 0 .. m
    OBVIOUS
  <2> QED
    BY <1>1, <1>2, <1>3, <2>1 DEF Digests, Powers
<1>8. Cong(H, c * p + b) /\ Cong(P, p * RADIX) /\ Cong(T, b * RADIX + r)
  BY <1>4, <1>5
<1>9. rkhash_init(s) = H /\ rkhash_init(t) = T /\ rkhash_h(m) = P
  BY <1>1, <1>2, <1>3
<1> HIDE DEF c, r, H, b, T, p, P
<1>10. Residues \subseteq Nat /\ RADIX \in Nat /\ PRIME \in Nat
  BY RkHashAssumption DEF Residues
<1> DEFINE A == mmul(H, RADIX)  B == mmul(c, P)  M == msub(A, B)  N == madd(M, r)
<1>11. A \in Residues /\ Cong(A, H * RADIX)
  <2>1. H * RADIX \in Nat
    BY <1>7, <1>10
  <2> QED
    BY <2>1, CModResidue DEF mmul, Residues
<1>12. B \in Residues /\ Cong(B, c * P)
  <2>1. c * P \in Nat
    BY <1>6, <1>7, <1>10
  <2> QED
    BY <2>1, CModResidue DEF mmul, Residues
<1> HIDE DEF A, B
<1>13. M \in Nat /\ Cong(M, A - B)
  BY <1>11, <1>12, MsubResidue DEF Residues
<1> HIDE DEF M
<1>14. N \in Residues /\ Cong(N, M + r)
  <2>1. M + r \in Nat
    BY <1>6, <1>13
  <2> QED
    BY <2>1, CModResidue DEF madd, Residues
<1> HIDE DEF N
<1>15. /\ c \in Int /\ r \in Int /\ H \in Int /\ b \in Int /\ T \in Int /\ p \in Int /\ P \in Int
       /\ A \in Int /\ B \in Int /\ M \in Int /\ N \in Int /\ RADIX \in Int
  BY <1>6, <1>7, <1>10, <1>11, <1>12, <1>13, <1>14
<1>16. Cong(N, T)
  <2> DEFINE v == c * p + b
             hr == H * RADIX
             vr == v * RADIX
             cp == c * P
             cq == (p * RADIX) * c
             br == b * RADIX
  <2>1. v \in Int /\ hr \in Int /\ vr \in Int /\ cp \in Int /\ cq \in Int /\ br \in Int
    BY <1>15
  <2>2. Cong(hr, vr)
    BY <1>8, <1>15, <2>1, CongTimes
  <2>3. Cong(cp, cq)
    <3>1. p * RADIX \in Int /\ P * c = cp
      BY <1>15
    <3>2. Cong(P * c, cq)
      BY <1>8, <1>15, <3>1, CongTimes
    <3> QED
      BY <3>1, <3>2
  <2>4. vr - cq = br
    BY <1>15
  <2>5. Cong(A, hr) /\ Cong(B, cp) /\ Cong(T, br + r)
    BY <1>8, <1>11, <1>12
  <2> HIDE DEF v, hr, vr, cp, cq, br
  <2>6. Cong(A, vr) /\ Cong(B, cq)
    BY <1>15, <2>1, <2>2, <2>3, <2>5, CongTrans
  <2>7. Cong(A - B, br) /\ A - B \in Int
    BY <1>15, <2>1, <2>4, <2>6, CongSub
  <2>8. Cong(M, br)
    BY <1>13, <1>15, <2>1, <2>7, CongTrans
  <2>r. Cong(r, r)
    BY <1>15, CongRefl
  <2>9. Cong(M + r, br + r) /\ M + r \in Int /\ br + r \in Int
    BY <1>15, <2>1, <2>8, <2>r, CongAdd
  <2>10. Cong(N, br + r)
    BY <1>14, <1>15, <2>9, CongTrans
  <2>11. Cong(br + r, T)
    BY <1>15, <2>5, <2>9, CongSym
  <2> QED
    BY <1>15, <2>9, <2>10, <2>11, CongTrans
<1>17. N = T
  BY <1>7, <1>14, <1>16, CongResidues DEF Residues
<1>18. rkhash_next(H, P, c, r) = N
  BY DEF rkhash_next, N, M, A, B
<1> QED
  BY <1>9, <1>17, <1>18 DEF c, r

\* The recursion of Windows.
WindowTable(m, len, text, h, f) ==
    f = [w \in 0 .. Max({0, len - m}) |->
            IF w = 0 THEN rkhash_init(SubSeq(text, 1, m))
            ELSE [curr_hash \in Int |-> rkhash_next(curr_hash, h, text[w], text[w + m])][f[w - 1]]]

\* Windows in terms of it.
LEMMA WindowsIsTable ==
    ASSUME NEW m, NEW len, NEW text, NEW h
    PROVE  Windows(m, len, text, h) = CHOOSE f : WindowTable(m, len, text, h, f)
BY DEF Windows, WindowTable

\* A window of a text whose first len characters are not negative.
LEMMA WindowType ==
    ASSUME NEW m \in Nat \ {0}, NEW len \in Nat, NEW text \in Seq(Int), len <= Len(text),
           \A k \in 1 .. len : text[k] \in Nat, NEW w \in 0 .. len - m
    PROVE  /\ SubSeq(text, w + 1, w + m) \in Seq(Nat)
           /\ Len(SubSeq(text, w + 1, w + m)) = m
           /\ \A k \in 1 .. m : SubSeq(text, w + 1, w + m)[k] = text[w + k]
<1>1. Len(text) \in Nat
  BY LenProperties
<1>2. /\ w + 1 \in 1 .. Len(text) + 1 /\ w + m \in 0 .. Len(text) /\ (w + m) - (w + 1) + 1 = m
      /\ w + 1 \in Nat /\ w + m \in Nat
  BY <1>1
<1> DEFINE u == SubSeq(text, w + 1, w + m)
<1>3. u = [k \in 1 .. m |-> text[w + k]]
  <2>1. u = [k \in 1 .. (w + m) - (w + 1) + 1 |-> text[(w + 1) + k - 1]]
    OBVIOUS
  <2>2. \A k \in 1 .. m : (w + 1) + k - 1 = w + k
    OBVIOUS
  <2> QED
    BY <1>2, <2>1, <2>2
<1>4. \A k \in 1 .. m : text[w + k] \in Nat
  <2> TAKE k \in 1 .. m
  <2>1. w + k \in 1 .. len
    OBVIOUS
  <2> QED
    BY <2>1
<1>5. u \in [1 .. m -> Nat]
  BY <1>3, <1>4
<1>6. u \in Seq(Nat) /\ Len(u) = m
  BY <1>3, <1>5
<1> QED
  BY <1>3, <1>6

\* The hashes that are rolled over a document are the hashes of its windows.
LEMMA WindowHashes ==
    ASSUME NEW m \in Nat \ {0}, NEW len \in Nat, m <= len, NEW text \in Seq(Int), len <= Len(text),
           \A k \in 1 .. len : text[k] \in Nat
    PROVE  Windows(m, len, text, rkhash_h(m)) =
               [w \in 0 .. len - m |-> rkhash_init(SubSeq(text, w + 1, w + m))]
<1> DEFINE W(w) == SubSeq(text, w + 1, w + m)
           g == [w \in 0 .. len - m |-> rkhash_init(W(w))]
           h == rkhash_h(m)
           step(w, x) == rkhash_next(x, h, text[w], text[w + m])
<1>1. Max({0, len - m}) = len - m
  <2>1. {0, len - m} \subseteq Int /\ len - m \in {0, len - m} /\ \A y \in {0, len - m} : y <= len - m
    OBVIOUS
  <2> QED
    BY <2>1, MaxIs
<1>2. \A w \in 0 .. len - m :
        W(w) \in Seq(Nat) /\ Len(W(w)) = m /\ \A k \in 1 .. m : W(w)[k] = text[w + k]
  BY WindowType
<1>3. \A w \in 0 .. len - m : rkhash_init(W(w)) \in Int
  <2> TAKE w \in 0 .. len - m
  <2>1. W(w) \in Seq(Nat) /\ Len(W(w)) = m
    BY <1>2
  <2> HIDE DEF W
  <2>2. PICK d : Digests(W(w), d) /\ rkhash_init(W(w)) = d[m]
    BY <2>1, InitDigests
  <2>3. d[m] \in Residues
    BY <2>1, <2>2 DEF Digests
  <2> QED
    BY <2>2, <2>3, RkHashAssumption DEF Residues
<1>4. ASSUME NEW w \in 1 .. len - m
      PROVE  g[w - 1] \in Int /\ g[w] = step(w, g[w - 1])
  <2>1. w - 1 \in 0 .. len - m /\ w \in 0 .. len - m
    OBVIOUS
  <2>2. /\ W(w - 1) \in Seq(Nat) /\ Len(W(w - 1)) = m
        /\ W(w) \in Seq(Nat) /\ Len(W(w)) = m
    BY <1>2, <2>1, Zenon
  <2>3. \A k \in 1 .. m : W(w - 1)[k] = text[(w - 1) + k] /\ W(w)[k] = text[w + k]
    BY <1>2, <2>1, Zenon
  <2>4. g[w - 1] = rkhash_init(W(w - 1)) /\ g[w] = rkhash_init(W(w)) /\ g[w - 1] \in Int
    BY <1>3, <2>1, Zenon
  <2> DEFINE a == W(w - 1)  b == W(w)
  <2>5. a \in Seq(Nat) /\ Len(a) = m /\ b \in Seq(Nat) /\ Len(b) = m
    BY <2>2
  <2>6. \A k \in 1 .. m : a[k] = text[(w - 1) + k] /\ b[k] = text[w + k]
    BY <2>3
  <2>7. g[w - 1] = rkhash_init(a) /\ g[w] = rkhash_init(b)
    BY <2>4
  <2> HIDE DEF a, b, W, g
  <2>8. ASSUME NEW k \in 1 .. m - 1 PROVE b[k] = a[k + 1]
    <3>1. k \in 1 .. m /\ k + 1 \in 1 .. m /\ (w - 1) + (k + 1) = w + k
      OBVIOUS
    <3> QED
      BY <2>6, <3>1
  <2>9. a[1] = text[w] /\ b[m] = text[w + m]
    <3>1. 1 \in 1 .. m /\ m \in 1 .. m /\ (w - 1) + 1 = w
      OBVIOUS
    <3> QED
      BY <2>6, <3>1
  <2>10. rkhash_next(rkhash_init(a), rkhash_h(m), a[1], b[m]) = rkhash_init(b)
    BY <2>5, <2>8, Rolls
  <2> QED
    BY <2>4, <2>7, <2>9, <2>10
<1>5. g[0] = rkhash_init(SubSeq(text, 1, m))
  <2>1. 0 \in 0 .. len - m /\ 0 + 1 = 1 /\ 0 + m = m
    OBVIOUS
  <2> QED
    BY <2>1
<1>6. DOMAIN g = 0 .. len - m
  OBVIOUS
<1>7. WindowTable(m, len, text, h, g)
  <2> DEFINE rhs == [w \in 0 .. len - m |->
                        IF w = 0 THEN rkhash_init(SubSeq(text, 1, m))
                        ELSE [curr_hash \in Int |-> step(w, curr_hash)][g[w - 1]]]
  <2> HIDE DEF g
  <2>1. \A w \in 0 .. len - m : w = 0 \/ w \in 1 .. len - m
    OBVIOUS
  <2>2. ASSUME NEW w \in 0 .. len - m PROVE g[w] = rhs[w]
    <3>1. CASE w = 0
      BY <1>5, <3>1
    <3>2. CASE w \in 1 .. len - m
      <4>1. g[w - 1] \in Int /\ g[w] = step(w, g[w - 1]) /\ w # 0
        BY <1>4, <3>2
      <4>2. [curr_hash \in Int |-> step(w, curr_hash)][g[w - 1]] = step(w, g[w - 1])
        BY <4>1, Zenon
      <4> QED
        BY <4>1, <4>2, Zenon
    <3> QED
      BY <2>1, <3>1, <3>2
  <2>3. g = [w \in 0 .. len - m |-> g[w]]
    BY DEF g
  <2>4. g = rhs
    BY <2>2, <2>3, Zenon
  <2> QED
    BY <1>1, <2>4 DEF WindowTable
<1>8. ASSUME NEW f, WindowTable(m, len, text, h, f) PROVE f = g
  <2> DEFINE G == {w \in 0 .. len - m : f[w] = g[w]}
  <2> HIDE DEF g
  <2>1. f = [w \in 0 .. len - m |->
                IF w = 0 THEN rkhash_init(SubSeq(text, 1, m))
                ELSE [curr_hash \in Int |-> step(w, curr_hash)][f[w - 1]]]
    BY <1>1, <1>8 DEF WindowTable
  <2>2. 0 \in G
    BY <1>5, <2>1
  <2>3. ASSUME NEW w \in 1 .. len - m, w - 1 \in G PROVE w \in G
    <3>1. f[w - 1] = g[w - 1] /\ w \in 0 .. len - m /\ w # 0
      BY <2>3
    <3>2. f[w] = [curr_hash \in Int |-> step(w, curr_hash)][f[w - 1]]
      BY <2>1, <3>1, Zenon
    <3>3. g[w - 1] \in Int /\ g[w] = step(w, g[w - 1])
      BY <1>4
    <3>4. [curr_hash \in Int |-> step(w, curr_hash)][g[w - 1]] = step(w, g[w - 1])
      BY <3>3, Zenon
    <3>5. f[w] = g[w]
      BY <3>1, <3>2, <3>3, <3>4
    <3> QED
      BY <3>1, <3>5
  <2> HIDE DEF G
  <2>4. len - m \in Nat
    OBVIOUS
  <2>5. 0 .. len - m \subseteq G
    BY <2>2, <2>3, <2>4, IntervalInduction
  <2>6. \A w \in 0 .. len - m : f[w] = g[w]
    BY <2>5 DEF G
  <2>7. f = [w \in 0 .. len - m |-> f[w]]
    BY <2>1
  <2>8. g = [w \in 0 .. len - m |-> g[w]]
    BY DEF g
  <2> QED
    BY <2>6, <2>7, <2>8, Zenon
<1> HIDE DEF g
<1>9. (CHOOSE f : WindowTable(m, len, text, h, f)) = g
  BY <1>7, <1>8
<1>10. Windows(m, len, text, h) = g
  BY <1>9, WindowsIsTable
<1> QED
  BY <1>10 DEF g

-----------------------------------------------------------------------------
(* Matches and the filter.                                                 *)

\* The positions of a pattern in a text.
LEMMA OccurrencesAre ==
    ASSUME NEW s \in Seq(Int), NEW p \in Seq(Int)
    PROVE  Occurrences(p, s) =
               {pos \in 0 .. Len(s) - Len(p) : \A k \in 1 .. Len(p) : s[pos + k] = p[k]}
<1>1. Len(s) \in Nat /\ Len(p) \in Nat /\ DOMAIN p = 1 .. Len(p)
  BY LenProperties
<1>2. ASSUME NEW pos \in 0 .. Len(s) - Len(p)
      PROVE  SubSeq(s, pos + 1, pos + Len(p)) = p <=> \A k \in 1 .. Len(p) : s[pos + k] = p[k]
  <2> DEFINE u == SubSeq(s, pos + 1, pos + Len(p))
             n == Len(p)
  <2>1. /\ u = [k \in 1 .. (pos + n) - (pos + 1) + 1 |-> s[(pos + 1) + k - 1]]
        /\ (pos + n) - (pos + 1) + 1 = n
    BY <1>1
  <2>2. \A k \in 1 .. n : (pos + 1) + k - 1 = pos + k
    BY <1>1
  <2>3. u = [k \in 1 .. n |-> s[pos + k]]
    BY <2>1, <2>2
  <2>4. p = [k \in 1 .. n |-> p[k]]
    BY <1>1
  <2> HIDE DEF u, n
  <2>5. u = p <=> \A k \in 1 .. n : s[pos + k] = p[k]
    BY <2>3, <2>4
  <2> QED
    BY <2>5 DEF u, n
<1> QED
  BY <1>2 DEF Occurrences

\* A filter holds the hash of each of its windows.
LEMMA FilterHolds ==
    ASSUME NEW m, NEW len, NEW text, NEW size,
           NEW hash \in Range(Windows(m, len, text, rkhash_h(m)))
    PROVE  bloom_query(rk_create_doc_bloom(m, len, text, size), hash)
<1> DEFINE empty == bloom_init(size)
           R == Range(Windows(m, len, text, rkhash_h(m)))
           U == UNION {bloom_add(empty, x).bits : x \in R}
<1>1. empty = [bsz |-> size, bits |-> {}]
  BY DEF bloom_init
<1>2. rk_create_doc_bloom(m, len, text, size) = [empty EXCEPT !.bits = U]
  BY DEF rk_create_doc_bloom
<1> HIDE DEF R, U
<1>3. /\ rk_create_doc_bloom(m, len, text, size).bsz = size
      /\ rk_create_doc_bloom(m, len, text, size).bits = U
  BY <1>1, <1>2
<1>4. bloom_add(empty, hash).bits = Positions(hash, size)
  BY <1>1 DEF bloom_add
<1>5. hash \in R
  BY DEF R
<1>6. Positions(hash, size) \subseteq U
  BY <1>4, <1>5 DEF U
<1> QED
  BY <1>3, <1>6 DEF bloom_query

=============================================================================
