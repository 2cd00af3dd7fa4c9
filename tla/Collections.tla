---------------------------- MODULE Collections -----------------------------
(***************************************************************************)
(* Lemmas about numbers, sums over finite sets and sequences that the      *)
(* proofs of several components need.                                      *)
(***************************************************************************)
EXTENDS SequencesExt, FiniteSetTheorems, SequenceTheorems, NaturalsInduction,
        WellFoundedInduction, TLAPS

-----------------------------------------------------------------------------
(* Induction, by a least counterexample.                                   *)

\* A set of naturals that is not empty has a least element.
LEMMA LeastNat ==
    ASSUME NEW S, S \subseteq Nat, S # {}
    PROVE  \E x \in S : \A y \in S : x <= y
<1>1. PICK x \in S : \A y \in S : ~(<<y, x>> \in OpToRel(<, Nat))
  BY NatLessThanWellFounded, WFMin
<1>2. \A y \in S : ~(y < x)
  BY <1>1, Zenon DEF OpToRel
<1> QED
  BY <1>2

\* A set that holds 0 and n + 1 with n holds every natural.
LEMMA CountingInduction ==
    ASSUME NEW G, 0 \in G, \A n \in Nat : n \in G => n + 1 \in G
    PROVE  Nat \subseteq G
<1> SUFFICES ASSUME Nat \ G # {} PROVE FALSE
  OBVIOUS
<1>1. PICK x \in Nat \ G : \A y \in Nat \ G : x <= y
  BY LeastNat
<1>2. x # 0 /\ x - 1 \in Nat /\ x - 1 \in G
  BY <1>1
<1> QED
  BY <1>1, <1>2

\* A set that holds 0 and n with n - 1, up to a bound, holds the interval.
LEMMA IntervalInduction ==
    ASSUME NEW N \in Nat, NEW G, 0 \in G, \A n \in 1 .. N : n - 1 \in G => n \in G
    PROVE  0 .. N \subseteq G
<1> DEFINE H == {n \in Nat : n \in 0 .. N => n \in G}
<1>1. 0 \in H
  OBVIOUS
<1>2. ASSUME NEW n \in Nat, n \in H PROVE n + 1 \in H
  <2>1. n + 1 \in 0 .. N => n \in 0 .. N /\ n + 1 \in 1 .. N /\ (n + 1) - 1 = n
    OBVIOUS
  <2> QED
    BY <1>2, <2>1
<1> HIDE DEF H
<1>3. Nat \subseteq H
  BY <1>1, <1>2, CountingInduction
<1> QED
  BY <1>3 DEF H

\* The function that starts with a and makes a step at each number up to N.
Recursion(f, N, a, step) ==
    f[0] = a /\ \A n \in 1 .. N : f[n] = step[<<n, f[n - 1]>>]

\* It exists when the steps stay in a set.
LEMMA RecursionExists ==
    ASSUME NEW N \in Nat, NEW V, NEW a \in V, NEW step \in [(1 .. N) \X V -> V]
    PROVE  \E f \in [0 .. N -> V] : Recursion(f, N, a, step)
<1> DEFINE Upto(k) == \E f \in [0 .. N -> V] :
                        f[0] = a /\ \A n \in 1 .. k : f[n] = step[<<n, f[n - 1]>>]
           G == {k \in 0 .. N : Upto(k)}
<1>1. 0 \in G
  <2> DEFINE f == [n \in 0 .. N |-> a]
  <2>1. f \in [0 .. N -> V] /\ f[0] = a /\ 0 \in 0 .. N /\ 1 .. 0 = {}
    OBVIOUS
  <2> HIDE DEF f
  <2> QED
    BY <2>1
<1>2. ASSUME NEW k \in 1 .. N, k - 1 \in G PROVE k \in G
  <2>1. PICK f \in [0 .. N -> V] :
          f[0] = a /\ \A n \in 1 .. k - 1 : f[n] = step[<<n, f[n - 1]>>]
    BY <1>2
  <2> DEFINE g == [f EXCEPT ![k] = step[<<k, f[k - 1]>>]]
  <2>2. f[k - 1] \in V /\ step[<<k, f[k - 1]>>] \in V
    OBVIOUS
  <2>3. g \in [0 .. N -> V] /\ g[0] = a /\ g[k] = step[<<k, f[k - 1]>>]
        /\ \A n \in 0 .. N : n # k => g[n] = f[n]
    BY <2>1, <2>2
  <2> HIDE DEF g
  <2>4. ASSUME NEW n \in 1 .. k PROVE g[n] = step[<<n, g[n - 1]>>]
    <3>1. g[n - 1] = f[n - 1]
      BY <2>3
    <3>2. CASE n = k
      BY <2>3, <3>1, <3>2
    <3>3. CASE n # k
      BY <2>1, <2>3, <3>1, <3>3
    <3> QED
      BY <3>2, <3>3
  <2>5. Upto(k)
    BY <2>3, <2>4
  <2> HIDE DEF Upto
  <2> QED
    BY <2>5
<1> HIDE DEF G
<1>3. 0 .. N \subseteq G
  BY <1>1, <1>2, IntervalInduction
<1>4. N \in G
  BY <1>3
<1> QED
  BY <1>4 DEF G, Recursion

\* A family of sets that holds a subset of S whenever it holds all its proper
\* subsets holds S, when S is finite.
LEMMA SubsetInduction ==
    ASSUME NEW S, IsFiniteSet(S), NEW G,
           \A T \in SUBSET S : (\A U \in SUBSET T : U # T => U \in G) => T \in G
    PROVE  SUBSET S \subseteq G
<1> DEFINE Bad == {T \in SUBSET S : T \notin G}
           Counts == {Cardinality(T) : T \in Bad}
<1> SUFFICES ASSUME Bad # {} PROVE FALSE
  OBVIOUS
<1>1. \A T \in SUBSET S : IsFiniteSet(T) /\ Cardinality(T) \in Nat
  BY FS_Subset, FS_CardinalityType
<1>2. Counts \subseteq Nat /\ Counts # {}
  BY <1>1
<1>3. PICK n \in Counts : \A k \in Counts : n <= k
  BY <1>2, LeastNat
<1>4. PICK T \in Bad : Cardinality(T) = n
  BY <1>3
<1>5. ASSUME NEW U \in SUBSET T, U # T PROVE U \in G
  <2>1. T \in SUBSET S /\ U \in SUBSET S
    OBVIOUS
  <2>2. Cardinality(U) \in Nat /\ Cardinality(T) \in Nat
    BY <1>1, <2>1
  <2>3. Cardinality(U) <= Cardinality(T) /\ Cardinality(U) # Cardinality(T)
    BY <1>1, <1>5, <2>1, FS_Subset
  <2>4. Cardinality(U) < n
    BY <1>4, <2>2, <2>3
  <2>5. n \in Nat
    BY <1>4, <2>2
  <2>6. \A k \in Counts : ~(k < n)
    BY <1>2, <1>3, <2>5
  <2>7. Cardinality(U) \notin Counts
    BY <2>4, <2>6
  <2> QED
    BY <2>1, <2>7
<1> QED
  BY <1>4, <1>5

-----------------------------------------------------------------------------
(* The greatest element of a set of integers.                              *)

\* The element that none exceeds is Max,
LEMMA MaxIs ==
    ASSUME NEW S, S \subseteq Int, NEW x \in S, \A y \in S : y <= x
    PROVE  Max(S) = x
<1>1. \A y \in S : (\A z \in S : y >= z) => y = x
  OBVIOUS
<1>2. \A y \in S : x >= y
  OBVIOUS
<1> QED
  BY <1>1, <1>2 DEF Max

\* and the one that exceeds none is Min.
LEMMA MinIs ==
    ASSUME NEW S, S \subseteq Int, NEW x \in S, \A y \in S : x <= y
    PROVE  Min(S) = x
<1>1. \A y \in S : (\A z \in S : y <= z) => y = x
  OBVIOUS
<1>2. \A y \in S : x <= y
  OBVIOUS
<1> QED
  BY <1>1, <1>2 DEF Min

\* A set of integers with an upper bound has a greatest element.
LEMMA MaxOf ==
    ASSUME NEW S, S \subseteq Int, S # {}, NEW b \in Int, \A y \in S : y <= b
    PROVE  Max(S) \in S /\ \A y \in S : y <= Max(S)
<1> DEFINE D == {b - y : y \in S}
<1>1. D \subseteq Nat /\ D # {}
  <2>1. \A y \in S : b - y \in Nat
    OBVIOUS
  <2> QED
    BY <2>1
<1>2. PICK d \in D : \A e \in D : d <= e
  BY <1>1, LeastNat
<1>3. PICK x \in S : d = b - x
  BY <1>2
<1>4. \A y \in S : y <= x
  <2> TAKE y \in S
  <2>1. b - y \in D
    OBVIOUS
  <2>2. d <= b - y
    BY <1>2, <2>1
  <2>3. x \in Int /\ y \in Int
    OBVIOUS
  <2> HIDE DEF D
  <2> QED
    BY <1>3, <2>2, <2>3
<1> QED
  BY <1>4, MaxIs

-----------------------------------------------------------------------------
(* Sums over finite sets.  SumFunctionOnSet folds + over the set in the    *)
(* order in which CHOOSE picks its elements.                               *)

Pick(s) == CHOOSE x \in s : TRUE

\* h is the table of partial sums that the fold is defined by.
Adds(f, S, h) ==
    h = [s \in SUBSET S |-> IF s = {} THEN 0 ELSE f[Pick(s)] + h[s \ {Pick(s)}]]

\* The sum of the community module, in terms of such a table.
LEMMA SumUnfold ==
    ASSUME NEW f, NEW S
    PROVE  SumFunctionOnSet(f, S) = (CHOOSE h : Adds(f, S, h))[S]
BY DEF SumFunctionOnSet, FoldFunctionOnSet, MapThenFoldSet, Adds, Pick

\* The two equations of the table.
LEMMA AddsAt ==
    ASSUME NEW f, NEW S, NEW h, Adds(f, S, h), NEW s \in SUBSET S
    PROVE  /\ s = {} => h[s] = 0
           /\ s # {} => h[s] = f[Pick(s)] + h[s \ {Pick(s)}]
<1>1. h[s] = IF s = {} THEN 0 ELSE f[Pick(s)] + h[s \ {Pick(s)}]
  BY Zenon DEF Adds
<1> QED
  BY <1>1

\* A set that is not empty has an element for CHOOSE to pick.
LEMMA PickIn ==
    ASSUME NEW s, s # {}
    PROVE  Pick(s) \in s
BY DEF Pick

\* Two tables agree wherever both are defined and add the same numbers.
LEMMA AddsAgree ==
    ASSUME NEW f, NEW S, NEW h, Adds(f, S, h),
           NEW g, NEW T, NEW k, Adds(g, T, k),
           NEW U, IsFiniteSet(U), U \subseteq S, U \subseteq T,
           \A x \in U : f[x] = g[x]
    PROVE  h[U] = k[U]
<1> DEFINE G == {V \in SUBSET U : h[V] = k[V]}
<1>1. ASSUME NEW V \in SUBSET U, \A W \in SUBSET V : W # V => W \in G
      PROVE  V \in G
  <2>1. V \in SUBSET S /\ V \in SUBSET T
    OBVIOUS
  <2>2. /\ V = {} => h[V] = 0
        /\ V # {} => h[V] = f[Pick(V)] + h[V \ {Pick(V)}]
    BY <2>1, AddsAt
  <2>3. /\ V = {} => k[V] = 0
        /\ V # {} => k[V] = g[Pick(V)] + k[V \ {Pick(V)}]
    BY <2>1, AddsAt
  <2>4. CASE V = {}
    BY <2>2, <2>3, <2>4
  <2>5. CASE V # {}
    <3>1. Pick(V) \in V /\ f[Pick(V)] = g[Pick(V)]
      BY <2>5, PickIn
    <3>2. h[V \ {Pick(V)}] = k[V \ {Pick(V)}]
      BY <1>1, <3>1
    <3> QED
      BY <2>2, <2>3, <2>5, <3>1, <3>2
  <2> QED
    BY <2>4, <2>5
<1> HIDE DEF G
<1>2. SUBSET U \subseteq G
  BY <1>1, SubsetInduction
<1> QED
  BY <1>2 DEF G

\* A finite set has a table.
LEMMA AddsExists ==
    ASSUME NEW f, NEW S, IsFiniteSet(S)
    PROVE  \E h : Adds(f, S, h)
<1> DEFINE G == {T \in SUBSET S : \E h : Adds(f, T, h)}
           tbl(T) == CHOOSE h : Adds(f, T, h)
<1>1. ASSUME NEW T \in SUBSET S, \A U \in SUBSET T : U # T => U \in G
      PROVE  T \in G
  <2> DEFINE sum(U) == tbl(U)[U]
             h == [s \in SUBSET T |->
                     IF s = {} THEN 0 ELSE f[Pick(s)] + sum(s \ {Pick(s)})]
  <2>1. ASSUME NEW U \in SUBSET T, U # T
        PROVE  sum(U) = IF U = {} THEN 0 ELSE f[Pick(U)] + sum(U \ {Pick(U)})
    <3>1. Adds(f, U, tbl(U))
      BY <1>1, <2>1, Zenon
    <3>2. /\ U = {} => tbl(U)[U] = 0
          /\ U # {} => tbl(U)[U] = f[Pick(U)] + tbl(U)[U \ {Pick(U)}]
      BY <3>1, AddsAt
    <3>3. CASE U = {}
      BY <3>2, <3>3
    <3>4. CASE U # {}
      <4> DEFINE V == U \ {Pick(U)}
      <4>1. V \in SUBSET T /\ V # T /\ V \subseteq U
        BY <2>1
      <4>2. Adds(f, V, tbl(V))
        BY <1>1, <4>1, Zenon
      <4>3. IsFiniteSet(V)
        BY <4>1, FS_Subset
      <4> HIDE DEF V
      <4>4. tbl(U)[V] = tbl(V)[V]
        BY <3>1, <4>1, <4>2, <4>3, AddsAgree
      <4> QED
        BY <3>2, <3>4, <4>4 DEF V
    <3> QED
      BY <3>3, <3>4
  <2> HIDE DEF tbl
  <2>2. ASSUME NEW s \in SUBSET T
        PROVE  h[s] = IF s = {} THEN 0 ELSE f[Pick(s)] + h[s \ {Pick(s)}]
    <3>1. CASE s = {}
      BY <3>1
    <3>2. CASE s # {}
      <4> DEFINE V == s \ {Pick(s)}
      <4>1. V \in SUBSET T /\ V # T
        BY <3>2, PickIn
      <4>2. h[V] = sum(V)
        BY <2>1, <4>1
      <4>3. h[s] = f[Pick(s)] + sum(V)
        BY <3>2
      <4> HIDE DEF h, sum
      <4> QED
        BY <3>2, <4>2, <4>3
    <3> QED
      BY <3>1, <3>2
  <2>3. Adds(f, T, h)
    <3> DEFINE e == [s \in SUBSET T |->
                        IF s = {} THEN 0 ELSE f[Pick(s)] + h[s \ {Pick(s)}]]
    <3>1. \A s \in SUBSET T : h[s] = e[s]
      BY <2>2
    <3>2. h = [s \in SUBSET T |-> h[s]] /\ e = [s \in SUBSET T |-> e[s]]
      OBVIOUS
    <3> HIDE DEF h, e
    <3>3. h = e
      BY <3>1, <3>2, Zenon
    <3> QED
      BY <3>3 DEF Adds, e
  <2> HIDE DEF h
  <2> QED
    BY <2>3
<1> HIDE DEF G
<1>2. SUBSET S \subseteq G
  BY <1>1, SubsetInduction
<1> QED
  BY <1>2 DEF G

\* The sum is that of any table.
LEMMA SumIsTable ==
    ASSUME NEW f, NEW S, IsFiniteSet(S)
    PROVE  \E h : Adds(f, S, h) /\ SumFunctionOnSet(f, S) = h[S]
<1>1. Adds(f, S, CHOOSE h : Adds(f, S, h))
  BY AddsExists, Zenon
<1> QED
  BY <1>1, SumUnfold

\* Functions that agree on a set have the same sum over it.
LEMMA SumCongruence ==
    ASSUME NEW f, NEW g, NEW S, IsFiniteSet(S), \A x \in S : f[x] = g[x]
    PROVE  SumFunctionOnSet(f, S) = SumFunctionOnSet(g, S)
<1>1. PICK h : Adds(f, S, h) /\ SumFunctionOnSet(f, S) = h[S]
  BY SumIsTable
<1>2. PICK k : Adds(g, S, k) /\ SumFunctionOnSet(g, S) = k[S]
  BY SumIsTable
<1>3. h[S] = k[S]
  BY <1>1, <1>2, AddsAgree
<1> QED
  BY <1>1, <1>2, <1>3

\* The sum over nothing is 0.
LEMMA SumEmpty ==
    ASSUME NEW f
    PROVE  SumFunctionOnSet(f, {}) = 0
<1>1. PICK h : Adds(f, {}, h) /\ SumFunctionOnSet(f, {}) = h[{}]
  BY SumIsTable, FS_EmptySet
<1>2. h[{}] = 0
  BY <1>1, AddsAt
<1> QED
  BY <1>1, <1>2

\* The sum, with the element that CHOOSE picks taken out.
LEMMA SumPick ==
    ASSUME NEW f, NEW S, IsFiniteSet(S), S # {}
    PROVE  SumFunctionOnSet(f, S) =
             f[Pick(S)] + SumFunctionOnSet(f, S \ {Pick(S)})
<1> DEFINE V == S \ {Pick(S)}
<1>1. PICK h : Adds(f, S, h) /\ SumFunctionOnSet(f, S) = h[S]
  BY SumIsTable
<1>2. IsFiniteSet(V)
  BY FS_Subset
<1>3. PICK k : Adds(f, V, k) /\ SumFunctionOnSet(f, V) = k[V]
  BY <1>2, SumIsTable
<1>4. h[V] = k[V]
  BY <1>1, <1>2, <1>3, AddsAgree
<1>5. h[S] = f[Pick(S)] + h[V]
  <2>1. S \in SUBSET S /\ Adds(f, S, h)
    BY <1>1
  <2> QED
    BY <2>1, AddsAt
<1> QED
  BY <1>1, <1>3, <1>4, <1>5

\* A set of numbers that holds 0 and is closed under addition holds the sum of
\* any of its elements: integers, naturals.
LEMMA SumIn ==
    ASSUME NEW f, NEW S, IsFiniteSet(S),
           NEW D, 0 \in D, \A d, e \in D : d + e \in D,
           \A x \in S : f[x] \in D
    PROVE  SumFunctionOnSet(f, S) \in D
<1> DEFINE G == {T \in SUBSET S : SumFunctionOnSet(f, T) \in D}
<1>1. ASSUME NEW T \in SUBSET S, \A U \in SUBSET T : U # T => U \in G
      PROVE  T \in G
  <2>1. CASE T = {}
    BY <2>1, SumEmpty
  <2>2. CASE T # {}
    <3>1. SumFunctionOnSet(f, T) = f[Pick(T)] + SumFunctionOnSet(f, T \ {Pick(T)})
      BY <2>2, FS_Subset, SumPick
    <3>2. Pick(T) \in T
      BY <2>2, PickIn
    <3>3. T \ {Pick(T)} \in G
      BY <1>1, <3>2
    <3> QED
      BY <3>1, <3>2, <3>3
  <2> QED
    BY <2>1, <2>2
<1> HIDE DEF G
<1>2. SUBSET S \subseteq G
  BY <1>1, SubsetInduction
<1> QED
  BY <1>2 DEF G

\* A sum of integers is an integer,
LEMMA SumInt ==
    ASSUME NEW f, NEW S, IsFiniteSet(S), \A x \in S : f[x] \in Int
    PROVE  SumFunctionOnSet(f, S) \in Int
<1>1. 0 \in Int /\ \A d, e \in Int : d + e \in Int
  OBVIOUS
<1> QED
  BY <1>1, SumIn

\* and one of natural numbers a natural number.
LEMMA SumNat ==
    ASSUME NEW f, NEW S, IsFiniteSet(S), \A x \in S : f[x] \in Nat
    PROVE  SumFunctionOnSet(f, S) \in Nat
<1>1. 0 \in Nat /\ \A d, e \in Nat : d + e \in Nat
  OBVIOUS
<1> QED
  BY <1>1, SumIn

\* A sum does not depend on the order: any element may be taken out first.
LEMMA SumRemove ==
    ASSUME NEW f, NEW S, IsFiniteSet(S), \A x \in S : f[x] \in Int, NEW a \in S
    PROVE  SumFunctionOnSet(f, S) = f[a] + SumFunctionOnSet(f, S \ {a})
<1> DEFINE sum(T) == SumFunctionOnSet(f, T)
           G == {T \in SUBSET S : \A x \in T : sum(T) = f[x] + sum(T \ {x})}
<1>1. ASSUME NEW T \in SUBSET S, \A U \in SUBSET T : U # T => U \in G,
             NEW x \in T
      PROVE  sum(T) = f[x] + sum(T \ {x})
  <2> DEFINE y == Pick(T)
  <2>1. /\ sum(T) = f[y] + sum(T \ {y}) /\ y \in T
    BY FS_Subset, SumPick, PickIn
  <2> HIDE DEF y
  <2>2. CASE x = y
    BY <2>1, <2>2
  <2>3. CASE x # y
    <3>1. x \in T \ {y} /\ y \in T \ {x} /\ (T \ {y}) \ {x} = (T \ {x}) \ {y}
      BY <2>1, <2>3
    <3>2. T \ {y} \in G /\ T \ {x} \in G
      BY <1>1, <2>1
    <3>3. sum(T \ {y}) = f[x] + sum((T \ {y}) \ {x})
      BY <3>1, <3>2
    <3>4. sum(T \ {x}) = f[y] + sum((T \ {x}) \ {y})
      BY <3>1, <3>2
    <3>5. f[x] \in Int /\ f[y] \in Int
      BY <2>1
    <3>6. sum((T \ {x}) \ {y}) \in Int
      BY FS_Subset, SumInt
    <3>7. sum((T \ {y}) \ {x}) = sum((T \ {x}) \ {y})
      BY <3>1
    <3> HIDE DEF sum
    <3> QED
      BY <2>1, <3>3, <3>4, <3>5, <3>6, <3>7
  <2> QED
    BY <2>2, <2>3
<1>2. ASSUME NEW T \in SUBSET S, \A U \in SUBSET T : U # T => U \in G
      PROVE  T \in G
  BY <1>1, <1>2
<1> HIDE DEF G
<1>3. SUBSET S \subseteq G
  BY <1>2, SubsetInduction
<1> QED
  BY <1>3 DEF G

\* A subset of naturals adds up to no more.
LEMMA SumSubset ==
    ASSUME NEW f, NEW S, IsFiniteSet(S), \A x \in S : f[x] \in Nat,
           NEW T \in SUBSET S
    PROVE  SumFunctionOnSet(f, T) <= SumFunctionOnSet(f, S)
<1> DEFINE sum(U) == SumFunctionOnSet(f, U)
           G == {U \in SUBSET S : \A V \in SUBSET U : sum(V) <= sum(U)}
<1>1. ASSUME NEW U \in SUBSET S, \A W \in SUBSET U : W # U => W \in G,
             NEW V \in SUBSET U
      PROVE  sum(V) <= sum(U)
  <2>0. sum(U) \in Nat /\ sum(V) \in Nat
    BY FS_Subset, SumNat
  <2>1. CASE V = U
    BY <2>0, <2>1
  <2>2. CASE V # U
    <3>1. PICK x \in U : x \notin V
      BY <2>2
    <3>2. IsFiniteSet(U) /\ f[x] \in Nat
      BY FS_Subset
    <3>3. sum(U) = f[x] + sum(U \ {x})
      BY <3>2, SumRemove
    <3>4. sum(V) <= sum(U \ {x})
      BY <1>1, <3>1
    <3>5. sum(U \ {x}) \in Nat
      BY FS_Subset, SumNat
    <3> HIDE DEF sum
    <3> QED
      BY <2>0, <3>2, <3>3, <3>4, <3>5
  <2> QED
    BY <2>1, <2>2
<1>2. ASSUME NEW U \in SUBSET S, \A W \in SUBSET U : W # U => W \in G
      PROVE  U \in G
  BY <1>1, <1>2
<1> HIDE DEF G
<1>3. SUBSET S \subseteq G
  BY <1>2, SubsetInduction
<1> QED
  BY <1>3 DEF G

-----------------------------------------------------------------------------
(* Sequences.                                                              *)

\* A sequence without its element k.
LEMMA RemoveAtProperties ==
    ASSUME NEW S, NEW s \in Seq(S), NEW k \in 1 .. Len(s)
    PROVE  /\ RemoveAt(s, k) \in Seq(S)
           /\ Len(RemoveAt(s, k)) = Len(s) - 1
           /\ \A i \in 1 .. Len(s) - 1 :
                  RemoveAt(s, k)[i] = s[IF i < k THEN i ELSE i + 1]
<1> DEFINE a == SubSeq(s, 1, k - 1)
           b == SubSeq(s, k + 1, Len(s))
<1>1. Len(s) \in Nat /\ \A i \in 1 .. Len(s) : s[i] \in S
  BY LenProperties, ElementOfSeq
<1>2. /\ a \in Seq(S) /\ Len(a) = k - 1
      /\ \A i \in 1 .. k - 1 : a[i] = s[i]
  <2>1. \A i \in 1 .. k - 1 : s[i] \in S
    BY <1>1
  <2> QED
    BY <1>1, <2>1, SubSeqProperties
<1>3. /\ b \in Seq(S) /\ Len(b) = Len(s) - k
      /\ \A i \in 1 .. Len(s) - k : b[i] = s[k + i]
  <2>1. \A i \in k + 1 .. Len(s) : s[i] \in S
    BY <1>1
  <2> QED
    BY <1>1, <2>1, SubSeqProperties
<1>4. RemoveAt(s, k) = a \o b
  BY DEF RemoveAt
<1> HIDE DEF a, b
<1>5. /\ a \o b \in Seq(S)
      /\ Len(a \o b) = Len(s) - 1
      /\ \A i \in 1 .. Len(s) - 1 :
             (a \o b)[i] = IF i <= k - 1 THEN a[i] ELSE b[i - (k - 1)]
  BY <1>1, <1>2, <1>3, ConcatProperties
<1>6. \A i \in 1 .. Len(s) - 1 : (a \o b)[i] = s[IF i < k THEN i ELSE i + 1]
  <2> SUFFICES ASSUME NEW i \in 1 .. Len(s) - 1
               PROVE  (a \o b)[i] = s[IF i < k THEN i ELSE i + 1]
    OBVIOUS
  <2>1. CASE i < k
    BY <1>1, <1>2, <1>5, <2>1
  <2>2. CASE ~(i < k)
    <3>1. i - (k - 1) \in 1 .. Len(s) - k /\ k + (i - (k - 1)) = i + 1
      BY <1>1, <2>2
    <3>2. (a \o b)[i] = b[i - (k - 1)]
      BY <1>1, <1>5, <2>2
    <3> QED
      BY <1>3, <2>2, <3>1, <3>2
  <2> QED
    BY <2>1, <2>2
<1> QED
  BY <1>4, <1>5, <1>6

=============================================================================
