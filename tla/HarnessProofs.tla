--------------------------- MODULE HarnessProofs ----------------------------
(***************************************************************************)
(* Three parts of the labs' harnesses that do not meet: the range list of  *)
(* mdriver.c, the K-best sampler of fcyc.c and the mini lab's grader.      *)
(*                                                                         *)
(* The range list, against any allocator, for every arena, any request     *)
(* sizes and any addresses: what the list holds, and what its test for     *)
(* overlap guarantees.                                                     *)
(*                                                                         *)
(* The sampler, on the cycle counter of clock.c, for every word width,     *)
(* every times and parameters.  The insertion of add_sample is followed by *)
(* an insertion into the order of all samples, of which values holds the   *)
(* beginning.                                                              *)
(*                                                                         *)
(* The grader, for any list of tests registered the way grade-lab          *)
(* registers them, any outputs of the graded programs, and any number of   *)
(* invocations and interrupts.                                             *)
(***************************************************************************)
EXTENDS RangeCheck, FCyc, GradeLib, Collections

Extent == [lo : Int, hi : Int]

-----------------------------------------------------------------------------
(* The inductive invariant, on any list rs, blocks h and break b.          *)

\* The records are the blocks, and no two records start at the same address, so
\* that remove_range has one record to find.
Books(rs, h) ==
    /\ rs \in Seq(Extent)
    /\ h \in [DOMAIN h -> Nat \ {0}]
    /\ DOMAIN h \subseteq Int
    /\ \A i \in 1 .. Len(rs) : /\ rs[i].lo \in DOMAIN h
                               /\ rs[i].hi = rs[i].lo + h[rs[i].lo] - 1
    /\ \A p \in DOMAIN h : \E i \in 1 .. Len(rs) : rs[i].lo = p
    /\ \A i, j \in 1 .. Len(rs) : rs[i].lo = rs[j].lo => i = j

\* The records lie in the heap.
Placed(rs, b) ==
    \A i \in 1 .. Len(rs) : is_aligned(rs[i].lo) /\ 0 <= rs[i].lo /\ rs[i].hi < b

\* A newer record meets an older one only by enclosing it.
Nested(rs) ==
    \A i, j \in 1 .. Len(rs) :
        i < j => \/ rs[i].hi < rs[j].lo
                 \/ rs[j].hi < rs[i].lo
                 \/ rs[i].lo < rs[j].lo /\ rs[j].hi < rs[i].hi

SoundList(rs, h, b) == b \in Int /\ Books(rs, h) /\ Placed(rs, b) /\ Nested(rs)

CheckInv == SoundList(ranges, held, brk)

-----------------------------------------------------------------------------
(* The operations on a list.                                               *)

\* What remove_range leaves of a sound list: the block's record goes, the others
\* stay in their order.
LEMMA RemoveRangeProperties ==
    ASSUME NEW rs, NEW h, Books(rs, h), NEW p \in DOMAIN h
    PROVE  \E k \in 1 .. Len(rs) :
               /\ rs[k].lo = p
               /\ remove_range(rs, p) \in Seq(Extent)
               /\ Len(remove_range(rs, p)) = Len(rs) - 1
               /\ \A i \in 1 .. Len(rs) - 1 :
                      remove_range(rs, p)[i] = rs[IF i < k THEN i ELSE i + 1]
<1>1. rs \in Seq(Extent) /\ DOMAIN rs = 1 .. Len(rs) /\ Len(rs) \in Nat
  BY LenProperties DEF Books
<1>2. PICK k \in 1 .. Len(rs) : rs[k].lo = p
  BY DEF Books
<1>3. {i \in DOMAIN rs : rs[i].lo = p} = {k}
  <2>1. \A i \in 1 .. Len(rs) : rs[i].lo = p => i = k
    BY <1>2 DEF Books
  <2> QED
    BY <1>1, <1>2, <2>1
<1>4. Min({k}) = k
  BY <1>1 DEF Min
<1>5. remove_range(rs, p) = RemoveAt(rs, k)
  BY <1>3, <1>4 DEF remove_range
<1> QED
  BY <1>1, <1>2, <1>5, RemoveAtProperties

\* Freeing a block, or the first half of reallocating it, leaves a sound list of
\* the other blocks.
LEMMA RemoveKeepsSound ==
    ASSUME NEW rs, NEW h, NEW b, SoundList(rs, h, b), NEW p \in DOMAIN h
    PROVE  SoundList(remove_range(rs, p), [q \in DOMAIN h \ {p} |-> h[q]], b)
<1> DEFINE ns == remove_range(rs, p)
           g == [q \in DOMAIN h \ {p} |-> h[q]]
           old(k, i) == IF i < k THEN i ELSE i + 1
<1>1. Books(rs, h)
  BY DEF SoundList
<1>2. Len(rs) \in Nat /\ \A i \in 1 .. Len(rs) : rs[i] \in Extent
  BY <1>1, LenProperties, ElementOfSeq DEF Books
<1>3. PICK k \in 1 .. Len(rs) :
          /\ rs[k].lo = p
          /\ ns \in Seq(Extent)
          /\ Len(ns) = Len(rs) - 1
          /\ \A i \in 1 .. Len(rs) - 1 : ns[i] = rs[old(k, i)]
  BY <1>1, RemoveRangeProperties
<1>4. /\ \A i \in 1 .. Len(ns) : old(k, i) \in (1 .. Len(rs)) \ {k} /\ ns[i] = rs[old(k, i)]
      /\ \A j \in (1 .. Len(rs)) \ {k} : \E i \in 1 .. Len(ns) : old(k, i) = j
      /\ \A i, j \in 1 .. Len(ns) : i < j <=> old(k, i) < old(k, j)
  <2>1. \A i \in 1 .. Len(ns) : old(k, i) \in (1 .. Len(rs)) \ {k} /\ ns[i] = rs[old(k, i)]
    BY <1>2, <1>3
  <2>2. \A j \in (1 .. Len(rs)) \ {k} : \E i \in 1 .. Len(ns) : old(k, i) = j
    <3> SUFFICES ASSUME NEW j \in (1 .. Len(rs)) \ {k}
                 PROVE  \E i \in 1 .. Len(ns) : old(k, i) = j
      OBVIOUS
    <3>1. CASE j < k
      <4>1. j \in 1 .. Len(ns) /\ old(k, j) = j
        BY <1>2, <1>3, <3>1
      <4> QED
        BY <4>1
    <3>2. CASE j > k
      <4>1. j - 1 \in 1 .. Len(ns) /\ old(k, j - 1) = j
        BY <1>2, <1>3, <3>2
      <4> QED
        BY <4>1
    <3> QED
      BY <1>2, <3>1, <3>2
  <2>3. \A i, j \in 1 .. Len(ns) : i < j <=> old(k, i) < old(k, j)
    BY <1>2, <1>3
  <2> QED
    BY <2>1, <2>2, <2>3
<1> HIDE DEF ns, old
<1>5. /\ DOMAIN g = DOMAIN h \ {p}
      /\ \A q \in DOMAIN g : g[q] = h[q] /\ h[q] \in Nat \ {0}
  BY <1>1 DEF Books
<1> HIDE DEF g
<1>6. Books(ns, g)
  <2>1. g \in [DOMAIN g -> Nat \ {0}] /\ DOMAIN g \subseteq Int
    <3>1. g \in [DOMAIN g -> Nat \ {0}]
      BY <1>5 DEF g
    <3> QED
      BY <1>1, <1>5, <3>1 DEF Books
  <2>2. \A j \in (1 .. Len(rs)) \ {k} : rs[j].lo \in DOMAIN g
    BY <1>1, <1>3, <1>5 DEF Books
  <2>3. \A i \in 1 .. Len(ns) : /\ ns[i].lo \in DOMAIN g
                                /\ ns[i].hi = ns[i].lo + g[ns[i].lo] - 1
    <3> SUFFICES ASSUME NEW i \in 1 .. Len(ns)
                 PROVE  /\ ns[i].lo \in DOMAIN g
                        /\ ns[i].hi = ns[i].lo + g[ns[i].lo] - 1
      OBVIOUS
    <3>1. PICK j \in (1 .. Len(rs)) \ {k} : ns[i] = rs[j]
      BY <1>4
    <3>2. rs[j].hi = rs[j].lo + h[rs[j].lo] - 1
      BY <1>1 DEF Books
    <3> QED
      BY <1>5, <2>2, <3>1, <3>2
  <2>4. \A q \in DOMAIN g : \E i \in 1 .. Len(ns) : ns[i].lo = q
    <3> SUFFICES ASSUME NEW q \in DOMAIN g
                 PROVE  \E i \in 1 .. Len(ns) : ns[i].lo = q
      OBVIOUS
    <3>1. PICK j \in 1 .. Len(rs) : rs[j].lo = q
      BY <1>1, <1>5 DEF Books
    <3>2. j # k
      BY <1>3, <1>5, <3>1
    <3> QED
      BY <1>4, <3>1, <3>2
  <2>5. \A i, j \in 1 .. Len(ns) : ns[i].lo = ns[j].lo => i = j
    <3> SUFFICES ASSUME NEW i \in 1 .. Len(ns), NEW j \in 1 .. Len(ns),
                        ns[i].lo = ns[j].lo
                 PROVE  i = j
      OBVIOUS
    <3>1. old(k, i) = old(k, j)
      BY <1>1, <1>4 DEF Books
    <3>2. ~(i < j) /\ ~(j < i)
      BY <1>2, <1>4, <3>1
    <3> QED
      BY <1>2, <1>3, <3>2
  <2> QED
    BY <1>3, <2>1, <2>3, <2>4, <2>5 DEF Books
<1>7. Placed(ns, b)
  BY <1>4 DEF SoundList, Placed
<1>8. Nested(ns)
  <2> SUFFICES ASSUME NEW i \in 1 .. Len(ns), NEW j \in 1 .. Len(ns), i < j
               PROVE  \/ ns[i].hi < ns[j].lo
                      \/ ns[j].hi < ns[i].lo
                      \/ ns[i].lo < ns[j].lo /\ ns[j].hi < ns[i].hi
    BY DEF Nested
  <2>1. /\ old(k, i) \in 1 .. Len(rs) /\ old(k, j) \in 1 .. Len(rs)
        /\ old(k, i) < old(k, j)
        /\ ns[i] = rs[old(k, i)] /\ ns[j] = rs[old(k, j)]
    BY <1>4
  <2>2. Nested(rs)
    BY DEF SoundList
  <2> QED
    BY <2>1, <2>2 DEF Nested
<1> QED
  BY <1>6, <1>7, <1>8 DEF SoundList, ns, g

\* The break of an allocator only grows, and a larger heap still holds the records.
LEMMA GrowKeepsSound ==
    ASSUME NEW rs, NEW h, NEW b, SoundList(rs, h, b), NEW c \in Int, c >= b
    PROVE  SoundList(rs, h, c)
<1>1. \A i \in 1 .. Len(rs) : rs[i] \in Extent
  BY ElementOfSeq DEF SoundList, Books
<1>2. \A i \in 1 .. Len(rs) : rs[i].hi \in Int
  BY <1>1 DEF Extent
<1> QED
  BY <1>2 DEF SoundList, Placed

\* A block that add_range accepts gives a sound list of the blocks and it; the
\* overlap test lets through only a block that meets no other or encloses it.
LEMMA AddKeepsSound ==
    ASSUME NEW rs, NEW h, NEW b, SoundList(rs, h, b),
           NEW lo \in Int, NEW size \in Nat \ {0},
           add_range(rs, b, lo, size).ret # 0
    PROVE  SoundList(add_range(rs, b, lo, size).ranges,
                     [q \in DOMAIN h \cup {lo} |-> IF q = lo THEN size ELSE h[q]], b)
<1> DEFINE new == [lo |-> lo, hi |-> lo + size - 1]
           ns == <<new>> \o rs
           g == [q \in DOMAIN h \cup {lo} |-> IF q = lo THEN size ELSE h[q]]
<1>1. /\ add_range(rs, b, lo, size).ranges = ns
      /\ is_aligned(lo) /\ 0 <= lo /\ lo + size - 1 < b
      /\ \A i \in DOMAIN rs : ~Overlaps(lo, lo + size - 1, rs[i])
  <2>1. b \in Int
    BY DEF SoundList
  <2> QED
    BY <2>1 DEF add_range, InHeap, mem_heap_lo, mem_heap_hi
<1>2. /\ rs \in Seq(Extent) /\ Len(rs) \in Nat /\ DOMAIN rs = 1 .. Len(rs)
      /\ \A i \in 1 .. Len(rs) : rs[i] \in Extent
  BY LenProperties, ElementOfSeq DEF SoundList, Books
<1>3. \A i \in 1 .. Len(rs) : rs[i].lo \in Int /\ rs[i].hi \in Int /\ rs[i].lo <= rs[i].hi
  <2> SUFFICES ASSUME NEW i \in 1 .. Len(rs)
               PROVE  rs[i].lo \in Int /\ rs[i].hi \in Int /\ rs[i].lo <= rs[i].hi
    OBVIOUS
  <2>1. rs[i].lo \in Int /\ rs[i].hi \in Int
    BY <1>2 DEF Extent
  <2>2. /\ h[rs[i].lo] \in Nat \ {0}
        /\ rs[i].hi = rs[i].lo + h[rs[i].lo] - 1
    BY DEF SoundList, Books
  <2> QED
    BY <2>1, <2>2
<1>4. /\ ns \in Seq(Extent) /\ Len(ns) = Len(rs) + 1 /\ ns[1] = new
      /\ \A i \in 2 .. Len(rs) + 1 : i - 1 \in 1 .. Len(rs) /\ ns[i] = rs[i - 1]
  <2>1. new \in Extent
    BY DEF Extent
  <2>2. <<new>> \in Seq(Extent) /\ Len(<<new>>) = 1 /\ <<new>>[1] = new
    BY <2>1
  <2> HIDE DEF new
  <2> QED
    BY <1>2, <2>2, ConcatProperties
<1>5. new.lo = lo /\ new.hi = lo + size - 1
  OBVIOUS
<1>6. /\ DOMAIN g = DOMAIN h \cup {lo} /\ g[lo] = size
      /\ \A q \in DOMAIN h : q # lo => g[q] = h[q]
      /\ g \in [DOMAIN g -> Nat \ {0}]
  BY DEF SoundList, Books
<1> HIDE DEF ns, g, new
<1>7. \A i \in 1 .. Len(rs) :
          /\ rs[i].lo # lo
          /\ \/ lo + size - 1 < rs[i].lo
             \/ rs[i].hi < lo
             \/ lo < rs[i].lo /\ rs[i].hi < lo + size - 1
  BY <1>1, <1>2, <1>3 DEF Overlaps
<1>8. Books(ns, g)
  <2>1. DOMAIN g \subseteq Int
    BY <1>6 DEF SoundList, Books
  <2>2. \A i \in 1 .. Len(ns) : /\ ns[i].lo \in DOMAIN g
                                /\ ns[i].hi = ns[i].lo + g[ns[i].lo] - 1
    <3> SUFFICES ASSUME NEW i \in 1 .. Len(ns)
                 PROVE  /\ ns[i].lo \in DOMAIN g
                        /\ ns[i].hi = ns[i].lo + g[ns[i].lo] - 1
      OBVIOUS
    <3>1. CASE i = 1
      BY <1>4, <1>5, <1>6, <3>1
    <3>2. CASE i # 1
      <4>1. i - 1 \in 1 .. Len(rs) /\ ns[i] = rs[i - 1]
        BY <1>2, <1>4, <3>2
      <4>2. /\ rs[i - 1].lo \in DOMAIN h
            /\ rs[i - 1].hi = rs[i - 1].lo + h[rs[i - 1].lo] - 1
        BY <4>1 DEF SoundList, Books
      <4> QED
        BY <1>6, <1>7, <4>1, <4>2
    <3> QED
      BY <3>1, <3>2
  <2>3. \A p \in DOMAIN g : \E i \in 1 .. Len(ns) : ns[i].lo = p
    <3> SUFFICES ASSUME NEW p \in DOMAIN g PROVE \E i \in 1 .. Len(ns) : ns[i].lo = p
      OBVIOUS
    <3>1. CASE p = lo
      BY <1>2, <1>4, <1>5, <3>1
    <3>2. CASE p # lo
      <4>1. PICK j \in 1 .. Len(rs) : rs[j].lo = p
        BY <1>6, <3>2 DEF SoundList, Books
      <4>2. j + 1 \in 2 .. Len(rs) + 1 /\ (j + 1) - 1 = j
        BY <1>2
      <4>3. ns[j + 1] = rs[j] /\ j + 1 \in 1 .. Len(ns)
        BY <1>2, <1>4, <4>2
      <4> QED
        BY <4>1, <4>3
    <3> QED
      BY <3>1, <3>2
  <2>4. \A i, j \in 1 .. Len(ns) : ns[i].lo = ns[j].lo => i = j
    <3> SUFFICES ASSUME NEW i \in 1 .. Len(ns), NEW j \in 1 .. Len(ns),
                        ns[i].lo = ns[j].lo
                 PROVE  i = j
      OBVIOUS
    <3>1. /\ i # 1 => i - 1 \in 1 .. Len(rs) /\ ns[i] = rs[i - 1]
          /\ j # 1 => j - 1 \in 1 .. Len(rs) /\ ns[j] = rs[j - 1]
      BY <1>2, <1>4
    <3>2. CASE i # 1 /\ j # 1
      <4>1. i - 1 = j - 1
        BY <3>1, <3>2 DEF SoundList, Books
      <4> QED
        BY <1>2, <1>4, <4>1
    <3>3. CASE i = 1 \/ j = 1
      BY <1>4, <1>5, <1>7, <3>1, <3>3
    <3> QED
      BY <3>2, <3>3
  <2> QED
    BY <1>4, <1>6, <2>1, <2>2, <2>3, <2>4 DEF Books
<1>9. Placed(ns, b)
  <2> SUFFICES ASSUME NEW i \in 1 .. Len(ns)
               PROVE  is_aligned(ns[i].lo) /\ 0 <= ns[i].lo /\ ns[i].hi < b
    BY DEF Placed
  <2>1. CASE i = 1
    BY <1>1, <1>4, <1>5, <2>1
  <2>2. CASE i # 1
    <3>1. i - 1 \in 1 .. Len(rs) /\ ns[i] = rs[i - 1]
      BY <1>2, <1>4, <2>2
    <3> QED
      BY <3>1 DEF SoundList, Placed
  <2> QED
    BY <2>1, <2>2
<1>10. Nested(ns)
  <2> SUFFICES ASSUME NEW i \in 1 .. Len(ns), NEW j \in 1 .. Len(ns), i < j
               PROVE  \/ ns[i].hi < ns[j].lo
                      \/ ns[j].hi < ns[i].lo
                      \/ ns[i].lo < ns[j].lo /\ ns[j].hi < ns[i].hi
    BY DEF Nested
  <2>1. j - 1 \in 1 .. Len(rs) /\ ns[j] = rs[j - 1]
    BY <1>2, <1>4
  <2>2. CASE i = 1
    BY <1>4, <1>5, <1>7, <2>1, <2>2
  <2>3. CASE i # 1
    <3>1. i - 1 \in 1 .. Len(rs) /\ ns[i] = rs[i - 1] /\ i - 1 < j - 1
      BY <1>2, <1>4, <2>3
    <3> QED
      BY <2>1, <3>1 DEF SoundList, Nested
  <2> QED
    BY <2>2, <2>3
<1> QED
  BY <1>1, <1>8, <1>9, <1>10 DEF SoundList, g

-----------------------------------------------------------------------------
(* Every step keeps the list sound.                                        *)

\* The list at the start of a trace.
LEMMA EmptyIsSound == SoundList(<<>>, [p \in {} |-> 0], 0)
BY EmptySeq DEF SoundList, Books, Placed, Nested

\* add_range either accepts the block or leaves the list alone, and it returns 0
\* or 1.
LEMMA AddRangeReturns ==
    ASSUME NEW rs, NEW b, NEW lo, NEW size
    PROVE  /\ add_range(rs, b, lo, size).ret \in {0, 1}
           /\ add_range(rs, b, lo, size).ret = 0 => add_range(rs, b, lo, size).ranges = rs
BY DEF add_range

\* An allocation of the trace.
LEMMA AllocKeeps ==
    ASSUME CheckInv, NEW b \in Breaks, NEW lo \in Returns, NEW s \in BlockSizes,
           CheckAlloc(b, lo, s)
    PROVE  CheckInv'
<1>1. b \in Int /\ lo \in Int /\ s \in Nat \ {0}
  BY RangeCheckAssumption, MemLibAssumption
<1>2. SoundList(ranges, held, b)
  BY <1>1, GrowKeepsSound DEF CheckInv, CheckAlloc
<1> DEFINE a == add_range(ranges, b, lo, s)
<1>3. CASE a.ret = 0
  BY <1>2, <1>3, AddRangeReturns DEF CheckAlloc, CheckInv
<1>4. CASE a.ret # 0
  BY <1>1, <1>2, <1>4, AddKeepsSound DEF CheckAlloc, CheckInv
<1> QED
  BY <1>3, <1>4

\* A request that is not served.
LEMMA NullKeeps ==
    ASSUME CheckInv, NEW b \in Breaks, CheckNull(b)
    PROVE  CheckInv'
<1>1. b \in Int
  BY RangeCheckAssumption, MemLibAssumption
<1>2. SoundList(ranges, held, b)
  BY <1>1, GrowKeepsSound DEF CheckInv, CheckNull
<1> QED
  BY <1>2 DEF CheckNull, CheckInv

\* A reallocation: the old block goes before the new one is judged, and it stays
\* gone when the new one is rejected.
LEMMA ReallocKeeps ==
    ASSUME CheckInv, NEW b \in Breaks, NEW lo \in Returns, NEW s \in BlockSizes,
           NEW p \in DOMAIN held, CheckRealloc(b, p, lo, s)
    PROVE  CheckInv'
<1> DEFINE rs == remove_range(ranges, p)
           a == add_range(rs, b, lo, s)
<1>1. b \in Int /\ lo \in Int /\ s \in Nat \ {0}
  BY RangeCheckAssumption, MemLibAssumption
<1>2. SoundList(rs, Forget(p), brk)
  BY RemoveKeepsSound DEF CheckInv, Forget
<1>3. SoundList(rs, Forget(p), b)
  BY <1>1, <1>2, GrowKeepsSound DEF CheckRealloc
<1>4. CASE a.ret = 0
  BY <1>3, <1>4, AddRangeReturns DEF CheckRealloc, CheckInv
<1>5. CASE a.ret # 0
  <2>1. held' = [q \in DOMAIN Forget(p) \cup {lo} |-> IF q = lo THEN s ELSE Forget(p)[q]]
    BY <1>5 DEF CheckRealloc, Forget
  <2>2. ranges' = a.ranges /\ brk' = b
    BY DEF CheckRealloc
  <2>3. SoundList(a.ranges,
            [q \in DOMAIN Forget(p) \cup {lo} |-> IF q = lo THEN s ELSE Forget(p)[q]], b)
    BY <1>1, <1>3, <1>5, AddKeepsSound
  <2> QED
    BY <2>1, <2>2, <2>3 DEF CheckInv
<1> QED
  BY <1>4, <1>5

-----------------------------------------------------------------------------
(* The theorems.                                                           *)

\* The list stays sound through every sequence of requests, whatever the
\* allocator returns.
THEOREM CheckInvariant == CheckSpec => []CheckInv
<1>1. CheckInit => CheckInv
  BY EmptyIsSound DEF CheckInit, CheckInv, clear_ranges, mem_reset_brk
<1>2. CheckInv /\ [CheckNext]_checkVars => CheckInv'
  <2> SUFFICES ASSUME CheckInv, [CheckNext]_checkVars PROVE CheckInv'
    OBVIOUS
  <2>1. ASSUME NEW b \in Breaks, NEW lo \in Returns, NEW s \in BlockSizes,
               \/ CheckAlloc(b, lo, s)
               \/ CheckNull(b)
               \/ \E p \in DOMAIN held : CheckRealloc(b, p, lo, s)
        PROVE  CheckInv'
    BY <2>1, AllocKeeps, NullKeeps, ReallocKeeps
  <2>2. ASSUME NEW p \in DOMAIN held, CheckFree(p)
        PROVE  CheckInv'
    BY <2>2, RemoveKeepsSound DEF CheckFree, CheckInv, Forget
  <2>3. CASE CheckNextTrace
    BY <2>3, EmptyIsSound DEF CheckNextTrace, CheckInv, clear_ranges, mem_reset_brk
  <2>4. CASE UNCHANGED checkVars
    BY <2>4 DEF checkVars, CheckInv
  <2> QED
    BY <2>1, <2>2, <2>3, <2>4 DEF CheckNext
<1> QED
  BY <1>1, <1>2, PTL DEF CheckSpec

\* The driver's list is the blocks of the trace, record for record: add_range and
\* remove_range never lose one or leave one behind.
THEOREM CheckRangesAreHeld == CheckSpec => []RangesAreHeld
<1>1. CheckInv => RangesAreHeld
  <2> SUFFICES ASSUME CheckInv PROVE RangesAreHeld
    OBVIOUS
  <2>1. Books(ranges, held)
    BY DEF CheckInv, SoundList
  <2>2. Len(ranges) \in Nat /\ DOMAIN ranges = 1 .. Len(ranges)
    BY <2>1, LenProperties DEF Books
  <2>3. \A i \in 1 .. Len(ranges) :
            <<ranges[i].lo, ranges[i].hi>>
              = <<ranges[i].lo, ranges[i].lo + held[ranges[i].lo] - 1>>
    BY <2>1 DEF Books
  <2>4. {<<ranges[i].lo, ranges[i].hi>> : i \in 1 .. Len(ranges)}
          = {<<p, p + held[p] - 1>> : p \in DOMAIN held}
    <3>1. \A i \in 1 .. Len(ranges) : ranges[i].lo \in DOMAIN held
      BY <2>1 DEF Books
    <3>2. \A p \in DOMAIN held : \E i \in 1 .. Len(ranges) : ranges[i].lo = p
      BY <2>1 DEF Books
    <3> DEFINE rec(i) == <<ranges[i].lo, ranges[i].hi>>
               blk(p) == <<p, p + held[p] - 1>>
    <3>3. \A i \in 1 .. Len(ranges) : rec(i) = blk(ranges[i].lo)
      BY <2>3
    <3> HIDE DEF rec, blk
    <3>4. {rec(i) : i \in 1 .. Len(ranges)} = {blk(p) : p \in DOMAIN held}
      BY <3>1, <3>2, <3>3
    <3> QED
      BY <3>4 DEF rec, blk
  <2>5. Cardinality(DOMAIN held) = Len(ranges)
    <3> DEFINE f == [i \in 1 .. Len(ranges) |-> ranges[i].lo]
    <3>1. f \in Bijection(1 .. Len(ranges), DOMAIN held)
      <4>1. f \in [1 .. Len(ranges) -> DOMAIN held]
        BY <2>1 DEF Books
      <4>2. \A i, j \in 1 .. Len(ranges) : f[i] = f[j] => i = j
        BY <2>1 DEF Books
      <4>3. \A p \in DOMAIN held : \E i \in 1 .. Len(ranges) : f[i] = p
        BY <2>1 DEF Books
      <4> QED
        BY <4>1, <4>2, <4>3 DEF Bijection, Injection, Surjection, IsInjective
    <3>2. ExistsBijection(1 .. Len(ranges), DOMAIN held)
      BY <3>1 DEF ExistsBijection
    <3>3. \A S, n : n \in Nat /\ ExistsBijection(1 .. n, S) => Cardinality(S) = n
      BY FS_CountingElements
    <3> QED
      BY <2>2, <3>2, <3>3
  <2> QED
    BY <2>2, <2>4, <2>5 DEF RangesAreHeld
<1> QED
  BY <1>1, CheckInvariant, PTL

\* Every block the driver accepted is aligned and lies in the heap, however the
\* allocator moves the break.
THEOREM CheckAcceptedInHeap == CheckSpec => []AcceptedInHeap
<1>1. CheckInv => AcceptedInHeap
  <2> SUFFICES ASSUME CheckInv, NEW p \in DOMAIN held
               PROVE  /\ is_aligned(p)
                      /\ HeldBytes(p) \subseteq mem_heap_lo .. mem_heap_hi(brk)
    BY DEF AcceptedInHeap
  <2>1. PICK i \in 1 .. Len(ranges) : ranges[i].lo = p
    BY DEF CheckInv, SoundList, Books
  <2>2. /\ p \in Int /\ held[p] \in Nat \ {0} /\ brk \in Int
        /\ ranges[i].hi = p + held[p] - 1
    BY <2>1 DEF CheckInv, SoundList, Books
  <2>3. is_aligned(p) /\ 0 <= p /\ p + held[p] - 1 < brk
    BY <2>1, <2>2 DEF CheckInv, SoundList, Placed
  <2> QED
    BY <2>2, <2>3 DEF HeldBytes, mem_heap_lo, mem_heap_hi
<1> QED
  BY <1>1, CheckInvariant, PTL

\* The driver's test of the two end points finds every overlap with an older block
\* that is at least as long as the new one.
THEOREM CheckOverlapDetected == CheckSpec => []OverlapDetected
<1>1. CheckInv => OverlapDetected
  <2> SUFFICES ASSUME CheckInv, NEW i \in DOMAIN ranges, NEW j \in DOMAIN ranges,
                      i < j, Length(ranges[i]) <= Length(ranges[j])
               PROVE  Disjoint(ranges[i], ranges[j])
    BY DEF OverlapDetected
  <2>1. DOMAIN ranges = 1 .. Len(ranges)
    BY LenProperties DEF CheckInv, SoundList, Books
  <2>2. /\ ranges[i].lo \in Int /\ ranges[i].hi \in Int
        /\ ranges[j].lo \in Int /\ ranges[j].hi \in Int
    <3>1. ranges \in Seq(Extent)
      BY DEF CheckInv, SoundList, Books
    <3>2. ranges[i] \in Extent /\ ranges[j] \in Extent
      BY <2>1, <3>1, ElementOfSeq
    <3> QED
      BY <3>2 DEF Extent
  <2>3. ~(ranges[i].lo < ranges[j].lo /\ ranges[j].hi < ranges[i].hi)
    BY <2>2 DEF Length
  <2> QED
    BY <2>1, <2>3 DEF CheckInv, SoundList, Nested, Disjoint
<1> QED
  BY <1>1, CheckInvariant, PTL

-----------------------------------------------------------------------------
(* The sampler.  Least and greatest elements.                              *)

\* A nonempty set of naturals has a least element.
LEMMA MinNat ==
    ASSUME NEW S, S \subseteq Nat, S # {}
    PROVE  Min(S) \in S /\ \A y \in S : Min(S) <= y
<1>1. PICK x \in S : \A y \in S : x <= y
  BY LeastNat
<1> QED
  BY <1>1 DEF Min

\* A nonempty set of naturals below a bound has a greatest element.
LEMMA MaxNat ==
    ASSUME NEW S, NEW b \in Nat, S \subseteq 0 .. b, S # {}
    PROVE  Max(S) \in S /\ \A y \in S : Max(S) >= y
<1>1. S \subseteq Int /\ b \in Int /\ \A y \in S : y <= b
  OBVIOUS
<1>2. Max(S) \in S /\ \A y \in S : y <= Max(S)
  BY <1>1, MaxOf
<1> QED
  BY <1>2

-----------------------------------------------------------------------------
(* The counter.                                                            *)

\* Division by the number of values of a word.
LEMMA DivMod ==
    ASSUME NEW W \in Nat \ {0}, NEW x \in Int
    PROVE  /\ x \div W \in Int /\ x % W \in 0 .. W - 1
           /\ x = W * (x \div W) + (x % W)
OBVIOUS

\* A remainder is determined by its range.
LEMMA ModUnique ==
    ASSUME NEW W \in Nat \ {0}, NEW k \in Int, NEW r \in 0 .. W - 1
    PROVE  (r + W * k) % W = r
<1> DEFINE x == r + W * k
           q == x \div W
           m == x % W
<1>1. x \in Int
  OBVIOUS
<1>2. q \in Int /\ m \in 0 .. W - 1 /\ x = W * q + m
  BY <1>1, DivMod
<1> HIDE DEF q, m
<1>3. W * (q - k) = r - m
  BY <1>2
<1>4. q - k = 0
  <2>1. q - k \in Int /\ r - m < W /\ r - m > -W
    BY <1>2
  <2>2. ~(q - k >= 1)
    BY <1>3, <2>1
  <2>3. ~(q - k <= -1)
    BY <1>3, <2>1
  <2> QED
    BY <2>1, <2>2, <2>3
<1>5. m = r
  BY <1>2, <1>3, <1>4
<1> QED
  BY <1>5 DEF m

\* A number below W * W has one representation by two words.
LEMMA HighWord ==
    ASSUME NEW W \in Nat \ {0}, NEW h \in Int, NEW l \in 0 .. W - 1,
           h * W + l \in 0 .. W * W - 1
    PROVE  h \in 0 .. W - 1
<1>1. ~(h <= -1)
  <2> SUFFICES ASSUME h <= -1 PROVE FALSE
    OBVIOUS
  <2>1. h * W <= (-1) * W
    OBVIOUS
  <2> QED
    BY <2>1
<1>2. ~(h >= W)
  <2> SUFFICES ASSUME h >= W PROVE FALSE
    OBVIOUS
  <2>1. h * W >= W * W
    OBVIOUS
  <2> QED
    BY <2>1
<1> QED
  BY <1>1, <1>2

\* The difference of two words is that of the numbers they are the low words of.
LEMMA WordDifference ==
    ASSUME NEW W \in Nat \ {0}, NEW x \in Int, NEW y \in Int, NEW c \in Int,
           x - y - c \in 0 .. W - 1
    PROVE  ((x % W) - (y % W) - c) % W = x - y - c
<1> DEFINE p == x \div W
           q == y \div W
           r == x % W
           s == y % W
<1>1. /\ p \in Int /\ r \in Int /\ x = W * p + r
      /\ q \in Int /\ s \in Int /\ y = W * q + s
  BY DivMod
<1> HIDE DEF p, q, r, s
<1>2. r - s - c = (x - y - c) + W * (q - p)
  BY <1>1
<1>3. ((x - y - c) + W * (q - p)) % W = x - y - c
  <2> DEFINE k == q - p
             e == x - y - c
  <2>1. k \in Int /\ e \in 0 .. W - 1
    BY <1>1
  <2> HIDE DEF k, e
  <2>2. (e + W * k) % W = e
    BY <2>1, ModUnique
  <2> QED
    BY <2>2 DEF k, e
<1>4. (r - s - c) % W = x - y - c
  BY <1>2, <1>3
<1> QED
  BY <1>4 DEF r, s

\* get_counter: between two readings less than WORD * WORD cycles apart the
\* subtraction by words gives the cycles, whatever wrapped around in between.
LEMMA CounterExact ==
    ASSUME NEW start \in Nat, NEW t \in 0 .. WORD * WORD - 1
    PROVE  get_counter(start, start + t) = t
<1> DEFINE now == start + t
           s == start \div WORD
           b == start % WORD
           n == now \div WORD
           d == now % WORD
           lo == (d - b) % WORD
           borrow == IF lo > d THEN 1 ELSE 0
<1>0. WORD \in Nat \ {0} /\ now \in Int /\ start \in Int
  BY FCycAssumption
<1>1. /\ s \in Int /\ b \in 0 .. WORD - 1 /\ start = WORD * s + b
      /\ n \in Int /\ d \in 0 .. WORD - 1 /\ now = WORD * n + d
  BY <1>0, DivMod
<1>2. get_counter(start, now) =
        (((n % WORD) - (s % WORD) - borrow) % WORD) * WORD + lo
  BY DEF get_counter, access_counter
<1>3. now = start + t
  OBVIOUS
<1>w. (d - b) % WORD = IF d >= b THEN d - b ELSE d - b + WORD
  <2> HIDE DEF d, b
  <2>1. CASE d >= b
    <3>1. d - b \in 0 .. WORD - 1
      BY <1>0, <1>1, <2>1
    <3>2. ((d - b) + WORD * 0) % WORD = d - b
      BY <1>0, <3>1, ModUnique
    <3> QED
      BY <1>0, <1>1, <2>1, <3>2
  <2>2. CASE ~(d >= b)
    <3>1. d - b + WORD \in 0 .. WORD - 1
      BY <1>0, <1>1, <2>2
    <3>2. ((d - b + WORD) + WORD * (-1)) % WORD = d - b + WORD
      BY <1>0, <3>1, ModUnique
    <3>3. (d - b + WORD) + WORD * (-1) = d - b
      BY <1>0, <1>1
    <3> QED
      BY <2>2, <3>2, <3>3
  <2> QED
    BY <2>1, <2>2
<1> HIDE DEF now, s, b, n, d
<1>4. /\ lo \in 0 .. WORD - 1
      /\ borrow \in Int
      /\ (n - s - borrow) * WORD + lo = t
  <2>1. WORD * n + d = WORD * s + b + t
    BY <1>1, <1>3
  <2>2. CASE d >= b
    <3>1. lo = d - b /\ borrow = 0
      BY <1>w, <1>1, <2>2
    <3>2. (n - s - 0) * WORD = WORD * n - WORD * s
      BY <1>0, <1>1
    <3> HIDE DEF lo, borrow
    <3> QED
      BY <1>0, <1>1, <2>1, <2>2, <3>1, <3>2
  <2>3. CASE ~(d >= b)
    <3>1. lo = d - b + WORD /\ borrow = 1
      BY <1>0, <1>w, <1>1, <2>3
    <3>2. (n - s - 1) * WORD = WORD * n - WORD * s - WORD
      BY <1>0, <1>1
    <3> HIDE DEF lo, borrow
    <3> QED
      BY <1>0, <1>1, <2>1, <2>3, <3>1, <3>2
  <2> QED
    BY <2>2, <2>3
<1> HIDE DEF lo, borrow
<1>5. n - s - borrow \in 0 .. WORD - 1
  BY <1>0, <1>1, <1>4, HighWord
<1>6. ((n % WORD) - (s % WORD) - borrow) % WORD = n - s - borrow
  <2>1. \A x, y, c \in Int : x - y - c \in 0 .. WORD - 1 =>
            ((x % WORD) - (y % WORD) - c) % WORD = x - y - c
    BY <1>0, WordDifference
  <2> QED
    BY <1>1, <1>4, <1>5, <2>1, Zenon
<1> QED
  BY <1>2, <1>4, <1>6 DEF now

-----------------------------------------------------------------------------
(* The sampler.                                                            *)

\* The lesser of two naturals.
LEMMA MinOfTwo ==
    ASSUME NEW a \in Nat, NEW b \in Nat
    PROVE  Min({a, b}) = IF a <= b THEN a ELSE b
<1>1. {a, b} \subseteq Nat /\ {a, b} # {}
  OBVIOUS
<1>2. Min({a, b}) \in {a, b} /\ \A y \in {a, b} : Min({a, b}) <= y
  BY <1>1, MinNat
<1> QED
  BY <1>2

\* The first n entries of f are numbers in order.
Ascending(f, n) ==
    /\ \A i \in 1 .. n : f[i] \in Int
    /\ \A i, j \in 1 .. n : i < j => f[i] <= f[j]

\* Where v belongs among the first n entries of f.
Place(f, n, v) == 1 + Max({0} \cup {j \in 1 .. n : f[j] <= v})

\* Where the insertion sort ends in a sorted array: behind everything that is
\* not larger, before everything that is.
LEMMA PlaceProperties ==
    ASSUME NEW n \in Nat, NEW f, NEW v \in Int,
           Ascending(f, n)
    PROVE  /\ Place(f, n, v) \in 1 .. n + 1
           /\ \A i \in 1 .. n : f[i] <= v <=> i < Place(f, n, v)
<1> USE DEF Ascending
<1> DEFINE place == Place(f, n, v)
           S == {0} \cup {j \in 1 .. n : f[j] <= v}
           m == Max(S)
<1>1. S \subseteq 0 .. n /\ S # {}
  OBVIOUS
<1>2. m \in S /\ \A y \in S : m >= y
  BY <1>1, MaxNat
<1>3. place = 1 + m
  BY DEF Place
<1> HIDE DEF m, place
<1>4. m \in 0 .. n
  BY <1>1, <1>2
<1>5. ASSUME NEW i \in 1 .. n, f[i] <= v
      PROVE  i < place
  <2>1. i \in S
    BY <1>5
  <2>2. m >= i
    BY <1>2, <2>1
  <2> QED
    BY <1>3, <1>4, <2>2
<1>6. ASSUME NEW i \in 1 .. n, i < place
      PROVE  f[i] <= v
  <2>1. m # 0 /\ m \in 1 .. n /\ i <= m
    BY <1>3, <1>4, <1>6
  <2>2. f[m] <= v
    BY <1>2, <2>1
  <2>3. f[i] <= f[m]
    BY <2>1
  <2>4. f[i] \in Int /\ f[m] \in Int
    BY <2>1
  <2> QED
    BY <2>2, <2>3, <2>4
<1>7. place \in 1 .. n + 1
  BY <1>3, <1>4
<1> QED
  BY <1>5, <1>6, <1>7 DEF place

\* p numbers the samples in order, and vals holds the first n of them.
Ranks(p, smp, vals, n) ==
    /\ p \in Bijection(DOMAIN smp, DOMAIN smp)
    /\ \A i, j \in DOMAIN smp : i < j => smp[p[i]] <= smp[p[j]]
    /\ \A i \in 1 .. n : vals[i] = smp[p[i]]

\* The new sample takes its rank q among the old ones.
Inserted(p, m, q) ==
    [i \in 1 .. m + 1 |->
        IF i < q THEN p[i] ELSE IF i = q THEN m + 1 ELSE p[i - 1]]

\* With the new sample inserted behind those not larger the numbering is again
\* one, and in order.
LEMMA InsertedRanks ==
    ASSUME NEW smp \in Seq(Int), NEW v \in Int,
           NEW p, NEW vals, Ranks(p, smp, vals, 0),
           NEW q \in 1 .. Len(smp) + 1,
           \A i \in 1 .. Len(smp) : smp[p[i]] <= v <=> i < q
    PROVE  Ranks(Inserted(p, Len(smp), q), Append(smp, v), vals, 0)
<1> DEFINE m == Len(smp)
           new == Append(smp, v)
           r == Inserted(p, m, q)
<1>1. m \in Nat /\ DOMAIN smp = 1 .. m /\ \A i \in 1 .. m : smp[i] \in Int
  BY LenProperties, ElementOfSeq
<1>2. /\ DOMAIN new = 1 .. m + 1
      /\ \A i \in 1 .. m : new[i] = smp[i]
      /\ new[m + 1] = v
  BY <1>1, AppendProperties, LenProperties
<1>3. /\ p \in [1 .. m -> 1 .. m]
      /\ \A i, j \in 1 .. m : p[i] = p[j] => i = j
      /\ \A t \in 1 .. m : \E i \in 1 .. m : p[i] = t
      /\ \A i, j \in 1 .. m : i < j => smp[p[i]] <= smp[p[j]]
  BY <1>1 DEF Ranks, Bijection, Injection, Surjection, IsInjective
<1>4. q \in 1 .. m + 1 /\ \A i \in 1 .. m : smp[p[i]] <= v <=> i < q
  OBVIOUS
<1> HIDE DEF m, new
<1>5. \A i \in 1 .. m + 1 :
        /\ i < q => i \in 1 .. m /\ r[i] = p[i]
        /\ i = q => r[i] = m + 1
        /\ i > q => i - 1 \in 1 .. m /\ r[i] = p[i - 1]
  BY <1>1, <1>4 DEF Inserted
<1>f. r = [i \in 1 .. m + 1 |-> r[i]]
  BY DEF Inserted
<1> HIDE DEF r
<1>6. r \in [1 .. m + 1 -> 1 .. m + 1]
  <2>a. \A i \in 1 .. m : p[i] \in 1 .. m
    BY <1>3
  <2>b. 1 .. m \subseteq 1 .. m + 1
    BY <1>1
  <2>1. \A i \in 1 .. m : p[i] \in 1 .. m + 1
    BY <2>a, <2>b
  <2>2. m + 1 \in 1 .. m + 1
    BY <1>1
  <2>3. ASSUME NEW i \in 1 .. m + 1 PROVE r[i] \in 1 .. m + 1
    <3>1. i < q \/ i = q \/ i > q
      BY <1>4
    <3> QED
      BY <1>5, <2>1, <2>2, <3>1
  <2> QED
    BY <1>f, <2>3
<1>7. ASSUME NEW i \in 1 .. m + 1, NEW j \in 1 .. m + 1, r[i] = r[j]
      PROVE  i = j
  <2>1. \A x \in 1 .. m : p[x] # m + 1
    BY <1>1, <1>3
  <2>2. CASE i = q
    BY <1>1, <1>4, <1>5, <1>7, <2>1, <2>2
  <2>3. CASE j = q
    BY <1>1, <1>4, <1>5, <1>7, <2>1, <2>3
  <2>4. CASE i < q /\ j < q
    BY <1>3, <1>5, <1>7, <2>4
  <2>5. CASE i < q /\ j > q
    <3>1. i \in 1 .. m /\ j - 1 \in 1 .. m /\ p[i] = p[j - 1]
      BY <1>5, <1>7, <2>5
    <3>2. i = j - 1
      BY <1>3, <3>1
    <3> QED
      BY <1>4, <2>5, <3>2
  <2>6. CASE i > q /\ j < q
    <3>1. j \in 1 .. m /\ i - 1 \in 1 .. m /\ p[j] = p[i - 1]
      BY <1>5, <1>7, <2>6
    <3>2. j = i - 1
      BY <1>3, <3>1
    <3> QED
      BY <1>4, <2>6, <3>2
  <2>7. CASE i > q /\ j > q
    <3>1. i - 1 \in 1 .. m /\ j - 1 \in 1 .. m /\ p[i - 1] = p[j - 1]
      BY <1>5, <1>7, <2>7
    <3>2. i - 1 = j - 1
      BY <1>3, <3>1
    <3> QED
      BY <3>2
  <2> QED
    BY <1>4, <2>2, <2>3, <2>4, <2>5, <2>6, <2>7
<1>8. ASSUME NEW t \in 1 .. m + 1
      PROVE  \E i \in 1 .. m + 1 : r[i] = t
  <2>1. CASE t = m + 1
    BY <1>4, <1>5, <2>1
  <2>2. CASE t \in 1 .. m
    <3>1. PICK i \in 1 .. m : p[i] = t
      BY <1>3, <2>2
    <3>2. CASE i < q
      <4>1. i \in 1 .. m + 1
        BY <1>1
      <4>2. r[i] = t
        BY <1>5, <3>1, <3>2, <4>1
      <4> QED
        BY <4>1, <4>2
    <3>3. CASE ~(i < q)
      <4>1. i + 1 \in 1 .. m + 1 /\ i + 1 > q /\ (i + 1) - 1 = i
        BY <1>1, <1>4, <3>3
      <4>2. r[i + 1] = t
        BY <1>5, <3>1, <4>1
      <4> QED
        BY <4>1, <4>2
    <3> QED
      BY <3>2, <3>3
  <2> QED
    BY <1>1, <2>1, <2>2
<1>9. r \in Bijection(1 .. m + 1, 1 .. m + 1)
  BY <1>6, <1>7, <1>8 DEF Bijection, Injection, Surjection, IsInjective
<1>10. ASSUME NEW i \in 1 .. m + 1, NEW j \in 1 .. m + 1, i < j
       PROVE  new[r[i]] <= new[r[j]]
  <2>0. \A x \in 1 .. m : p[x] \in 1 .. m /\ new[p[x]] = smp[p[x]] /\ smp[p[x]] \in Int
    BY <1>1, <1>2, <1>3
  <2>1. CASE i < q /\ j < q
    <3>1. i \in 1 .. m /\ j \in 1 .. m /\ r[i] = p[i] /\ r[j] = p[j]
      BY <1>5, <2>1
    <3>2. smp[p[i]] <= smp[p[j]]
      BY <1>3, <1>10, <3>1
    <3> QED
      BY <2>0, <3>1, <3>2
  <2>2. CASE i < q /\ j = q
    BY <1>2, <1>4, <1>5, <2>0, <2>2
  <2>3. CASE i < q /\ j > q
    <3>1. i \in 1 .. m /\ j - 1 \in 1 .. m /\ i <= j - 1
      BY <1>4, <1>5, <1>10, <2>3
    <3>2. smp[p[i]] <= smp[p[j - 1]]
      <4>1. CASE i < j - 1
        BY <1>3, <3>1, <4>1
      <4>2. CASE i = j - 1
        BY <2>0, <3>1, <4>2
      <4> QED
        BY <3>1, <4>1, <4>2
    <3> QED
      BY <1>5, <2>0, <2>3, <3>1, <3>2
  <2>4. CASE i = q /\ j > q
    <3>1. j - 1 \in 1 .. m /\ ~(j - 1 < q)
      BY <1>4, <1>5, <2>4
    <3>2. ~(smp[p[j - 1]] <= v)
      BY <1>4, <3>1
    <3>3. v <= smp[p[j - 1]]
      BY <2>0, <3>1, <3>2
    <3> QED
      BY <1>2, <1>5, <2>0, <2>4, <3>1, <3>3
  <2>5. CASE i > q /\ j > q
    <3>1. i - 1 \in 1 .. m /\ j - 1 \in 1 .. m /\ i - 1 < j - 1
      BY <1>4, <1>5, <1>10, <2>5
    <3>2. smp[p[i - 1]] <= smp[p[j - 1]]
      BY <1>3, <3>1
    <3> QED
      BY <1>5, <2>0, <2>5, <3>1, <3>2
  <2> QED
    BY <1>4, <1>10, <2>1, <2>2, <2>3, <2>4, <2>5
<1>11. Ranks(r, new, vals, 0)
  BY <1>2, <1>9, <1>10 DEF Ranks
<1> QED
  BY <1>11 DEF m, new, r

\* What the sampler holds during a call.
SamplerSound(smp, vals, k) ==
    /\ smp \in Seq(Int)
    /\ vals \in [1 .. k -> Int]
    /\ \E p : Ranks(p, smp, vals, Min({Len(smp), k}))

\* The array after add_sample: the value is inserted at its place when there is
\* room, or when it is less than the last entry, which then is lost.
AddedTo(vals, v, pos) == Sorted([vals EXCEPT ![pos] = v], pos)

\* new is vals with v at place, and what stood from there up to pos moved up.
PutAt(new, vals, v, pos, place) ==
    /\ \A i \in 1 .. pos - 1 : vals[i] <= v <=> i < place
    /\ \A i \in 1 .. place - 1 : new[i] = vals[i]
    /\ new[place] = v
    /\ \A i \in place + 1 .. pos : new[i] = vals[i - 1]

\* The insertion sort of add_sample puts the value where it belongs.
LEMMA SortedProperties ==
    ASSUME NEW k \in Nat, NEW vals \in [1 .. k -> Int], NEW v \in Int,
           NEW pos \in 1 .. k,
           Ascending(vals, pos - 1)
    PROVE  /\ AddedTo(vals, v, pos) \in [1 .. k -> Int]
           /\ \E place \in 1 .. pos : PutAt(AddedTo(vals, v, pos), vals, v, pos, place)
<1> DEFINE f == [vals EXCEPT ![pos] = v]
           place == 1 + Max({0} \cup {j \in 1 .. pos - 1 : f[j] <= f[pos]})
<1>1. /\ f \in [1 .. k -> Int] /\ DOMAIN f = 1 .. k /\ f[pos] = v
      /\ \A i \in 1 .. pos - 1 : f[i] = vals[i]
  OBVIOUS
<1>2. AddedTo(vals, v, pos) =
        [j \in 1 .. k |->
            IF j < place \/ j > pos THEN f[j]
            ELSE IF j = place THEN f[pos] ELSE f[j - 1]]
  BY <1>1 DEF AddedTo, Sorted
<1>3. place = Place(f, pos - 1, v)
  BY <1>1 DEF Place
<1> HIDE DEF f, place
<1>4. pos - 1 \in Nat /\ \A i \in 1 .. pos - 1 : f[i] \in Int /\ i \in 1 .. k
  BY <1>1
<1>5. Ascending(f, pos - 1)
  BY <1>1, <1>4 DEF Ascending
<1>6. /\ place \in 1 .. (pos - 1) + 1
      /\ \A i \in 1 .. pos - 1 : f[i] <= v <=> i < place
  BY <1>3, <1>4, <1>5, PlaceProperties
<1>7. place \in 1 .. pos /\ \A i \in 1 .. pos - 1 : vals[i] <= v <=> i < place
  BY <1>1, <1>6
<1>8. AddedTo(vals, v, pos) \in [1 .. k -> Int]
  <2>1. ASSUME NEW j \in 1 .. k, ~(j < place \/ j > pos), j # place
        PROVE  f[j - 1] \in Int
    BY <1>1, <1>7, <2>1
  <2> QED
    BY <1>1, <1>2, <2>1
<1>9. ASSUME NEW i \in 1 .. place - 1
      PROVE  AddedTo(vals, v, pos)[i] = vals[i]
  BY <1>1, <1>2, <1>7
<1>10. AddedTo(vals, v, pos)[place] = v
  BY <1>1, <1>2, <1>7
<1>11. ASSUME NEW i \in place + 1 .. pos
       PROVE  AddedTo(vals, v, pos)[i] = vals[i - 1]
  <2>1. i \in 1 .. k /\ ~(i < place \/ i > pos) /\ i # place /\ i - 1 \in 1 .. pos - 1
    BY <1>7
  <2> QED
    BY <1>1, <1>2, <2>1
<1> QED
  BY <1>7, <1>8, <1>9, <1>10, <1>11 DEF PutAt

\* add_sample keeps the sampler sound, whichever way it goes.
LEMMA AddSampleSound ==
    ASSUME NEW k \in Nat \ {0}, NEW smp, NEW vals, NEW v \in Int,
           SamplerSound(smp, vals, k),
           NEW new,
           new = IF Len(smp) < k THEN AddedTo(vals, v, Len(smp) + 1)
                 ELSE IF v < vals[k] THEN AddedTo(vals, v, k) ELSE vals
    PROVE  SamplerSound(Append(smp, v), new, k)
<1> DEFINE m == Len(smp)
           n == Min({m, k})
           all == Append(smp, v)
<1>1. smp \in Seq(Int) /\ vals \in [1 .. k -> Int]
  BY DEF SamplerSound
<1>2. PICK p : Ranks(p, smp, vals, n)
  BY DEF SamplerSound
<1>3. m \in Nat /\ DOMAIN smp = 1 .. m /\ \A i \in 1 .. m : smp[i] \in Int
  BY <1>1, LenProperties, ElementOfSeq
<1>4. n = IF m <= k THEN m ELSE k
  BY <1>3, MinOfTwo
<1>5. /\ all \in Seq(Int) /\ Len(all) = m + 1
      /\ \A i \in 1 .. m : all[i] = smp[i]
      /\ all[m + 1] = v
  BY <1>1, AppendProperties
<1>6. /\ p \in [1 .. m -> 1 .. m]
      /\ \A i, j \in 1 .. m : i < j => smp[p[i]] <= smp[p[j]]
      /\ \A i \in 1 .. n : vals[i] = smp[p[i]]
  BY <1>2, <1>3 DEF Ranks, Bijection, Injection
<1>7. Ranks(p, smp, vals, 0)
  BY <1>2 DEF Ranks
<1> DEFINE g == [i \in 1 .. m |-> smp[p[i]]]
           q == Place(g, m, v)
<1>8. q \in 1 .. m + 1 /\ \A i \in 1 .. m : g[i] <= v <=> i < q
  <2>1. \A i \in 1 .. m : g[i] \in Int
    BY <1>3, <1>6
  <2>2. \A i, j \in 1 .. m : i < j => g[i] <= g[j]
    BY <1>6
  <2>3. Ascending(g, m)
    BY <2>1, <2>2 DEF Ascending
  <2> HIDE DEF g, m
  <2> QED
    BY <1>3, <2>3, PlaceProperties
<1> DEFINE r == Inserted(p, m, q)
<1>a. \A i \in 1 .. m : smp[p[i]] <= v <=> i < q
  BY <1>8
<1> HIDE DEF q
<1>9. Ranks(r, all, vals, 0)
  BY <1>1, <1>7, <1>8, <1>a, InsertedRanks
<1>10. /\ \A i \in 1 .. q - 1 : all[r[i]] = smp[p[i]]
       /\ all[r[q]] = v
       /\ \A i \in q + 1 .. m + 1 : all[r[i]] = smp[p[i - 1]]
  <2>1. ASSUME NEW i \in 1 .. q - 1 PROVE all[r[i]] = smp[p[i]]
    <3>1. i \in 1 .. m + 1 /\ i \in 1 .. m /\ i < q
      BY <1>3, <1>8
    <3>2. r[i] = p[i] /\ p[i] \in 1 .. m
      BY <1>6, <3>1 DEF Inserted
    <3> QED
      BY <1>5, <3>2
  <2>2. r[q] = m + 1
    BY <1>8 DEF Inserted
  <2>3. ASSUME NEW i \in q + 1 .. m + 1 PROVE all[r[i]] = smp[p[i - 1]]
    <3>1. i \in 1 .. m + 1 /\ i - 1 \in 1 .. m /\ ~(i < q) /\ i # q
      BY <1>3, <1>8
    <3>2. r[i] = p[i - 1] /\ p[i - 1] \in 1 .. m
      BY <1>6, <3>1 DEF Inserted
    <3> QED
      BY <1>5, <3>2
  <2> QED
    BY <1>5, <2>1, <2>2, <2>3
<1>11. Min({Len(all), k}) = IF m + 1 <= k THEN m + 1 ELSE k
  BY <1>3, <1>5, MinOfTwo
<1> HIDE DEF m, all, r, g, n
<1>12. ASSUME NEW pos \in 1 .. k, new = AddedTo(vals, v, pos), q <= pos,
              pos <= m + 1, pos = IF m + 1 <= k THEN m + 1 ELSE k
       PROVE  new \in [1 .. k -> Int] /\ \A i \in 1 .. pos : new[i] = all[r[i]]
  <2>a. ASSUME NEW i \in 1 .. pos - 1 PROVE i \in 1 .. m /\ i \in 1 .. n
    BY <1>3, <1>4, <1>12
  <2>1. \A i \in 1 .. pos - 1 : i \in 1 .. m /\ vals[i] = smp[p[i]]
    BY <1>6, <2>a
  <2>2. Ascending(vals, pos - 1)
    BY <1>1, <1>6, <2>1 DEF Ascending
  <2>b. k \in Nat
    OBVIOUS
  <2>3. new \in [1 .. k -> Int]
    <3>1. AddedTo(vals, v, pos) \in [1 .. k -> Int]
      BY <1>1, <2>b, <2>2, SortedProperties
    <3> QED
      BY <1>12, <3>1
  <2>4. PICK place \in 1 .. pos :
          /\ \A i \in 1 .. pos - 1 : vals[i] <= v <=> i < place
          /\ \A i \in 1 .. place - 1 : new[i] = vals[i]
          /\ new[place] = v
          /\ \A i \in place + 1 .. pos : new[i] = vals[i - 1]
    <3>1. \E place \in 1 .. pos : PutAt(AddedTo(vals, v, pos), vals, v, pos, place)
      BY <1>1, <2>b, <2>2, SortedProperties
    <3>2. new = AddedTo(vals, v, pos)
      BY <1>12
    <3> QED
      BY <3>1, <3>2 DEF PutAt
  <2>5. place = q
    <3>1. \A i \in 1 .. pos - 1 : i < place <=> i < q
      BY <1>a, <2>1, <2>4
    <3>2. ~(place < q)
      BY <1>8, <1>12, <2>4, <3>1
    <3>3. ~(q < place)
      BY <1>8, <1>12, <2>4, <3>1
    <3> QED
      BY <1>8, <2>4, <3>2, <3>3
  <2>6. ASSUME NEW i \in 1 .. pos PROVE new[i] = all[r[i]]
    <3>1. CASE i < q
      <4>1. i \in 1 .. pos - 1 /\ i \in 1 .. q - 1
        BY <1>8, <1>12, <3>1
      <4> QED
        BY <1>10, <2>1, <2>4, <2>5, <4>1
    <3>2. CASE i = q
      BY <1>10, <2>4, <2>5, <3>2
    <3>3. CASE i > q
      <4>1. i \in q + 1 .. pos /\ i \in q + 1 .. m + 1 /\ i - 1 \in 1 .. pos - 1
        BY <1>3, <1>8, <1>12, <3>3
      <4> QED
        BY <1>10, <2>1, <2>4, <2>5, <4>1
    <3> QED
      BY <1>8, <3>1, <3>2, <3>3
  <2> QED
    BY <2>3, <2>6
<1>13. new \in [1 .. k -> Int]
       /\ \A i \in 1 .. Min({Len(all), k}) : new[i] = all[r[i]]
  <2>1. CASE m < k
    <3>1. m + 1 \in 1 .. k /\ m + 1 <= k /\ q <= m + 1
      BY <1>3, <1>8, <2>1
    <3>2. new = AddedTo(vals, v, m + 1)
      BY <2>1 DEF m
    <3> QED
      BY <1>3, <1>11, <1>12, <3>1, <3>2
  <2>2. CASE ~(m < k) /\ v < vals[k]
    <3>1. k \in 1 .. k /\ k <= m + 1 /\ ~(m + 1 <= k) /\ k \in 1 .. m /\ k \in 1 .. n
      BY <1>3, <1>4, <2>2
    <3>2. ~(smp[p[k]] <= v)
      BY <1>1, <1>6, <2>2, <3>1
    <3>3. ~(k < q)
      BY <1>a, <3>1, <3>2
    <3>4. q <= k
      BY <1>8, <3>3
    <3>5. new = AddedTo(vals, v, k)
      BY <2>2 DEF m
    <3> QED
      BY <1>11, <1>12, <3>1, <3>4, <3>5
  <2>3. CASE ~(m < k) /\ ~(v < vals[k])
    <3>1. k \in 1 .. m /\ k \in 1 .. n /\ ~(m + 1 <= k) /\ n = k
      BY <1>3, <1>4, <2>3
    <3>2. smp[p[k]] <= v
      BY <1>1, <1>6, <2>3, <3>1
    <3>3. k < q
      BY <1>a, <3>1, <3>2
    <3>4. new = vals
      BY <2>3 DEF m
    <3>5. ASSUME NEW i \in 1 .. k PROVE new[i] = all[r[i]]
      <4>1. i \in 1 .. q - 1 /\ i \in 1 .. n
        BY <1>8, <3>1, <3>3
      <4> QED
        BY <1>6, <1>10, <3>4, <4>1
    <3> QED
      BY <1>1, <1>11, <3>1, <3>4, <3>5
  <2> QED
    BY <2>1, <2>2, <2>3
<1>14. Ranks(r, all, new, Min({Len(all), k}))
  BY <1>9, <1>13 DEF Ranks
<1> QED
  BY <1>5, <1>13, <1>14 DEF SamplerSound, all

-----------------------------------------------------------------------------
(* The invariant.                                                          *)

\* The setters leave usable parameters, and the calibration a ratio.
ParametersOK ==
    /\ kbest \in Nat \ {0} /\ maxsamples \in Nat \ {0}
    /\ epsilon \in Nat /\ cyc_per_tick \in Nat

\* In a call the sampler holds the best of its samples and has counted them.
SamplingOK ==
    where = "sampling" =>
        SamplerSound(samples, values, kbest) /\ samplecount = Len(samples)

FCycInv == ParametersOK /\ SamplingOK /\ BufferFits

\* A fresh sampler is sound.
LEMMA EmptySamplerSound ==
    ASSUME NEW k \in Nat, NEW vals, vals = [j \in 1 .. k |-> 0]
    PROVE  SamplerSound(<<>>, vals, k)
<1>1. <<>> \in Seq(Int) /\ Len(<<>>) = 0 /\ DOMAIN <<>> = {}
  OBVIOUS
<1>2. Min({Len(<<>>), k}) = 0
  BY <1>1, MinOfTwo
<1>3. <<>> \in Bijection({}, {})
  BY DEF Bijection, Injection, Surjection, IsInjective
<1>4. Ranks(<<>>, <<>>, vals, 0)
  BY <1>1, <1>3 DEF Ranks
<1>5. vals \in [1 .. k -> Int]
  OBVIOUS
<1> QED
  BY <1>1, <1>2, <1>4, <1>5 DEF SamplerSound

\* A round that measures v and records it keeps the invariant of the sampler.
LEMMA RoundSound ==
    ASSUME NEW v \in Int, ParametersOK, SamplingOK, where = "sampling",
           add_sample(v), samples' = Append(samples, v),
           UNCHANGED <<where, kbest>>
    PROVE  SamplingOK'
<1>1. SamplerSound(samples, values, kbest) /\ samplecount = Len(samples)
  BY DEF SamplingOK
<1>2. kbest \in Nat \ {0} /\ samples \in Seq(Int) /\ Len(samples) \in Nat
  BY <1>1, LenProperties DEF ParametersOK, SamplerSound
<1>3. values' = IF Len(samples) < kbest
                THEN AddedTo(values, v, Len(samples) + 1)
                ELSE IF v < values[kbest] THEN AddedTo(values, v, kbest)
                ELSE values
  <2>1. values' = IF Position(v) = 0 THEN values
                  ELSE AddedTo(values, v, Position(v))
    BY DEF add_sample, AddedTo
  <2>2. Position(v) = IF Len(samples) < kbest THEN Len(samples) + 1
                      ELSE IF v < values[kbest] THEN kbest ELSE 0
    BY <1>1 DEF Position
  <2>3. Len(samples) + 1 # 0 /\ kbest # 0
    BY <1>2
  <2> QED
    BY <2>1, <2>2, <2>3
<1>4. SamplerSound(Append(samples, v), values', kbest)
  BY <1>1, <1>2, <1>3, AddSampleSound
<1>5. samplecount' = Len(samples')
  BY <1>1, <1>2, AppendProperties DEF add_sample
<1> QED
  BY <1>4, <1>5 DEF SamplingOK

\* The calibration finds a ratio or none.
LEMMA CalibrateType ==
    ASSUME NEW events \in Calibrations
    PROVE  callibrate(events) \in Nat
<1> DEFINE R == {cpt \in events : cpt > RECORDTHRESH}
<1>1. R \subseteq Nat
  BY FCycAssumption
<1>2. CASE R = {}
  BY <1>2 DEF callibrate
<1>3. CASE R # {}
  <2>1. Min(R) \in R
    BY <1>1, <1>3, MinNat
  <2> QED
    BY <1>1, <1>3, <2>1 DEF callibrate
<1> QED
  BY <1>2, <1>3

\* fcyc starts with the invariant,
LEMMA FCycInitHolds == FCycInit => FCycInv
BY FCycAssumption
   DEF FCycInit, FCycInv, ParametersOK, SamplingOK, BufferFits

\* and each step keeps it.
LEMMA FCycStepHolds == FCycInv /\ [FCycNext]_fcycVars => FCycInv'
<1> SUFFICES ASSUME FCycInv, [FCycNext]_fcycVars PROVE FCycInv'
  OBVIOUS
<1> USE DEF FCycInv
<1>1. CASE init_sampler
  <2>1. UNCHANGED <<kbest, maxsamples, epsilon, cyc_per_tick, cache_buf, cache_bytes>>
    BY <1>1 DEF init_sampler, parameters, cache
  <2>2. ParametersOK' /\ BufferFits'
    BY <2>1 DEF ParametersOK, BufferFits
  <2>3. kbest \in Nat
    BY DEF ParametersOK
  <2>4. SamplerSound(samples', values', kbest')
    BY <1>1, <2>1, <2>3, EmptySamplerSound DEF init_sampler
  <2>5. samplecount' = Len(samples')
    BY <1>1 DEF init_sampler
  <2> QED
    BY <2>2, <2>4, <2>5 DEF SamplingOK
<1>2. ASSUME IF clear_cache THEN clear ELSE UNCHANGED cache
      PROVE  BufferFits'
  BY <1>2 DEF clear, cache, BufferFits
<1>3. ASSUME NEW start \in Starts, NEW t \in Times, Measure(start, t)
      PROVE  FCycInv'
  <2>1. start \in Nat /\ t \in 0 .. WORD * WORD - 1 /\ t \in Int
    BY FCycAssumption
  <2>2. get_counter(start, start + t) = t
    BY <2>1, CounterExact
  <2>3. add_sample(t) /\ samples' = Append(samples, t) /\ where = "sampling"
    BY <1>3, <2>2 DEF Measure
  <2>4. UNCHANGED <<kbest, maxsamples, epsilon, cyc_per_tick, where>>
    BY <1>3 DEF Measure, parameters
  <2>5. SamplingOK'
    BY <2>1, <2>3, <2>4, RoundSound
  <2>6. ParametersOK'
    BY <2>4 DEF ParametersOK
  <2>7. BufferFits'
    BY <1>2, <1>3 DEF Measure
  <2> QED
    BY <2>5, <2>6, <2>7
<1>4. ASSUME NEW start \in Starts, NEW t \in Times, NEW ticks \in Ticks,
             NEW events \in Calibrations,
             MeasureCompensated(start, t, ticks, events)
      PROVE  FCycInv'
  <2>1. start \in Nat /\ t \in 0 .. WORD * WORD - 1 /\ t \in Int /\ ticks \in Nat
    BY FCycAssumption
  <2>2. get_counter(start, start + t) = t
    BY <2>1, CounterExact
  <2>3. cyc_per_tick' \in Nat
    BY <1>4, CalibrateType DEF MeasureCompensated, start_comp_counter, ParametersOK
  <2> DEFINE v == t - ticks * cyc_per_tick'
  <2>4. v \in Int
    BY <2>1, <2>3
  <2>5. add_sample(v) /\ samples' = Append(samples, v) /\ where = "sampling"
    BY <1>4, <2>2 DEF MeasureCompensated, get_comp_counter
  <2>6. UNCHANGED <<kbest, maxsamples, epsilon, where>>
    BY <1>4 DEF MeasureCompensated, parameters
  <2> HIDE DEF v
  <2>7. SamplingOK'
    BY <2>4, <2>5, <2>6, RoundSound
  <2>8. ParametersOK'
    BY <2>3, <2>6 DEF ParametersOK
  <2>9. BufferFits'
    BY <1>2, <1>4 DEF MeasureCompensated
  <2> QED
    BY <2>7, <2>8, <2>9
<1>5. CASE Round
  BY <1>3, <1>4, <1>5 DEF Round
<1>6. CASE ClearFails
  BY <1>6 DEF ClearFails, ParametersOK, SamplingOK, BufferFits, parameters, cache
<1>7. CASE UNCHANGED fcycVars
  BY <1>7 DEF fcycVars, parameters, cache, sampler, ParametersOK, SamplingOK, BufferFits
<1>8. CASE ClearLoops
  BY <1>7, <1>8 DEF ClearLoops
<1>9. CASE ReturnBest
  BY <1>9 DEF ReturnBest, ParametersOK, SamplingOK, BufferFits, parameters, cache
<1>10. CASE SetParameter
  <2>0. where = "idle" /\ UNCHANGED <<where, cyc_per_tick>>
    BY <1>10 DEF SetParameter, set_fcyc_k, set_fcyc_maxsamples, set_fcyc_epsilon,
       set_fcyc_compensate, set_fcyc_clear_cache, set_fcyc_cache_size,
       set_fcyc_cache_block, sampler
  <2>1. SamplingOK'
    BY <2>0 DEF SamplingOK
  <2>2. ParametersOK'
    BY <1>10, <2>0, FCycAssumption
       DEF ParametersOK, SetParameter, set_fcyc_k, set_fcyc_maxsamples,
       set_fcyc_epsilon, set_fcyc_compensate, set_fcyc_clear_cache,
       set_fcyc_cache_size, set_fcyc_cache_block, parameters
  <2>3. BufferFits'
    BY <1>10 DEF BufferFits, SetParameter, set_fcyc_k, set_fcyc_maxsamples,
       set_fcyc_epsilon, set_fcyc_compensate, set_fcyc_clear_cache,
       set_fcyc_cache_size, set_fcyc_cache_block, cache
  <2> QED
    BY <2>1, <2>2, <2>3
<1> QED
  BY <1>1, <1>5, <1>6, <1>7, <1>8, <1>9, <1>10 DEF FCycNext

\* The sampler of fcyc keeps its invariant through every call, every setting of
\* the parameters between calls and every wrap of the counter.
THEOREM FCycInvariant == FCycSpec => []FCycInv
BY FCycInitHolds, FCycStepHolds, PTL DEF FCycSpec

\* clear() never reads past its buffer, for every sequence of cache sizes.
THEOREM FCycBufferFits == FCycSpec => []BufferFits
<1>1. FCycInv => BufferFits
  BY DEF FCycInv
<1> QED
  BY <1>1, FCycInvariant, PTL

\* add_sample: for every order in which the times arrive, every kbest and every
\* position of the counter, values holds the least of the true times in order.
THEOREM FCycKSmallest == FCycSpec => []KSmallest
<1>1. FCycInv => KSmallest
  <2> SUFFICES ASSUME FCycInv, where = "sampling"
               PROVE  \E p \in Bijection(DOMAIN samples, DOMAIN samples) :
                        /\ \A i, j \in DOMAIN samples :
                             i < j => samples[p[i]] <= samples[p[j]]
                        /\ \A i \in 1 .. Min({samplecount, kbest}) :
                             values[i] = samples[p[i]]
    BY DEF KSmallest
  <2>1. SamplerSound(samples, values, kbest) /\ samplecount = Len(samples)
    BY DEF FCycInv, SamplingOK
  <2>2. PICK p : Ranks(p, samples, values, Min({samplecount, kbest}))
    BY <2>1 DEF SamplerSound
  <2> QED
    BY <2>2 DEF Ranks
<1> QED
  BY <1>1, FCycInvariant, PTL

-----------------------------------------------------------------------------
(* The result.                                                             *)

\* fcyc returns the least of the true times of the call; it gives up only after
\* maxsamples, otherwise kbest of the samples lie within epsilon of the result.
THEOREM FCycResultIsBest == FCycSpec => ResultIsBest
<1>1. ASSUME FCycInv, ReturnBest
      PROVE  /\ result' = Min(ToSet(samples))
             /\ \/ Len(samples) >= maxsamples
                \/ Cardinality({j \in DOMAIN samples :
                       100 * samples[j] <= (100 + epsilon) * result'}) >= kbest
  <2> DEFINE m == Len(samples)
             J == {j \in DOMAIN samples :
                       100 * samples[j] <= (100 + epsilon) * result'}
  <2>1. SamplerSound(samples, values, kbest) /\ samplecount = m
    BY <1>1 DEF FCycInv, SamplingOK, ReturnBest
  <2>2. /\ kbest \in Nat \ {0} /\ epsilon \in Nat /\ maxsamples \in Nat
        /\ samples \in Seq(Int) /\ values \in [1 .. kbest -> Int]
    BY <1>1, <2>1 DEF FCycInv, ParametersOK, SamplerSound
  <2>3. /\ m \in Nat /\ DOMAIN samples = 1 .. m
        /\ \A i \in 1 .. m : samples[i] \in Int
    BY <2>2, LenProperties, ElementOfSeq
  <2>4. PICK p : Ranks(p, samples, values, Min({m, kbest}))
    BY <2>1 DEF SamplerSound
  <2>5. /\ p \in [1 .. m -> 1 .. m]
        /\ \A i, j \in 1 .. m : p[i] = p[j] => i = j
        /\ \A t \in 1 .. m : \E i \in 1 .. m : p[i] = t
        /\ \A i, j \in 1 .. m : i < j => samples[p[i]] <= samples[p[j]]
        /\ \A i \in 1 .. Min({m, kbest}) : values[i] = samples[p[i]]
    BY <2>3, <2>4 DEF Ranks, Bijection, Injection, Surjection, IsInjective
  <2>6. Min({m, kbest}) = IF m <= kbest THEN m ELSE kbest
    BY <2>2, <2>3, MinOfTwo
  <2>7. m > 0 /\ result' = values[1] /\ ~Again
    BY <1>1, <2>1 DEF ReturnBest
  <2> HIDE DEF m, J
  <2>8. /\ 1 \in 1 .. m /\ 1 \in 1 .. Min({m, kbest})
        /\ result' = samples[p[1]] /\ result' \in Int
    <3>1. 1 \in 1 .. m /\ 1 \in 1 .. Min({m, kbest})
      BY <2>2, <2>3, <2>6, <2>7
    <3> QED
      BY <2>3, <2>5, <2>7, <3>1
  <2>9. result' = Min(ToSet(samples))
    <3>0. ToSet(samples) = {samples[i] : i \in 1 .. m}
      BY <2>3 DEF ToSet
    <3>a. p[1] \in 1 .. m
      BY <2>5, <2>8
    <3>1. ToSet(samples) \subseteq Int /\ result' \in ToSet(samples)
      BY <2>3, <2>8, <3>0, <3>a
    <3>2. ASSUME NEW t \in 1 .. m PROVE result' <= samples[t]
      <4>1. PICK i \in 1 .. m : p[i] = t
        BY <2>5
      <4>2. CASE i = 1
        BY <2>8, <4>1, <4>2
      <4>3. CASE 1 < i
        BY <2>5, <2>8, <4>1, <4>3
      <4> QED
        BY <2>3, <4>2, <4>3
    <3>3. \A y \in ToSet(samples) : result' <= y
      BY <2>3, <3>2 DEF ToSet
    <3> QED
      BY <3>1, <3>3, MinIs
  <2>10. CASE samplecount >= maxsamples
    BY <2>1, <2>9, <2>10 DEF m
  <2>11. CASE samplecount < maxsamples
    <3>1. samplecount >= kbest /\ (100 + epsilon) * values[1] >= 100 * values[kbest]
      BY <2>7, <2>11 DEF Again, has_converged
    <3>2. Min({m, kbest}) = kbest /\ kbest \in 1 .. m /\ kbest \in 1 .. kbest
      BY <2>1, <2>2, <2>3, <2>6, <3>1
    <3>3. values[kbest] = samples[p[kbest]] /\ values[kbest] \in Int
      BY <2>2, <2>5, <3>2
    <3>4. ASSUME NEW i \in 1 .. kbest PROVE i \in 1 .. m /\ p[i] \in J
      <4>1. i \in 1 .. m
        BY <2>2, <2>3, <3>2
      <4>2. p[i] \in 1 .. m /\ samples[p[i]] \in Int
        BY <2>3, <2>5, <4>1
      <4>3. samples[p[i]] <= values[kbest]
        <5>1. CASE i = kbest
          BY <3>3, <4>2, <5>1
        <5>2. CASE i < kbest
          BY <2>5, <3>2, <3>3, <4>1, <5>2
        <5> QED
          BY <2>2, <5>1, <5>2
      <4>4. 100 * samples[p[i]] <= 100 * values[kbest]
        BY <3>3, <4>2, <4>3
      <4>5. 100 * samples[p[i]] <= (100 + epsilon) * result'
        <5> DEFINE e == (100 + epsilon) * result'
        <5>1. e \in Int /\ e >= 100 * values[kbest]
          BY <2>2, <2>7, <2>8, <3>1
        <5> HIDE DEF e
        <5>2. 100 * samples[p[i]] <= e
          BY <3>3, <4>2, <4>4, <5>1
        <5> QED
          BY <5>2 DEF e
      <4> QED
        BY <2>3, <4>1, <4>2, <4>5 DEF J
    <3> DEFINE f == [i \in 1 .. kbest |-> p[i]]
    <3>5. f \in Injection(1 .. kbest, J)
      BY <2>5, <3>4 DEF Injection, IsInjective
    <3>6. IsFiniteSet(J)
      <4>1. IsFiniteSet(1 .. m)
        BY <2>3, FS_Interval
      <4>2. J \in SUBSET (1 .. m)
        BY <2>3 DEF J
      <4> QED
        BY <4>1, <4>2, FS_Subset
    <3>7. Cardinality(1 .. kbest) <= Cardinality(J)
      BY <3>5, <3>6, FS_Injection
    <3>8. Cardinality(1 .. kbest) = kbest /\ Cardinality(J) \in Nat
      BY <2>2, <3>6, FS_Interval, FS_CardinalityType
    <3> QED
      BY <2>2, <2>9, <3>7, <3>8 DEF J
  <2> QED
    BY <2>1, <2>2, <2>3, <2>10, <2>11
<1>2. FCycInv /\ [FCycNext]_fcycVars =>
        [ReturnBest =>
            /\ result' = Min(ToSet(samples))
            /\ \/ Len(samples) >= maxsamples
               \/ Cardinality({j \in DOMAIN samples :
                      100 * samples[j] <= (100 + epsilon) * result'}) >= kbest
        ]_fcycVars
  BY <1>1
<1> QED
  BY <1>2, FCycInvariant, PTL DEF FCycSpec, ResultIsBest

-----------------------------------------------------------------------------
(* The inductive invariant.                                                *)

Kind(t) == TESTS[t].kind
Parent(t) == TESTS[t].parent

\* Where a call of run_test is: before the test function, after it, and after
\* its verdict.
Before == {"enter", "start", "body"}
Back == {"passed", "failed"}
Told == {"count_pass", "count_fail", "finish_pass", "finish_fail"}
Pcs == Before \cup Back \cup Told

Frame(t, pc) == [test |-> t, pc |-> pc]

\* The call in progress.
Busy(t, pcs) == calls # <<>> /\ Top.test = t /\ Top.pc \in pcs

LoopInv ==
    /\ at \in 1 .. Len(TESTS) + 1
    /\ complete \subseteq 1 .. at - 1
    /\ phase = "make" => complete = {}

\* The loop's test is at the bottom of the calls, and its parent alone may be
\* above it.
StackInv ==
    calls # <<>> =>
        /\ phase = "tests"
        /\ at - 1 \in Tests
        /\ \E pc \in Pcs :
               \/ /\ Kind(at - 1) \in {"run", "match"}
                  /\ calls = <<Frame(at - 1, pc)>>
               \/ /\ Kind(at - 1) = "match"
                  /\ at - 1 \in complete
                  /\ calls = <<Frame(at - 1, "start"), Frame(Parent(at - 1), pc)>>

\* A test whose call has got past its head is complete, and is the current test
\* while its function and its callbacks run; a test of an output starts when its
\* parent is complete.
CallInv ==
    calls # <<>> =>
        /\ Top.pc # "enter" => Top.test \in complete
        /\ Top.pc \notin {"enter", "start"} => CURRENT_TEST = Top.test
        /\ Kind(Top.test) = "match" /\ Top.pc # "enter" => Parent(Top.test) \in complete

\* The last program that the loop has come to.
Latest(p) ==
    /\ p \in Tests /\ p < at /\ Kind(p) = "run"
    /\ \A u \in p + 1 .. at - 1 : Kind(u) # "run"

\* The output at hand is the output of that program, once it has run.
OutputInv ==
    phase = "tests" =>
        \A p \in Tests :
            Latest(p) /\ p \in complete =>
                proc_output.by = p \/ Busy(p, {"start", "body"})

JudgedInv ==
    /\ judged \in [Tests -> Int]
    /\ \A t \in Tests :
           Kind(t) = "match" /\ (outcome[t] # "none" \/ Busy(t, Back)) =>
               judged[t] = Parent(t)

\* Only the tests of an output fail, and only they have a log file.
FailInv ==
    /\ \A t \in on_finish \cup logs : t \in Tests /\ Kind(t) = "match"
    /\ calls # <<>> =>
           /\ Top.pc \in {"failed", "count_fail", "finish_fail"} => Kind(Top.test) = "match"
           /\ Top.pc \in Back \cup Told /\ Kind(Top.test) = "match" => Top.test \in on_finish

VerdictInv ==
    /\ outcome \in [Tests -> {"none", "pass", "fail"}]
    /\ history \in [Tests -> {"none", "pass", "fail"}]
    /\ calls # <<>> =>
           /\ Top.pc \in Told => outcome[Top.test] # "none"
           /\ Top.pc \in {"count_pass", "finish_pass"} => history[Top.test] = "pass"
           /\ Top.pc \in {"count_fail", "finish_fail"} => history[Top.test] = "fail"

\* The log files tell, except of the test whose verdict is just being told.
LogsInv ==
    \A t \in Tests \ cut : Busy(t, Told) \/ (t \in logs <=> history[t] = "fail")

GradeInv ==
    /\ LoopInv /\ StackInv /\ CallInv /\ OutputInv
    /\ JudgedInv /\ FailInv /\ VerdictInv /\ LogsInv

-----------------------------------------------------------------------------
(* The calls in progress.                                                  *)

\* A frame with a new place.
LEMMA FrameOps ==
    ASSUME NEW t, NEW pc
    PROVE  /\ \A x : [Frame(t, pc) EXCEPT !.pc = x] = Frame(t, x)
           /\ Frame(t, pc).test = t /\ Frame(t, pc).pc = pc
BY DEF Frame

\* One call in progress: its end, and what is left when it returns.
LEMMA OneCall ==
    ASSUME NEW s, NEW f, s = <<f>>
    PROVE  s # <<>> /\ Last(s) = f /\ Front(s) = <<>> /\ Len(s) = 1
<1>1. s # <<>> /\ Len(s) = 1
  OBVIOUS
<1>2. Last(s) = f
  BY DEF Last
<1>3. Front(s) = <<>>
  BY DEF Front
<1> QED
  BY <1>1, <1>2, <1>3

\* Two calls in progress.
LEMMA TwoCalls ==
    ASSUME NEW s, NEW f, NEW g, s = <<f, g>>
    PROVE  s # <<>> /\ Last(s) = g /\ Front(s) = <<f>> /\ Len(s) = 2
<1>1. s # <<>> /\ Len(s) = 2
  OBVIOUS
<1>2. Last(s) = g
  BY DEF Last
<1>3. Front(s) = <<f>>
  <2>1. /\ <<f>> \in Seq({f, g}) /\ Len(<<f>>) = 1 /\ <<f>>[1] = f
        /\ <<f, g>>[1] = f /\ Front(<<f, g>>) = SubSeq(<<f, g>>, 1, 1)
    BY DEF Front
  <2>2. /\ SubSeq(<<f, g>>, 1, 1) \in Seq({f, g})
        /\ Len(SubSeq(<<f, g>>, 1, 1)) = 1
        /\ SubSeq(<<f, g>>, 1, 1)[1] = <<f, g>>[1]
    <3>1. \A i \in 1 .. 1 : <<f, g>>[i] \in {f, g}
      OBVIOUS
    <3> QED
      BY <3>1, SubSeqProperties
  <2>3. Front(<<f, g>>) = <<f>>
    BY <2>1, <2>2, SeqEqual
  <2> QED
    BY <2>3
<1> QED
  BY <1>1, <1>2, <1>3

\* The calls s with a new place for the one on top.
SetPc(s, x) == [s EXCEPT ![Len(s)].pc = x]

\* The call in progress gets to a new place.
LEMMA OneLabel ==
    ASSUME NEW t, NEW pc, NEW x
    PROVE  SetPc(<<Frame(t, pc)>>, x) = <<Frame(t, x)>>
<1> DEFINE f == Frame(t, pc)
<1>1. [f EXCEPT !.pc = x] = Frame(t, x)
  BY FrameOps
<1> HIDE DEF f
<1>2. [<<f>> EXCEPT ![Len(<<f>>)].pc = x] = <<[f EXCEPT !.pc = x]>>
  OBVIOUS
<1> QED
  BY <1>1, <1>2, Zenon DEF SetPc, f

\* The call of a parent gets to a new place.
LEMMA TwoLabel ==
    ASSUME NEW f, NEW p, NEW pc, NEW x
    PROVE  SetPc(<<f, Frame(p, pc)>>, x) = <<f, Frame(p, x)>>
<1> DEFINE g == Frame(p, pc)
<1>1. [g EXCEPT !.pc = x] = Frame(p, x)
  BY FrameOps
<1> HIDE DEF g
<1>2. [<<f, g>> EXCEPT ![Len(<<f, g>>)].pc = x] = <<f, [g EXCEPT !.pc = x]>>
  OBVIOUS
<1> QED
  BY <1>1, <1>2, Zenon DEF SetPc, g

\* One more call.
LEMMA PushCall ==
    ASSUME NEW s, NEW f, NEW g, s = <<f>>
    PROVE  Append(s, g) = <<f, g>>
<1>1. /\ <<f>> \in Seq({f, g}) /\ Len(<<f>>) = 1 /\ <<f>>[1] = f
      /\ <<f, g>> \in Seq({f, g}) /\ Len(<<f, g>>) = 2
      /\ <<f, g>>[1] = f /\ <<f, g>>[2] = g
  OBVIOUS
<1>2. /\ Append(<<f>>, g) \in Seq({f, g}) /\ Len(Append(<<f>>, g)) = 2
      /\ Append(<<f>>, g)[1] = f /\ Append(<<f>>, g)[2] = g
  BY <1>1, AppendProperties
<1> DEFINE a == Append(<<f>>, g)
           b == <<f, g>>
<1>3. /\ a \in Seq({f, g}) /\ b \in Seq({f, g}) /\ Len(a) = Len(b)
      /\ \A i \in 1 .. Len(a) : a[i] = b[i]
  BY <1>1, <1>2
<1> HIDE DEF a, b
<1>4. a = b
  BY <1>3, SeqEqual
<1> QED
  BY <1>4 DEF a, b

\* What is known of the call on top: it is the loop's test or its parent, and the
\* latest program when it runs one.
LEMMA TopFacts ==
    ASSUME LoopInv, StackInv, calls # <<>>
    PROVE  /\ phase = "tests" /\ at - 1 \in Tests
           /\ Top.test \in Tests /\ Top.pc \in Pcs
           /\ Kind(Top.test) \in {"run", "match"}
           /\ Kind(Top.test) = "match" => Top.test = at - 1
           /\ Kind(Top.test) = "run" => Latest(Top.test)
<1>1. phase = "tests" /\ at - 1 \in Tests
  BY DEF StackInv
<1>2. Len(TESTS) \in Nat /\ Tests = 1 .. Len(TESTS) /\ at \in Int
  BY GradeLibAssumption DEF Tests, LoopInv
<1>3. PICK pc \in Pcs :
           \/ /\ Kind(at - 1) \in {"run", "match"}
              /\ calls = <<Frame(at - 1, pc)>>
           \/ /\ Kind(at - 1) = "match"
              /\ at - 1 \in complete
              /\ calls = <<Frame(at - 1, "start"), Frame(Parent(at - 1), pc)>>
  BY DEF StackInv
<1>4. CASE calls = <<Frame(at - 1, pc)>> /\ Kind(at - 1) \in {"run", "match"}
  <2>1. Top = Frame(at - 1, pc)
    BY <1>4, OneCall, TwoCalls DEF Top
  <2>2. Top.test = at - 1 /\ Top.pc = pc
    BY <2>1, FrameOps
  <2>3. Kind(at - 1) = "run" => Latest(at - 1)
    BY <1>1, <1>2 DEF Latest
  <2> QED
    BY <1>1, <1>4, <2>2, <2>3
<1>5. CASE /\ Kind(at - 1) = "match"
           /\ calls = <<Frame(at - 1, "start"), Frame(Parent(at - 1), pc)>>
  <2>1. Top = Frame(Parent(at - 1), pc)
    BY <1>5, OneCall, TwoCalls DEF Top
  <2>2. Top.test = Parent(at - 1) /\ Top.pc = pc
    BY <2>1, FrameOps
  <2>3. /\ Parent(at - 1) \in 1 .. (at - 1) - 1
        /\ Kind(Parent(at - 1)) = "run"
        /\ \A u \in Parent(at - 1) + 1 .. at - 1 : Kind(u) # "run"
    BY <1>1, <1>5, RegistrationAssumption DEF Tests, Kind, Parent
  <2>4. Parent(at - 1) \in Tests /\ Parent(at - 1) < at
    BY <1>1, <1>2, <2>3
  <2> QED
    BY <1>1, <2>2, <2>3, <2>4 DEF Latest
<1> QED
  BY <1>3, <1>4, <1>5

\* A step inside a call.
LEMMA LabelEffect ==
    ASSUME LoopInv, StackInv, calls # <<>>, NEW x \in Pcs, Label(x),
           UNCHANGED <<phase, at>>, complete \subseteq complete'
    PROVE  /\ StackInv'
           /\ calls' # <<>> /\ Top'.test = Top.test /\ Top'.pc = x
<1>1. PICK pc \in Pcs :
           \/ /\ Kind(at - 1) \in {"run", "match"}
              /\ calls = <<Frame(at - 1, pc)>>
           \/ /\ Kind(at - 1) = "match"
              /\ at - 1 \in complete
              /\ calls = <<Frame(at - 1, "start"), Frame(Parent(at - 1), pc)>>
  BY DEF StackInv
<1>2. phase = "tests" /\ at - 1 \in Tests
  BY DEF StackInv
<1>3. CASE calls = <<Frame(at - 1, pc)>> /\ Kind(at - 1) \in {"run", "match"}
  <2>1. calls' = <<Frame(at - 1, x)>> /\ Top = Frame(at - 1, pc)
    <3>1. calls' = SetPc(calls, x)
      BY DEF Label, SetPc
    <3>2. SetPc(calls, x) = <<Frame(at - 1, x)>>
      BY <1>3, OneLabel
    <3> QED
      BY <1>3, <3>1, <3>2, OneCall DEF Top
  <2>2. calls' # <<>> /\ Top' = Frame(at - 1, x)
    BY <2>1, OneCall, TwoCalls DEF Top
  <2>3. StackInv'
    BY <1>2, <1>3, <2>1 DEF StackInv
  <2> QED
    BY <2>1, <2>2, <2>3, FrameOps
<1>4. CASE /\ Kind(at - 1) = "match" /\ at - 1 \in complete
           /\ calls = <<Frame(at - 1, "start"), Frame(Parent(at - 1), pc)>>
  <2>1. /\ calls' = <<Frame(at - 1, "start"), Frame(Parent(at - 1), x)>>
        /\ Top = Frame(Parent(at - 1), pc)
    <3>1. calls' = SetPc(calls, x)
      BY DEF Label, SetPc
    <3>2. SetPc(calls, x)
             = <<Frame(at - 1, "start"), Frame(Parent(at - 1), x)>>
      BY <1>4, TwoLabel
    <3> QED
      BY <1>4, <3>1, <3>2, TwoCalls DEF Top
  <2>2. calls' # <<>> /\ Top' = Frame(Parent(at - 1), x)
    BY <2>1, OneCall, TwoCalls DEF Top
  <2>3. StackInv'
    BY <1>2, <1>4, <2>1 DEF StackInv
  <2> QED
    BY <2>1, <2>2, <2>3, FrameOps
<1> QED
  BY <1>1, <1>3, <1>4

\* The return from a call: to the loop, or from a parent to the loop's test.
LEMMA ReturnEffect ==
    ASSUME LoopInv, StackInv, calls # <<>>, calls' = Caller,
           UNCHANGED <<phase, at>>, complete \subseteq complete'
    PROVE  /\ StackInv'
           /\ \/ calls' = <<>>
              \/ /\ calls' # <<>> /\ Top'.test = at - 1 /\ Top'.pc = "start"
                 /\ Kind(at - 1) = "match" /\ at - 1 \in complete
                 /\ Top.test = Parent(at - 1)
<1>1. PICK pc \in Pcs :
           \/ /\ Kind(at - 1) \in {"run", "match"}
              /\ calls = <<Frame(at - 1, pc)>>
           \/ /\ Kind(at - 1) = "match"
              /\ at - 1 \in complete
              /\ calls = <<Frame(at - 1, "start"), Frame(Parent(at - 1), pc)>>
  BY DEF StackInv
<1>2. phase = "tests" /\ at - 1 \in Tests
  BY DEF StackInv
<1>3. CASE calls = <<Frame(at - 1, pc)>>
  BY <1>3, OneCall, TwoCalls DEF Caller, StackInv
<1>4. CASE /\ Kind(at - 1) = "match" /\ at - 1 \in complete
           /\ calls = <<Frame(at - 1, "start"), Frame(Parent(at - 1), pc)>>
  <2>1. calls' = <<Frame(at - 1, "start")>> /\ Top = Frame(Parent(at - 1), pc)
    BY <1>4, OneCall, TwoCalls DEF Top, Caller
  <2>2. calls' # <<>> /\ Top' = Frame(at - 1, "start")
    BY <2>1, OneCall, TwoCalls DEF Top
  <2>3. StackInv'
    BY <1>2, <1>4, <2>1 DEF StackInv, Pcs, Before
  <2> QED
    BY <1>4, <2>1, <2>2, <2>3, FrameOps
<1> QED
  BY <1>1, <1>3, <1>4

\* The call of a parent.
LEMMA ParentEffect ==
    ASSUME LoopInv, StackInv, calls # <<>>, Kind(Top.test) = "match",
           calls' = Append([calls EXCEPT ![Len(calls)].pc = "start"],
                           [test |-> TESTS[Top.test].parent, pc |-> "enter"]),
           UNCHANGED <<phase, at>>, Top.test \in complete'
    PROVE  /\ StackInv'
           /\ calls' # <<>> /\ Top'.test = Parent(Top.test) /\ Top'.pc = "enter"
<1>1. phase = "tests" /\ at - 1 \in Tests /\ Top.test = at - 1
  BY TopFacts
<1>2. PICK pc \in Pcs :
           \/ /\ Kind(at - 1) \in {"run", "match"}
              /\ calls = <<Frame(at - 1, pc)>>
           \/ /\ Kind(at - 1) = "match"
              /\ at - 1 \in complete
              /\ calls = <<Frame(at - 1, "start"), Frame(Parent(at - 1), pc)>>
  BY DEF StackInv
<1>3. calls = <<Frame(at - 1, pc)>>
  <2>1. Kind(at - 1) = "match" => Parent(at - 1) # at - 1
    <3>1. at \in Int
      BY DEF LoopInv
    <3>2. Kind(at - 1) = "match" => Parent(at - 1) \in 1 .. (at - 1) - 1
      BY <1>1, RegistrationAssumption DEF Tests, Kind, Parent
    <3> QED
      BY <3>1, <3>2
  <2> QED
    BY <1>1, <1>2, <2>1, TwoCalls, FrameOps DEF Top
<1>4. calls' = <<Frame(at - 1, "start"), Frame(Parent(at - 1), "enter")>>
  <2>1. SetPc(calls, "start") = <<Frame(at - 1, "start")>>
    BY <1>3, OneLabel
  <2>2. [test |-> TESTS[Top.test].parent, pc |-> "enter"] = Frame(Parent(at - 1), "enter")
    BY <1>1 DEF Frame, Parent
  <2>3. calls' = Append(SetPc(calls, "start"), Frame(Parent(at - 1), "enter"))
    BY <2>2, Zenon DEF SetPc
  <2> QED
    BY <2>1, <2>3, PushCall, Zenon
<1>5. calls' # <<>> /\ Top' = Frame(Parent(at - 1), "enter")
  BY <1>4, TwoCalls, Zenon DEF Top
<1>6. StackInv'
  BY <1>1, <1>4 DEF StackInv, Pcs, Before
<1> QED
  BY <1>1, <1>5, <1>6, FrameOps

-----------------------------------------------------------------------------
(* Every step keeps the invariant: the process and its loop.               *)

\* No call is in progress when a grader is started, and none of the new process's
\* tests has run.
LEMMA InvokeKeeps ==
    ASSUME GradeInv, Invoke
    PROVE  GradeInv'
<1>1. calls = <<>>
  BY DEF GradeInv, StackInv, Invoke
<1>2. /\ calls' = <<>> /\ phase' = "make" /\ at' = 1 /\ complete' = {} /\ on_finish' = {}
      /\ outcome' = [t \in Tests |-> "none"] /\ judged' = [t \in Tests |-> 0]
      /\ UNCHANGED <<logs, history, cut>>
  BY DEF Invoke, Fresh
<1>3. LoopInv' /\ StackInv' /\ CallInv' /\ OutputInv'
  BY <1>2, GradeLibAssumption DEF LoopInv, StackInv, CallInv, OutputInv
<1>4. JudgedInv' /\ FailInv' /\ VerdictInv'
  BY <1>2 DEF GradeInv, JudgedInv, FailInv, VerdictInv, Busy
<1>5. LogsInv'
  BY <1>1, <1>2 DEF GradeInv, LogsInv, Busy
<1> QED
  BY <1>3, <1>4, <1>5 DEF GradeInv

\* make succeeds or ends the grader; a grader that is through its list exits.
LEMMA ProcessKeeps ==
    ASSUME GradeInv, make \/ Exit
    PROVE  GradeInv'
<1>1. /\ calls = <<>> /\ calls' = <<>>
      /\ UNCHANGED <<at, complete, on_finish, logs, outcome, judged, history, cut>>
  BY DEF make, Exit, observed, GradeInv, StackInv
<1>2. phase' \in {"tests", "exited"} /\ (phase' = "tests" => complete = {})
  BY DEF make, Exit, GradeInv, LoopInv
<1>3. LoopInv' /\ StackInv' /\ CallInv' /\ OutputInv'
  BY <1>1, <1>2 DEF GradeInv, LoopInv, StackInv, CallInv, OutputInv
<1>4. JudgedInv' /\ FailInv' /\ VerdictInv' /\ LogsInv'
  BY <1>1 DEF GradeInv, JudgedInv, FailInv, VerdictInv, LogsInv, Busy
<1> QED
  BY <1>3, <1>4 DEF GradeInv

\* A keyboard interrupt cuts off the call in progress: its log file may be missing
\* or out of date exactly when its verdict has been told.
LEMMA InterruptKeeps ==
    ASSUME GradeInv, Interrupt
    PROVE  GradeInv'
<1>1. /\ calls' = <<>> /\ phase' \in {"traceback", "exited"}
      /\ cut' = IF calls # <<>> /\ outcome[Top.test] # "none" THEN cut \cup {Top.test} ELSE cut
      /\ UNCHANGED <<at, complete, on_finish, logs, outcome, judged, history>>
  BY DEF Interrupt
<1>2. LoopInv' /\ StackInv' /\ CallInv' /\ OutputInv'
  BY <1>1 DEF GradeInv, LoopInv, StackInv, CallInv, OutputInv
<1>3. JudgedInv' /\ FailInv' /\ VerdictInv'
  BY <1>1 DEF GradeInv, JudgedInv, FailInv, VerdictInv, Busy
<1>4. LogsInv'
  <2> SUFFICES ASSUME NEW t \in Tests, t \notin cut'
               PROVE  t \in logs <=> history[t] = "fail"
    BY <1>1 DEF LogsInv
  <2>1. t \notin cut /\ ~Busy(t, Told)
    BY <1>1 DEF GradeInv, VerdictInv, Busy
  <2> QED
    BY <2>1 DEF GradeInv, LogsInv
<1> QED
  BY <1>2, <1>3, <1>4 DEF GradeInv

\* A program that cannot be started ends the grader inside a test that has no
\* verdict yet.
LEMMA PopenFailsKeeps ==
    ASSUME GradeInv, PopenFails
    PROVE  GradeInv'
<1>1. /\ calls' = <<>> /\ phase' = "traceback" /\ Top.pc = "body" /\ calls # <<>>
      /\ UNCHANGED <<at, complete, on_finish, logs, outcome, judged, history, cut>>
  BY DEF PopenFails, In
<1>2. LoopInv' /\ StackInv' /\ CallInv' /\ OutputInv'
  BY <1>1 DEF GradeInv, LoopInv, StackInv, CallInv, OutputInv
<1>3. JudgedInv' /\ FailInv' /\ VerdictInv'
  BY <1>1 DEF GradeInv, JudgedInv, FailInv, VerdictInv, Busy
<1>4. LogsInv'
  <2>1. \A t \in Tests : ~Busy(t, Told)
    BY <1>1 DEF Busy, Told
  <2> QED
    BY <1>1, <2>1 DEF GradeInv, LogsInv
<1> QED
  BY <1>2, <1>3, <1>4 DEF GradeInv

\* The loop goes on: the program that was latest stays so, unless the loop comes to
\* one that has not run.
LEMMA AdvanceOutput ==
    ASSUME GradeInv, phase = "tests", calls = <<>>, at <= Len(TESTS), at' = at + 1,
           UNCHANGED <<phase, complete, proc_output>>
    PROVE  LoopInv' /\ OutputInv'
<1>1. at \in Int /\ Len(TESTS) \in Nat /\ Tests = 1 .. Len(TESTS) /\ complete \subseteq 1 .. at - 1
  BY GradeLibAssumption DEF GradeInv, LoopInv, Tests
<1>2. LoopInv'
  BY <1>1 DEF GradeInv, LoopInv
<1>3. ASSUME NEW p \in Tests, Latest(p)', p \in complete
      PROVE  proc_output.by = p
  <2>1. Latest(p)
    BY <1>1, <1>3 DEF Latest
  <2>2. ~Busy(p, {"start", "body"})
    BY DEF Busy
  <2> QED
    BY <1>3, <2>1, <2>2 DEF GradeInv, OutputInv
<1> QED
  BY <1>2, <1>3 DEF OutputInv

\* The loop calls the next test or passes over it.
LEMMA NextTestKeeps ==
    ASSUME GradeInv, NextTest \/ show_part
    PROVE  GradeInv'
<1>1. /\ phase = "tests" /\ calls = <<>> /\ at <= Len(TESTS) /\ at' = at + 1
      /\ UNCHANGED <<phase, complete, proc_output, on_finish, logs, outcome, judged, history, cut>>
  BY DEF NextTest, show_part, observed
<1>2. at \in Int /\ Len(TESTS) \in Nat /\ Tests = 1 .. Len(TESTS) /\ at \in Tests
  BY <1>1, GradeLibAssumption DEF GradeInv, LoopInv, Tests
<1>3. LoopInv' /\ OutputInv'
  BY <1>1, AdvanceOutput
<1>4. \/ calls' = <<>>
      \/ /\ calls' = <<Frame(at, "enter")>> /\ Kind(at) \in {"run", "match"}
         /\ calls' # <<>> /\ Top'.test = at /\ Top'.pc = "enter"
  <2>1. calls' = <<>> \/ (calls' = <<Frame(at, "enter")>> /\ Kind(at) \in {"run", "match"})
    BY <1>1, <1>2, GradeLibAssumption DEF NextTest, show_part, Frame, Kind, Tests
  <2> QED
    BY <2>1, OneCall, FrameOps DEF Top
<1>5. StackInv'
  BY <1>1, <1>2, <1>4 DEF StackInv, Pcs, Before
<1>6. CallInv' /\ FailInv' /\ VerdictInv'
  BY <1>1, <1>4 DEF GradeInv, CallInv, FailInv, VerdictInv, Back, Told
<1>7. JudgedInv' /\ LogsInv'
  BY <1>1, <1>4 DEF GradeInv, JudgedInv, LogsInv, Busy, Back, Told
<1> QED
  BY <1>3, <1>5, <1>6, <1>7 DEF GradeInv

-----------------------------------------------------------------------------
(* Every step keeps the invariant: run_test.                               *)

\* There is one latest program.
LEMMA LatestUnique ==
    ASSUME LoopInv, NEW p, NEW q, Latest(p), Latest(q)
    PROVE  p = q
<1>1. at \in Int /\ p \in Int /\ q \in Int
  BY GradeLibAssumption DEF LoopInv, Latest, Tests
<1>2. ~(p < q) /\ ~(q < p)
  BY <1>1 DEF Latest
<1> QED
  BY <1>1, <1>2

\* The parent of the loop's test is the latest program.
LEMMA ParentLatest ==
    ASSUME LoopInv, at - 1 \in Tests, Kind(at - 1) = "match"
    PROVE  /\ Latest(Parent(at - 1)) /\ Parent(at - 1) \in Tests
           /\ Parent(at - 1) # at - 1 /\ Parent(at - 1) # 0
<1>1. at \in Int /\ Tests = 1 .. Len(TESTS) /\ Len(TESTS) \in Nat
  BY GradeLibAssumption DEF LoopInv, Tests
<1>2. /\ Parent(at - 1) \in 1 .. (at - 1) - 1
      /\ Kind(Parent(at - 1)) = "run"
      /\ \A u \in Parent(at - 1) + 1 .. at - 1 : Kind(u) # "run"
  BY RegistrationAssumption DEF Tests, Kind, Parent
<1> QED
  BY <1>1, <1>2 DEF Latest

\* The head of run_test.  It returns at once from a test that is complete; otherwise
\* the parent of a test of an output is called first.
LEMMA EnterKeeps ==
    ASSUME GradeInv, EnterTest
    PROVE  GradeInv'
<1>1. /\ calls # <<>> /\ Top.pc = "enter" /\ complete' = complete \cup {Top.test}
      /\ UNCHANGED <<phase, at, proc_output, on_finish, CURRENT_TEST, logs, outcome,
                     judged, history, cut>>
  BY DEF EnterTest, In, observed
<1>2. /\ phase = "tests" /\ at - 1 \in Tests /\ Top.test \in Tests
      /\ Kind(Top.test) \in {"run", "match"}
      /\ Kind(Top.test) = "match" => Top.test = at - 1
      /\ Kind(Top.test) = "run" => Latest(Top.test)
  BY <1>1, TopFacts DEF GradeInv
<1>3. LoopInv'
  <2>1. at \in Int /\ Top.test \in 1 .. at - 1
    BY <1>2, GradeLibAssumption DEF GradeInv, LoopInv, Latest, Tests
  <2> QED
    BY <1>1, <1>2, <2>1 DEF GradeInv, LoopInv
<1>4. complete \subseteq complete' /\ Top.test \in complete'
  BY <1>1
<1>5. CASE Top.test \in complete
  <2>1. complete' = complete /\ calls' = Caller
    BY <1>1, <1>5 DEF EnterTest
  <2>2. /\ StackInv'
        /\ \/ calls' = <<>>
           \/ /\ calls' # <<>> /\ Top'.test = at - 1 /\ Top'.pc = "start"
              /\ Kind(at - 1) = "match" /\ at - 1 \in complete
              /\ Top.test = Parent(at - 1)
    BY <1>1, <1>4, <2>1, ReturnEffect DEF GradeInv
  <2>3. CallInv' /\ FailInv' /\ VerdictInv'
    BY <1>1, <1>5, <2>1, <2>2 DEF GradeInv, CallInv, FailInv, VerdictInv, Back, Told
  <2>4. OutputInv'
    <3>1. \A p \in Tests : ~Busy(p, {"start", "body"})
      BY <1>1 DEF Busy
    <3> QED
      BY <1>1, <2>1, <3>1 DEF GradeInv, OutputInv, Latest
  <2>5. JudgedInv' /\ LogsInv'
    BY <1>1, <2>2 DEF GradeInv, JudgedInv, LogsInv, Busy, Back, Told
  <2> QED
    BY <1>3, <2>2, <2>3, <2>4, <2>5 DEF GradeInv
<1>6. CASE Top.test \notin complete /\ Kind(Top.test) = "run"
  <2>1. Parent(Top.test) = 0
    BY <1>2, <1>6, RegistrationAssumption DEF Kind, Parent, Tests
  <2>2. Label("start")
    BY <1>6, <2>1 DEF EnterTest, Parent
  <2>3. StackInv' /\ calls' # <<>> /\ Top'.test = Top.test /\ Top'.pc = "start"
    BY <1>1, <1>4, <2>2, LabelEffect DEF GradeInv, Pcs, Before
  <2>4. CallInv' /\ FailInv' /\ VerdictInv'
    BY <1>1, <1>6, <2>3 DEF GradeInv, CallInv, FailInv, VerdictInv, Back, Told
  <2>5. OutputInv'
    <3> SUFFICES ASSUME NEW p \in Tests, Latest(p)', p \in complete'
                 PROVE  proc_output'.by = p \/ Busy(p, {"start", "body"})'
      BY DEF OutputInv
    <3>1. Latest(p)
      BY <1>1 DEF Latest
    <3>2. p = Top.test
      BY <1>2, <1>6, <3>1, LatestUnique DEF GradeInv
    <3> QED
      BY <2>3, <3>2 DEF Busy
  <2>6. JudgedInv' /\ LogsInv'
    BY <1>1, <2>3 DEF GradeInv, JudgedInv, LogsInv, Busy, Back, Told
  <2> QED
    BY <1>3, <2>3, <2>4, <2>5, <2>6 DEF GradeInv
<1>7. CASE Top.test \notin complete /\ Kind(Top.test) = "match"
  <2>1. Top.test = at - 1 /\ Parent(Top.test) # 0 /\ Parent(Top.test) # Top.test
    BY <1>2, <1>7, ParentLatest DEF GradeInv
  <2>2. calls' = Append([calls EXCEPT ![Len(calls)].pc = "start"],
                        [test |-> TESTS[Top.test].parent, pc |-> "enter"])
    BY <1>7, <2>1, Zenon DEF EnterTest, Parent
  <2>3. StackInv' /\ calls' # <<>> /\ Top'.test = Parent(Top.test) /\ Top'.pc = "enter"
    BY <1>1, <1>4, <1>7, <2>2, ParentEffect DEF GradeInv
  <2>4. CallInv' /\ FailInv' /\ VerdictInv'
    BY <1>1, <2>3 DEF GradeInv, CallInv, FailInv, VerdictInv, Back, Told
  <2>5. OutputInv'
    <3> SUFFICES ASSUME NEW p \in Tests, Latest(p)', p \in complete'
                 PROVE  proc_output'.by = p
      BY DEF OutputInv
    <3>1. Latest(p) /\ p \in complete
      BY <1>1, <1>7 DEF Latest
    <3>2. ~Busy(p, {"start", "body"})
      BY <1>1 DEF Busy
    <3> QED
      BY <1>1, <1>2, <3>1, <3>2 DEF GradeInv, OutputInv
  <2>6. JudgedInv' /\ LogsInv'
    BY <1>1, <2>3 DEF GradeInv, JudgedInv, LogsInv, Busy, Back, Told
  <2> QED
    BY <1>3, <2>3, <2>4, <2>5, <2>6 DEF GradeInv
<1> QED
  BY <1>2, <1>5, <1>6, <1>7

\* The test becomes the current one.
LEMMA StartKeeps ==
    ASSUME GradeInv, StartTest
    PROVE  GradeInv'
<1>1. /\ calls # <<>> /\ Top.pc = "start" /\ Label("body") /\ CURRENT_TEST' = Top.test
      /\ UNCHANGED <<phase, at, complete, proc_output, on_finish, logs, outcome, judged,
                     history, cut>>
  BY DEF StartTest, In, observed
<1>2. StackInv' /\ calls' # <<>> /\ Top'.test = Top.test /\ Top'.pc = "body"
  BY <1>1, LabelEffect DEF GradeInv, Pcs, Before
<1>3. LoopInv' /\ CallInv' /\ FailInv' /\ VerdictInv'
  BY <1>1, <1>2 DEF GradeInv, LoopInv, CallInv, FailInv, VerdictInv, Back, Told
<1>4. OutputInv' /\ JudgedInv' /\ LogsInv'
  BY <1>1, <1>2 DEF GradeInv, OutputInv, Latest, JudgedInv, LogsInv, Busy, Back, Told
<1> QED
  BY <1>2, <1>3, <1>4 DEF GradeInv

\* The program is run: the output at hand is its own.
LEMMA RunKeeps ==
    ASSUME GradeInv, RunProgram
    PROVE  GradeInv'
<1>1. /\ calls # <<>> /\ Top.pc = "body" /\ Kind(Top.test) = "run" /\ Label("passed")
      /\ proc_output'.by = Top.test
      /\ UNCHANGED <<phase, at, complete, on_finish, CURRENT_TEST, logs, outcome, judged,
                     history, cut>>
  BY DEF RunProgram, In, observed, Kind
<1>2. StackInv' /\ calls' # <<>> /\ Top'.test = Top.test /\ Top'.pc = "passed"
  BY <1>1, LabelEffect DEF GradeInv, Pcs, Back
<1>3. LoopInv' /\ CallInv' /\ FailInv' /\ VerdictInv'
  BY <1>1, <1>2 DEF GradeInv, LoopInv, CallInv, FailInv, VerdictInv, Told
<1>4. OutputInv'
  <2> SUFFICES ASSUME NEW p \in Tests, Latest(p)' PROVE proc_output'.by = p
    BY DEF OutputInv
  <2>1. Latest(p) /\ Latest(Top.test)
    BY <1>1, TopFacts DEF GradeInv, Latest
  <2> QED
    BY <1>1, <2>1, LatestUnique DEF GradeInv
<1>5. JudgedInv' /\ LogsInv'
  BY <1>1, <1>2 DEF GradeInv, JudgedInv, LogsInv, Busy, Told
<1> QED
  BY <1>2, <1>3, <1>4, <1>5 DEF GradeInv

\* The most recent output is looked at: it is the output of the test's own parent.
LEMMA MatchKeeps ==
    ASSUME GradeInv, match
    PROVE  GradeInv'
<1>1. PICK x \in Back :
          /\ calls # <<>> /\ phase = "tests" /\ Top.pc = "body"
          /\ Kind(Top.test) = "match" /\ Label(x)
          /\ on_finish' = on_finish \cup {CURRENT_TEST}
          /\ judged' = [judged EXCEPT ![Top.test] = proc_output.by]
          /\ UNCHANGED <<phase, at, complete, proc_output, CURRENT_TEST, logs, outcome,
                         history, cut>>
  BY DEF match, In, Back, Kind
<1>2. Top.test \in Tests /\ Top.test = at - 1 /\ at - 1 \in Tests
  BY <1>1, TopFacts DEF GradeInv
<1>3. StackInv' /\ calls' # <<>> /\ Top'.test = Top.test /\ Top'.pc = x
  BY <1>1, LabelEffect DEF GradeInv, Pcs
<1>4. CURRENT_TEST = Top.test /\ Parent(Top.test) \in complete
  BY <1>1 DEF GradeInv, CallInv
<1>5. proc_output.by = Parent(Top.test) /\ Parent(Top.test) \in Int
  <2>1. /\ Latest(Parent(Top.test)) /\ Parent(Top.test) \in Tests
        /\ Parent(Top.test) # Top.test
    BY <1>1, <1>2, ParentLatest DEF GradeInv
  <2>2. ~Busy(Parent(Top.test), {"start", "body"})
    BY <2>1 DEF Busy
  <2>3. Tests \subseteq Int
    BY GradeLibAssumption DEF Tests
  <2> QED
    BY <1>1, <1>4, <2>1, <2>2, <2>3 DEF GradeInv, OutputInv
<1>6. LoopInv' /\ CallInv' /\ VerdictInv'
  BY <1>1, <1>3 DEF GradeInv, LoopInv, CallInv, VerdictInv, Back, Told
<1>7. FailInv'
  BY <1>1, <1>2, <1>3, <1>4 DEF GradeInv, FailInv, Back
<1>8. OutputInv'
  <2> SUFFICES ASSUME NEW p \in Tests, Latest(p)', p \in complete'
               PROVE  proc_output'.by = p
    BY DEF OutputInv
  <2>1. Latest(p) /\ p \in complete
    BY <1>1 DEF Latest
  <2>2. p # Top.test
    BY <1>1, <2>1 DEF Latest
  <2>3. ~Busy(p, {"start", "body"})
    BY <2>2 DEF Busy
  <2> QED
    BY <1>1, <2>1, <2>3 DEF GradeInv, OutputInv
<1>9. JudgedInv'
  <2>1. judged' \in [Tests -> Int] /\ judged'[Top.test] = Parent(Top.test)
    BY <1>1, <1>2, <1>5 DEF GradeInv, JudgedInv
  <2>2. ASSUME NEW t \in Tests, Kind(t) = "match",
               outcome'[t] # "none" \/ Busy(t, Back)'
        PROVE  judged'[t] = Parent(t)
    <3>1. CASE t = Top.test
      BY <2>1, <3>1
    <3>2. CASE t # Top.test
      <4>1. outcome[t] # "none"
        BY <1>1, <1>3, <2>2, <3>2 DEF Busy
      <4>2. judged'[t] = judged[t]
        BY <1>1, <3>2 DEF GradeInv, JudgedInv
      <4> QED
        BY <2>2, <4>1, <4>2 DEF GradeInv, JudgedInv
    <3> QED
      BY <3>1, <3>2
  <2> QED
    BY <2>1, <2>2 DEF JudgedInv
<1>10. LogsInv'
  BY <1>1, <1>3 DEF GradeInv, LogsInv, Busy, Back, Told
<1> QED
  BY <1>3, <1>6, <1>7, <1>8, <1>9, <1>10 DEF GradeInv

\* The verdict.
LEMMA CountPossibleKeeps ==
    ASSUME GradeInv, NEW fail \in BOOLEAN, CountPossible(fail)
    PROVE  GradeInv'
<1> DEFINE how == IF fail THEN "fail" ELSE "pass"
           x == IF fail THEN "count_fail" ELSE "count_pass"
<1>1. /\ calls # <<>> /\ Top.pc = IF fail THEN "failed" ELSE "passed"
      /\ Label(x)
      /\ outcome' = [outcome EXCEPT ![Top.test] = how]
      /\ history' = [history EXCEPT ![Top.test] = how]
      /\ UNCHANGED <<phase, at, complete, proc_output, on_finish, CURRENT_TEST, logs,
                     judged, cut>>
  BY DEF CountPossible, In, Verdict
<1>2. Top.test \in Tests
  BY <1>1, TopFacts DEF GradeInv
<1>3. StackInv' /\ calls' # <<>> /\ Top'.test = Top.test /\ Top'.pc = x
  <2>1. x \in Pcs
    BY DEF Pcs, Told
  <2> QED
    BY <1>1, <2>1, LabelEffect DEF GradeInv
<1>4. LoopInv' /\ CallInv' /\ FailInv'
  BY <1>1, <1>3 DEF GradeInv, LoopInv, CallInv, FailInv, Back, Told
<1>5. OutputInv'
  BY <1>1, <1>3 DEF GradeInv, OutputInv, Latest, Busy
<1>6. VerdictInv'
  <2>1. /\ outcome' \in [Tests -> {"none", "pass", "fail"}]
        /\ history' \in [Tests -> {"none", "pass", "fail"}]
        /\ outcome'[Top.test] = how /\ history'[Top.test] = how
    BY <1>1, <1>2 DEF GradeInv, VerdictInv
  <2> QED
    BY <1>3, <2>1 DEF VerdictInv, Told
<1>7. JudgedInv'
  BY <1>1, <1>2, <1>3 DEF GradeInv, JudgedInv, VerdictInv, Busy, Back
<1>8. LogsInv'
  <2> SUFFICES ASSUME NEW t \in Tests \ cut'
               PROVE  Busy(t, Told)' \/ (t \in logs' <=> history'[t] = "fail")
    BY DEF LogsInv
  <2>1. CASE t = Top.test
    BY <1>3, <2>1 DEF Busy, Told
  <2>2. CASE t # Top.test
    <3>1. ~Busy(t, Told) /\ history'[t] = history[t]
      BY <1>1, <2>2 DEF Busy, GradeInv, VerdictInv
    <3> QED
      BY <1>1, <3>1 DEF GradeInv, LogsInv
  <2> QED
    BY <2>1, <2>2
<1> QED
  BY <1>3, <1>4, <1>5, <1>6, <1>7, <1>8 DEF GradeInv

\* The points.
LEMMA CountTotalKeeps ==
    ASSUME GradeInv, NEW fail \in BOOLEAN, CountTotal(fail)
    PROVE  GradeInv'
<1> DEFINE x == IF fail THEN "finish_fail" ELSE "finish_pass"
<1>1. /\ calls # <<>> /\ Top.pc = IF fail THEN "count_fail" ELSE "count_pass"
      /\ Label(x)
      /\ UNCHANGED <<phase, at, complete, proc_output, on_finish, CURRENT_TEST, logs,
                     outcome, judged, history, cut>>
  BY DEF CountTotal, In, observed
<1>2. StackInv' /\ calls' # <<>> /\ Top'.test = Top.test /\ Top'.pc = x
  <2>1. x \in Pcs
    BY DEF Pcs, Told
  <2> QED
    BY <1>1, <2>1, LabelEffect DEF GradeInv
<1>3. LoopInv' /\ CallInv' /\ FailInv' /\ VerdictInv'
  BY <1>1, <1>2 DEF GradeInv, LoopInv, CallInv, FailInv, VerdictInv, Back, Told
<1>4. OutputInv' /\ JudgedInv' /\ LogsInv'
  BY <1>1, <1>2 DEF GradeInv, OutputInv, Latest, JudgedInv, LogsInv, Busy, Back, Told
<1> QED
  BY <1>2, <1>3, <1>4 DEF GradeInv

\* The callbacks: the log file of the test is brought up to date.
LEMMA FinishKeeps ==
    ASSUME GradeInv, NEW fail \in BOOLEAN, FinishTest(fail)
    PROVE  GradeInv'
<1>1. /\ calls # <<>> /\ Top.pc = IF fail THEN "finish_fail" ELSE "finish_pass"
      /\ calls' = Caller
      /\ logs' = save_on_finish(fail)
      /\ cut' = cut \ {Top.test}
      /\ UNCHANGED <<phase, at, complete, proc_output, on_finish, outcome, judged, history>>
  BY DEF FinishTest, In
<1>2. Top.test \in Tests /\ at - 1 \in Tests
  BY <1>1, TopFacts DEF GradeInv
<1>3. /\ StackInv'
      /\ \/ calls' = <<>>
         \/ /\ calls' # <<>> /\ Top'.test = at - 1 /\ Top'.pc = "start"
            /\ Kind(at - 1) = "match" /\ at - 1 \in complete
            /\ Top.test = Parent(at - 1)
  BY <1>1, ReturnEffect DEF GradeInv
<1>4. CURRENT_TEST = Top.test /\ Top.test \in complete
  BY <1>1 DEF GradeInv, CallInv
<1>5. /\ history[Top.test] = IF fail THEN "fail" ELSE "pass"
      /\ fail => Kind(Top.test) = "match"
      /\ Kind(Top.test) = "match" <=> Top.test \in on_finish
  BY <1>1 DEF GradeInv, VerdictInv, FailInv, Told
<1>6. /\ \A t \in Tests : t # Top.test => (t \in logs' <=> t \in logs)
      /\ Top.test \in logs' <=> fail
      /\ logs' \subseteq logs \cup on_finish
  BY <1>1, <1>4, <1>5 DEF save_on_finish, GradeInv, FailInv
<1>7. LoopInv' /\ CallInv' /\ VerdictInv'
  BY <1>1, <1>3, <1>4 DEF GradeInv, LoopInv, CallInv, VerdictInv, Told
<1>8. FailInv'
  BY <1>1, <1>3, <1>6 DEF GradeInv, FailInv, Back, Told
<1>9. OutputInv'
  BY <1>1 DEF GradeInv, OutputInv, Latest, Busy
<1>10. JudgedInv'
  BY <1>1, <1>3 DEF GradeInv, JudgedInv, Busy, Back
<1>11. LogsInv'
  <2> SUFFICES ASSUME NEW t \in Tests \ cut'
               PROVE  t \in logs' <=> history'[t] = "fail"
    BY DEF LogsInv
  <2>1. CASE t = Top.test
    BY <1>1, <1>5, <1>6, <2>1
  <2>2. CASE t # Top.test
    <3>1. ~Busy(t, Told) /\ t \notin cut
      BY <1>1, <2>2 DEF Busy
    <3> QED
      BY <1>1, <1>6, <2>2, <3>1 DEF GradeInv, LogsInv
  <2> QED
    BY <2>1, <2>2
<1> QED
  BY <1>3, <1>7, <1>8, <1>9, <1>10, <1>11 DEF GradeInv

-----------------------------------------------------------------------------
(* The theorems.                                                           *)

\* The inductive invariant holds over all invocations of the grader.
THEOREM GradeInvariant == GradeSpec => []GradeInv
<1>1. GradeInit => GradeInv
  <2> SUFFICES ASSUME GradeInit PROVE GradeInv
    OBVIOUS
  <2>1. LoopInv /\ StackInv /\ CallInv /\ OutputInv
    BY GradeLibAssumption DEF GradeInit, LoopInv, StackInv, CallInv, OutputInv
  <2>2. JudgedInv /\ FailInv /\ VerdictInv /\ LogsInv
    BY DEF GradeInit, JudgedInv, FailInv, VerdictInv, LogsInv, Busy
  <2> QED
    BY <2>1, <2>2 DEF GradeInv
<1>2. GradeInv /\ [GradeNext]_gradeVars => GradeInv'
  <2> SUFFICES ASSUME GradeInv, [GradeNext]_gradeVars PROVE GradeInv'
    OBVIOUS
  <2>1. CASE GraderStep
    BY <2>1, ProcessKeeps, NextTestKeeps, EnterKeeps, StartKeeps, MatchKeeps,
       CountPossibleKeeps, CountTotalKeeps, FinishKeeps DEF GraderStep
  <2>2. CASE Invoke \/ RunProgram \/ PopenFails \/ Interrupt
    BY <2>2, InvokeKeeps, RunKeeps, PopenFailsKeeps, InterruptKeeps
  <2>3. CASE UNCHANGED gradeVars
    <3>1. UNCHANGED <<phase, at, calls, complete, on_finish, CURRENT_TEST, proc_output,
                      logs, outcome, judged, history, cut>>
      BY <2>3 DEF gradeVars, observed
    <3>2. UNCHANGED Top
      BY <3>1 DEF Top
    <3> QED
      BY <3>1, <3>2 DEF GradeInv, LoopInv, StackInv, CallInv, OutputInv, Latest,
         JudgedInv, FailInv, VerdictInv, LogsInv, Busy
  <2> QED
    BY <2>1, <2>2, <2>3 DEF GradeNext
<1> QED
  BY <1>1, <1>2, PTL DEF GradeSpec

\* Runner.match looks at "the most recent output"; for every list of tests that is
\* registered like grade-lab's this is the output of the test's own program, with
\* any filters.
THEOREM GradeJudgesItsParent == GradeSpec => []JudgesItsParent
<1>1. GradeInv => JudgesItsParent
  BY DEF GradeInv, JudgedInv, JudgesItsParent, Kind, Parent
<1> QED
  BY <1>1, GradeInvariant, PTL

\* The log files that save writes and removes tell, over all invocations, which tests
\* failed when they last ran, except of those that an interrupt cut off.
THEOREM GradeLogsTell == GradeSpec => []LogsTell
<1>1. GradeInv => LogsTell
  BY DEF GradeInv, LogsInv, Busy, LogsTell
<1> QED
  BY <1>1, GradeInvariant, PTL

-----------------------------------------------------------------------------
(* The score.                                                              *)

Ended(how) == {t \in Tests : outcome[t] = how}
Counted == {t \in Tests : outcome[t] # "none"}

\* The tests that have their points: not the one whose verdict is being counted.
Paid == IF calls # <<>> /\ Top.pc = "count_pass" THEN Ended("pass") \ {Top.test}
        ELSE Ended("pass")

\* A test is told once: it has no verdict when its function is called, neither
\* has the test of the loop while its parent runs.
ToldOnce ==
    /\ Counted \subseteq complete
    /\ calls # <<>> =>
           /\ Top.pc \in {"start", "body"} \cup Back => outcome[Top.test] = "none"
           /\ Top.pc = "count_pass" => outcome[Top.test] = "pass"
           /\ Top.pc = "count_fail" => outcome[Top.test] = "fail"
           /\ Top.test # at - 1 => outcome[at - 1] = "none"

\* The globals are the points of the verdicts, but for a test that an interrupt
\* cut off between its two counts.
TotalsInv ==
    /\ POSSIBLE = PointsOf(Counted)
    /\ ~interrupted => TOTAL = PointsOf(Paid)
    /\ interrupted => /\ phase \in {"exited", "traceback"}
                      /\ TOTAL \in Int /\ TOTAL <= PointsOf(Ended("pass"))

StatusInv ==
    /\ phase = "make" => at = 1
    /\ phase = "exited" => /\ status = 0 => TOTAL >= POSSIBLE
                           /\ ~interrupted /\ at > Len(TESTS) => status = ExitStatus

ScoreInv == ToldOnce /\ TotalsInv /\ StatusInv

\* The points of a set of tests.
LEMMA Points ==
    ASSUME NEW S \in SUBSET Tests
    PROVE  /\ PointsOf(S) \in Nat
           /\ \A t \in S : PointsOf(S) = TESTS[t].points + PointsOf(S \ {t})
           /\ \A T \in SUBSET S : PointsOf(T) <= PointsOf(S)
           /\ PointsOf({}) = 0
<1> DEFINE f == [t \in Tests |-> TESTS[t].points]
<1>1. IsFiniteSet(S)
  <2>1. IsFiniteSet(Tests)
    BY GradeLibAssumption, FS_Interval DEF Tests
  <2> QED
    BY <2>1, FS_Subset
<1>2. \A t \in S : f[t] \in Nat /\ f[t] = TESTS[t].points
  BY GradeLibAssumption DEF Tests
<1> HIDE DEF f
<1>3. SumFunctionOnSet(f, S) \in Nat
  BY <1>1, <1>2, SumNat
<1>4. \A t \in S : SumFunctionOnSet(f, S) = f[t] + SumFunctionOnSet(f, S \ {t})
  BY <1>1, <1>2, SumRemove
<1>5. \A T \in SUBSET S : SumFunctionOnSet(f, T) <= SumFunctionOnSet(f, S)
  BY <1>1, <1>2, SumSubset
<1>6. SumFunctionOnSet(f, {}) = 0
  BY SumEmpty
<1> QED
  BY <1>2, <1>3, <1>4, <1>5, <1>6 DEF PointsOf, f

\* What is possible is what passed and what failed.
LEMMA PointsSplit ==
    ASSUME VerdictInv
    PROVE  PointsOf(Counted) = PointsOf(Ended("pass")) + PointsOf(Ended("fail"))
<1> DEFINE G == {S \in SUBSET Tests :
                   PointsOf(S \cap Counted) = PointsOf(S \cap Ended("pass"))
                                                + PointsOf(S \cap Ended("fail"))}
<1>1. IsFiniteSet(Tests)
  BY GradeLibAssumption, FS_Interval DEF Tests
<1>2. ASSUME NEW S \in SUBSET Tests, \A U \in SUBSET S : U # S => U \in G
      PROVE  S \in G
  <2>1. CASE S = {}
    <3>1. S \cap Counted = {} /\ S \cap Ended("pass") = {} /\ S \cap Ended("fail") = {}
      BY <2>1
    <3>2. PointsOf({}) = 0
      BY Points
    <3> QED
      BY <2>1, <3>1, <3>2
  <2>2. CASE S # {}
    <3>1. PICK t \in S : TRUE
      BY <2>2
    <3> DEFINE R == S \ {t}
               c == PointsOf(R \cap Counted)
               p == PointsOf(R \cap Ended("pass"))
               f == PointsOf(R \cap Ended("fail"))
               w == TESTS[t].points
    <3>2. R \in G
      BY <1>2, <3>1
    <3>3. c = p + f
      BY <3>2
    <3>4. c \in Nat /\ p \in Nat /\ f \in Nat /\ w \in Nat
      BY Points, GradeLibAssumption DEF Tests
    <3>5. outcome[t] \in {"none", "pass", "fail"}
      BY <3>1 DEF VerdictInv
    <3>6. /\ t \in Counted => PointsOf(S \cap Counted) = w + c
          /\ t \notin Counted => PointsOf(S \cap Counted) = c
      <4>1. (S \cap Counted) \ {t} = R \cap Counted /\ S \cap Counted \in SUBSET Tests
        OBVIOUS
      <4>2. t \notin Counted => S \cap Counted = R \cap Counted
        OBVIOUS
      <4> QED
        BY <3>1, <4>1, <4>2, Points
    <3>7. /\ t \in Ended("pass") => PointsOf(S \cap Ended("pass")) = w + p
          /\ t \notin Ended("pass") => PointsOf(S \cap Ended("pass")) = p
      <4>1. /\ (S \cap Ended("pass")) \ {t} = R \cap Ended("pass")
            /\ S \cap Ended("pass") \in SUBSET Tests
        OBVIOUS
      <4>2. t \notin Ended("pass") => S \cap Ended("pass") = R \cap Ended("pass")
        OBVIOUS
      <4> QED
        BY <3>1, <4>1, <4>2, Points
    <3>8. /\ t \in Ended("fail") => PointsOf(S \cap Ended("fail")) = w + f
          /\ t \notin Ended("fail") => PointsOf(S \cap Ended("fail")) = f
      <4>1. /\ (S \cap Ended("fail")) \ {t} = R \cap Ended("fail")
            /\ S \cap Ended("fail") \in SUBSET Tests
        OBVIOUS
      <4>2. t \notin Ended("fail") => S \cap Ended("fail") = R \cap Ended("fail")
        OBVIOUS
      <4> QED
        BY <3>1, <4>1, <4>2, Points
    <3>9. /\ t \in Counted <=> outcome[t] # "none"
          /\ t \in Ended("pass") <=> outcome[t] = "pass"
          /\ t \in Ended("fail") <=> outcome[t] = "fail"
      BY <3>1 DEF Counted, Ended
    <3> HIDE DEF c, p, f, w
    <3>10. PointsOf(S \cap Counted) = PointsOf(S \cap Ended("pass"))
                                        + PointsOf(S \cap Ended("fail"))
      BY <3>3, <3>4, <3>5, <3>6, <3>7, <3>8, <3>9
    <3> QED
      BY <3>10
  <2> QED
    BY <2>1, <2>2
<1> HIDE DEF G
<1>3. Tests \in G
  BY <1>1, <1>2, SubsetInduction
<1>4. /\ Tests \cap Counted = Counted
      /\ Tests \cap Ended("pass") = Ended("pass")
      /\ Tests \cap Ended("fail") = Ended("fail")
  BY DEF Counted, Ended
<1> QED
  BY <1>3, <1>4 DEF G

\* Steps that touch neither the score nor a verdict.
LEMMA QuietTotals ==
    ASSUME TotalsInv, UNCHANGED <<TOTAL, POSSIBLE, outcome, interrupted>>,
           ~interrupted, Paid' = Paid
    PROVE  TotalsInv'
<1>1. Counted' = Counted /\ Ended("pass")' = Ended("pass")
  BY DEF Counted, Ended
<1>2. PointsOf(Counted)' = PointsOf(Counted)
  BY <1>1 DEF PointsOf, Tests
<1>3. PointsOf(Paid)' = PointsOf(Paid)
  BY DEF PointsOf, Tests
<1> QED
  BY <1>2, <1>3 DEF TotalsInv

\* make, and the end of run_tests.
LEMMA ProcessScore ==
    ASSUME GradeInv, ScoreInv, make \/ Exit
    PROVE  ScoreInv'
<1>1. calls = <<>> /\ UNCHANGED <<calls, at, complete, TOTAL, POSSIBLE, outcome, interrupted>>
  BY DEF GradeInv, StackInv, make, Exit, score, observed
<1>2. ~interrupted
  BY DEF make, Exit, ScoreInv, TotalsInv
<1>3. Paid' = Paid
  BY <1>1 DEF Paid, Ended
<1>4. TotalsInv'
  BY <1>1, <1>2, <1>3, QuietTotals DEF ScoreInv
<1>5. ToldOnce'
  BY <1>1 DEF ScoreInv, ToldOnce, Counted
<1>6. StatusInv'
  <2>1. CASE make
    <3>1. at = 1 /\ Len(TESTS) \in Nat \ {0} /\ (status' = 1 \/ phase' = "tests")
      BY <2>1, GradeLibAssumption DEF make, ScoreInv, StatusInv
    <3> QED
      BY <1>1, <2>1, <3>1, GradeLibAssumption DEF make, ScoreInv, StatusInv
  <2>2. CASE Exit
    <3>1. TOTAL \in Int /\ POSSIBLE \in Int
      BY <1>2, Points DEF ScoreInv, TotalsInv, Counted, Paid, Ended
    <3>2. phase' = "exited" /\ status' = ExitStatus /\ ExitStatus' = ExitStatus
      BY <1>1, <2>2 DEF Exit, ExitStatus
    <3>3. status' = 0 => TOTAL >= POSSIBLE
      BY <3>1, <3>2 DEF ExitStatus
    <3> QED
      BY <1>1, <3>2, <3>3 DEF StatusInv
  <2> QED
    BY <2>1, <2>2
<1> QED
  BY <1>4, <1>5, <1>6 DEF ScoreInv

\* The loop calls a test or passes over it.
LEMMA NextTestScore ==
    ASSUME GradeInv, ScoreInv, NextTest \/ show_part
    PROVE  ScoreInv'
<1>1. /\ phase = "tests" /\ calls = <<>> /\ at' = at + 1
      /\ UNCHANGED <<phase, complete, TOTAL, POSSIBLE, outcome, interrupted>>
  BY DEF NextTest, show_part, score, observed
<1>2. calls' = <<>> \/ calls' = <<Frame(at, "enter")>>
  BY <1>1 DEF NextTest, show_part, Frame
<1>3. at \in Int
  BY GradeLibAssumption DEF GradeInv, LoopInv
<1>4. calls' # <<>> => Top'.test = at /\ Top'.pc = "enter"
  <2> SUFFICES ASSUME calls' = <<Frame(at, "enter")>>
               PROVE  Top'.test = at /\ Top'.pc = "enter"
    BY <1>2
  <2>1. Last(calls') = Frame(at, "enter")
    BY OneCall
  <2> QED
    BY <2>1, FrameOps DEF Top
<1>5. Paid' = Paid
  BY <1>1, <1>4 DEF Paid, Ended
<1>6. TotalsInv'
  BY <1>1, <1>5, QuietTotals DEF ScoreInv, TotalsInv
<1>7. ToldOnce'
  BY <1>1, <1>3, <1>4 DEF ScoreInv, ToldOnce, Counted, Back
<1> QED
  BY <1>1, <1>6, <1>7 DEF ScoreInv, StatusInv

\* The place of the call in progress moves on, without a verdict.
LEMMA LabelScore ==
    ASSUME GradeInv, ScoreInv, calls # <<>>,
           UNCHANGED <<phase, at, TOTAL, POSSIBLE, outcome, interrupted>>,
           complete \subseteq complete',
           calls' # <<>>, Top'.test = Top.test,
           Top'.pc \in {"start", "body"} \cup Back, outcome[Top.test] = "none"
    PROVE  ScoreInv'
<1>1. phase = "tests" /\ ~interrupted
  BY DEF GradeInv, StackInv, ScoreInv, TotalsInv
<1>2. Top.pc # "count_pass" /\ Top'.pc # "count_pass" /\ Top'.pc # "count_fail"
  BY DEF ScoreInv, ToldOnce, Back
<1>3. Paid' = Paid
  BY <1>2 DEF Paid, Ended
<1>4. TotalsInv'
  BY <1>1, <1>3, QuietTotals DEF ScoreInv
<1>5. ToldOnce'
  BY <1>2 DEF ScoreInv, ToldOnce, Counted
<1> QED
  BY <1>1, <1>4, <1>5 DEF ScoreInv, StatusInv

\* A call returns: to the loop, or to the test whose parent it was.
LEMMA ReturnScore ==
    ASSUME GradeInv, ScoreInv, calls # <<>>, calls' = Caller, Top.pc # "count_pass",
           UNCHANGED <<phase, at, TOTAL, POSSIBLE, outcome, interrupted>>,
           complete \subseteq complete'
    PROVE  ScoreInv'
<1>1. phase = "tests" /\ ~interrupted /\ at - 1 \in Tests
  BY DEF GradeInv, StackInv, ScoreInv, TotalsInv
<1>2. \/ calls' = <<>>
      \/ /\ calls' # <<>> /\ Top'.test = at - 1 /\ Top'.pc = "start"
         /\ Kind(at - 1) = "match" /\ Top.test = Parent(at - 1)
  BY ReturnEffect DEF GradeInv
<1>3. Kind(at - 1) = "match" => Parent(at - 1) # at - 1
  BY <1>1, ParentLatest DEF GradeInv
<1>4. calls' # <<>> => outcome[at - 1] = "none"
  BY <1>2, <1>3 DEF ScoreInv, ToldOnce
<1>5. Paid' = Paid
  BY <1>2 DEF Paid, Ended
<1>6. TotalsInv'
  BY <1>1, <1>5, QuietTotals DEF ScoreInv
<1>7. ToldOnce'
  BY <1>2, <1>4 DEF ScoreInv, ToldOnce, Counted
<1> QED
  BY <1>1, <1>6, <1>7 DEF ScoreInv, StatusInv

\* The head of run_test: a test that is complete returns, so none is told twice.
LEMMA EnterScore ==
    ASSUME GradeInv, ScoreInv, EnterTest
    PROVE  ScoreInv'
<1>1. /\ calls # <<>> /\ Top.pc = "enter" /\ complete \subseteq complete'
      /\ Top.test \in complete'
      /\ UNCHANGED <<phase, at, TOTAL, POSSIBLE, outcome, interrupted>>
  BY DEF EnterTest, In, score, observed
<1>2. CASE Top.test \in complete
  BY <1>1, <1>2, ReturnScore DEF EnterTest
<1>3. CASE Top.test \notin complete
  <2>1. Top.test \in Tests /\ Kind(Top.test) \in {"run", "match"}
        /\ (Kind(Top.test) = "match" => Top.test = at - 1)
    BY <1>1, TopFacts DEF GradeInv
  <2>2. outcome[Top.test] = "none"
    BY <1>3, <2>1 DEF ScoreInv, ToldOnce, Counted
  <2>3. CASE TESTS[Top.test].parent = 0
    <3>1. Label("start")
      BY <1>3, <2>3 DEF EnterTest
    <3>2. calls' # <<>> /\ Top'.test = Top.test /\ Top'.pc = "start"
      BY <1>1, <3>1, LabelEffect DEF GradeInv, Pcs, Before
    <3> QED
      BY <1>1, <2>2, <3>2, LabelScore
  <2>4. CASE TESTS[Top.test].parent # 0
    <3>1. Kind(Top.test) = "match"
      BY <2>1, <2>4, RegistrationAssumption DEF Kind, Tests
    <3>2. calls' = Append([calls EXCEPT ![Len(calls)].pc = "start"],
                          [test |-> TESTS[Top.test].parent, pc |-> "enter"])
      BY <1>3, <2>4 DEF EnterTest
    <3>3. calls' # <<>> /\ Top'.test = Parent(Top.test) /\ Top'.pc = "enter"
      BY <1>1, <3>1, <3>2, ParentEffect DEF GradeInv
    <3>4. phase = "tests" /\ ~interrupted
      BY <1>1 DEF GradeInv, StackInv, ScoreInv, TotalsInv
    <3>5. Paid' = Paid
      BY <1>1, <3>3 DEF Paid, Ended
    <3>6. TotalsInv'
      BY <1>1, <3>4, <3>5, QuietTotals DEF ScoreInv
    <3>7. ToldOnce'
      BY <1>1, <2>1, <2>2, <3>1, <3>3 DEF ScoreInv, ToldOnce, Counted, Back
    <3> QED
      BY <1>1, <3>4, <3>6, <3>7 DEF ScoreInv, StatusInv
  <2> QED
    BY <2>3, <2>4
<1> QED
  BY <1>2, <1>3

\* The test function: before it, around it, and its outcome.
LEMMA BodyScore ==
    ASSUME GradeInv, ScoreInv, StartTest \/ RunProgram \/ match
    PROVE  ScoreInv'
<1>1. PICK x \in {"body"} \cup Back :
          /\ calls # <<>> /\ Top.pc \in {"start", "body"} /\ Label(x)
          /\ UNCHANGED <<phase, at, complete, TOTAL, POSSIBLE, outcome, interrupted>>
  BY DEF StartTest, RunProgram, match, In, score, observed, Back
<1>2. calls' # <<>> /\ Top'.test = Top.test /\ Top'.pc = x
  BY <1>1, LabelEffect DEF GradeInv, Pcs, Before
<1>3. outcome[Top.test] = "none"
  BY <1>1 DEF ScoreInv, ToldOnce
<1> QED
  BY <1>1, <1>2, <1>3, LabelScore

\* The callbacks, and the way back.
LEMMA FinishScore ==
    ASSUME GradeInv, ScoreInv, NEW fail \in BOOLEAN, FinishTest(fail)
    PROVE  ScoreInv'
<1>1. /\ calls # <<>> /\ calls' = Caller /\ Top.pc # "count_pass"
      /\ UNCHANGED <<phase, at, complete, TOTAL, POSSIBLE, outcome, interrupted>>
  BY DEF FinishTest, In, score
<1> QED
  BY <1>1, ReturnScore

\* The verdict, with its points counted as possible: it is the test's first.
LEMMA CountPossibleScore ==
    ASSUME GradeInv, ScoreInv, NEW fail \in BOOLEAN, CountPossible(fail)
    PROVE  ScoreInv'
<1> DEFINE t == Top.test
           how == IF fail THEN "fail" ELSE "pass"
           x == IF fail THEN "count_fail" ELSE "count_pass"
<1>1. /\ calls # <<>> /\ Top.pc \in Back /\ Label(x)
      /\ outcome' = [outcome EXCEPT ![t] = how]
      /\ POSSIBLE' = POSSIBLE + TESTS[t].points
      /\ UNCHANGED <<phase, at, complete, TOTAL, interrupted>>
  BY DEF CountPossible, Verdict, In, Back
<1>2. calls' # <<>> /\ Top'.test = t /\ Top'.pc = x
  BY <1>1, LabelEffect DEF GradeInv, Pcs, Told
<1>3. /\ t \in Tests /\ t \in complete /\ outcome[t] = "none" /\ phase = "tests"
      /\ outcome \in [Tests -> {"none", "pass", "fail"}] /\ at - 1 \in Tests
  BY <1>1, TopFacts DEF GradeInv, CallInv, VerdictInv, ScoreInv, ToldOnce, Back
<1>4. ~interrupted
  BY <1>3 DEF ScoreInv, TotalsInv
<1>5. outcome'[t] = how /\ \A u \in Tests \ {t} : outcome'[u] = outcome[u]
  BY <1>1, <1>3
<1> HIDE DEF t
<1>6. Counted' \in SUBSET Tests /\ t \in Counted' /\ Counted' \ {t} = Counted
  BY <1>3, <1>5 DEF Counted, Tests
<1>7. PointsOf(Counted') = TESTS[t].points + PointsOf(Counted)
  BY <1>6, Points
<1>8. POSSIBLE' = PointsOf(Counted')
  <2>1. PointsOf(Counted) \in Nat /\ TESTS[t].points \in Nat
    BY <1>3, Points, GradeLibAssumption DEF Counted, Tests
  <2> QED
    BY <1>1, <1>7, <2>1 DEF ScoreInv, TotalsInv
<1>9. Paid' = Paid
  <2>1. Paid = Ended("pass") /\ t \notin Ended("pass")
    BY <1>1, <1>3 DEF Paid, Ended, Back
  <2>2. CASE fail
    <3>1. Ended("pass")' = Ended("pass")
      BY <1>3, <1>5, <2>2 DEF Ended, Tests
    <3> QED
      BY <1>2, <2>1, <2>2, <3>1 DEF Paid
  <2>3. CASE ~fail
    <3>1. Ended("pass")' \ {t} = Ended("pass")
      BY <1>3, <1>5, <2>3 DEF Ended, Tests
    <3> QED
      BY <1>2, <2>1, <2>3, <3>1 DEF Paid
  <2> QED
    BY <2>2, <2>3
<1>10. TotalsInv'
  <2>1. PointsOf(Paid)' = PointsOf(Paid) /\ PointsOf(Counted)' = PointsOf(Counted')
    BY <1>9 DEF PointsOf, Tests
  <2> QED
    BY <1>1, <1>4, <1>8, <2>1 DEF ScoreInv, TotalsInv
<1>11. ToldOnce'
  <2>1. Counted' \subseteq complete'
    BY <1>1, <1>3, <1>6 DEF ScoreInv, ToldOnce
  <2>2. t # at - 1 => outcome'[at - 1] = "none"
    BY <1>1, <1>3, <1>5 DEF ScoreInv, ToldOnce, t
  <2> QED
    BY <1>1, <1>2, <1>5, <2>1, <2>2 DEF ToldOnce, Back
<1> QED
  BY <1>1, <1>3, <1>10, <1>11 DEF ScoreInv, StatusInv

\* The points of a test that passed.
LEMMA CountTotalScore ==
    ASSUME GradeInv, ScoreInv, NEW fail \in BOOLEAN, CountTotal(fail)
    PROVE  ScoreInv'
<1> DEFINE t == Top.test
           x == IF fail THEN "finish_fail" ELSE "finish_pass"
<1>1. /\ calls # <<>> /\ Top.pc = IF fail THEN "count_fail" ELSE "count_pass"
      /\ Label(x)
      /\ TOTAL' = IF fail THEN TOTAL ELSE TOTAL + TESTS[t].points
      /\ UNCHANGED <<phase, at, complete, POSSIBLE, outcome, interrupted>>
  BY DEF CountTotal, In, observed
<1>2. calls' # <<>> /\ Top'.test = t /\ Top'.pc = x
  BY <1>1, LabelEffect DEF GradeInv, Pcs, Told
<1>3. t \in Tests /\ phase = "tests" /\ at - 1 \in Tests
  BY <1>1, TopFacts DEF GradeInv
<1>4. ~interrupted
  BY <1>3 DEF ScoreInv, TotalsInv
<1>5. Counted' = Counted /\ Ended("pass")' = Ended("pass")
  BY <1>1 DEF Counted, Ended
<1>6. Paid' = Ended("pass")
  BY <1>2, <1>5 DEF Paid
<1>7. TOTAL' = PointsOf(Ended("pass"))
  <2>1. CASE fail
    <3>1. Paid = Ended("pass")
      BY <1>1, <2>1 DEF Paid
    <3> QED
      BY <1>1, <1>4, <2>1, <3>1 DEF ScoreInv, TotalsInv
  <2>2. CASE ~fail
    <3>1. Paid = Ended("pass") \ {t}
      BY <1>1, <2>2 DEF Paid
    <3>2. t \in Ended("pass")
      BY <1>1, <1>3, <2>2 DEF ScoreInv, ToldOnce, Ended
    <3>3. PointsOf(Ended("pass")) = TESTS[t].points + PointsOf(Paid)
      BY <3>1, <3>2, Points DEF Ended
    <3>4. PointsOf(Paid) \in Nat /\ TESTS[t].points \in Nat
      BY <1>3, <3>1, Points, GradeLibAssumption DEF Ended, Tests
    <3> QED
      BY <1>1, <1>4, <2>2, <3>3, <3>4 DEF ScoreInv, TotalsInv
  <2> QED
    BY <2>1, <2>2
<1>8. TotalsInv'
  <2>1. PointsOf(Paid)' = PointsOf(Ended("pass")) /\ PointsOf(Counted)' = PointsOf(Counted)
    BY <1>5, <1>6 DEF PointsOf, Tests
  <2> QED
    BY <1>1, <1>4, <1>7, <2>1 DEF ScoreInv, TotalsInv
<1>9. ToldOnce'
  <2>1. x \notin {"start", "body"} \cup Back /\ x # "count_pass" /\ x # "count_fail"
    BY DEF Back
  <2> HIDE DEF x
  <2>2. t # at - 1 => outcome[at - 1] = "none"
    BY <1>1 DEF ScoreInv, ToldOnce
  <2> QED
    BY <1>1, <1>2, <1>5, <2>1, <2>2 DEF ScoreInv, ToldOnce
<1> QED
  BY <1>1, <1>3, <1>8, <1>9 DEF ScoreInv, StatusInv

\* A new invocation starts from nothing.
LEMMA InvokeScore ==
    ASSUME GradeInv, ScoreInv, Invoke
    PROVE  ScoreInv'
<1>1. /\ calls' = <<>> /\ phase' = "make" /\ at' = 1 /\ TOTAL' = 0 /\ POSSIBLE' = 0
      /\ outcome' = [t \in Tests |-> "none"] /\ interrupted' = FALSE
  BY DEF Invoke, Fresh
<1>2. Counted' = {} /\ Paid' = {}
  BY <1>1 DEF Counted, Paid, Ended, Tests
<1>3. PointsOf({}) = 0
  BY Points
<1>4. PointsOf(Counted)' = 0 /\ PointsOf(Paid)' = 0
  BY <1>2, <1>3 DEF PointsOf, Tests
<1> QED
  BY <1>1, <1>2, <1>4 DEF ScoreInv, ToldOnce, TotalsInv, StatusInv

\* An interrupt: the test it falls on may have lost its points, and none has won any.
LEMMA InterruptScore ==
    ASSUME GradeInv, ScoreInv, Interrupt
    PROVE  ScoreInv'
<1>1. /\ phase \in {"make", "tests"} /\ calls' = <<>> /\ interrupted' = TRUE
      /\ phase' = IF phase = "make" THEN "traceback" ELSE "exited"
      /\ status' = IF phase = "make" THEN 1 ELSE ExitStatus
      /\ UNCHANGED <<at, complete, TOTAL, POSSIBLE, outcome>>
  BY DEF Interrupt, score
<1>2. ~interrupted
  BY <1>1 DEF ScoreInv, TotalsInv
<1>3. Paid \in SUBSET Ended("pass") /\ Ended("pass") \in SUBSET Tests
      /\ Counted \in SUBSET Tests
  BY DEF Paid, Ended, Counted
<1>4. /\ TOTAL \in Int /\ POSSIBLE \in Int /\ TOTAL <= PointsOf(Ended("pass"))
  BY <1>2, <1>3, Points DEF ScoreInv, TotalsInv
<1>5. Counted' = Counted /\ Ended("pass")' = Ended("pass")
  BY <1>1 DEF Counted, Ended
<1>6. TotalsInv'
  <2>1. PointsOf(Ended("pass"))' = PointsOf(Ended("pass"))
        /\ PointsOf(Counted)' = PointsOf(Counted)
    BY <1>5 DEF PointsOf, Tests
  <2> QED
    BY <1>1, <1>4, <2>1 DEF ScoreInv, TotalsInv
<1>7. phase' = "exited" /\ status' = 0 => TOTAL >= POSSIBLE
  BY <1>1, <1>4 DEF ExitStatus
<1> QED
  BY <1>1, <1>5, <1>6, <1>7 DEF ScoreInv, ToldOnce, StatusInv

\* A program that cannot be started: its test has no verdict and counts for nothing.
LEMMA PopenFailsScore ==
    ASSUME GradeInv, ScoreInv, PopenFails
    PROVE  ScoreInv'
<1>1. /\ phase = "tests" /\ calls' = <<>> /\ interrupted' = TRUE
      /\ phase' = "traceback"
      /\ UNCHANGED <<at, complete, TOTAL, POSSIBLE, outcome>>
  BY DEF PopenFails, In, score
<1>2. ~interrupted
  BY <1>1 DEF ScoreInv, TotalsInv
<1>3. Paid \in SUBSET Ended("pass") /\ Ended("pass") \in SUBSET Tests
      /\ Counted \in SUBSET Tests
  BY DEF Paid, Ended, Counted
<1>4. /\ TOTAL \in Int /\ POSSIBLE \in Int /\ TOTAL <= PointsOf(Ended("pass"))
  BY <1>2, <1>3, Points DEF ScoreInv, TotalsInv
<1>5. Counted' = Counted /\ Ended("pass")' = Ended("pass")
  BY <1>1 DEF Counted, Ended
<1>6. TotalsInv'
  <2>1. PointsOf(Ended("pass"))' = PointsOf(Ended("pass"))
        /\ PointsOf(Counted)' = PointsOf(Counted)
    BY <1>5 DEF PointsOf, Tests
  <2> QED
    BY <1>1, <1>4, <2>1 DEF ScoreInv, TotalsInv
<1> QED
  BY <1>1, <1>5, <1>6 DEF ScoreInv, ToldOnce, StatusInv

\* The totals and the exit status follow from the invariant.
LEMMA ScoreFollows ==
    ASSUME GradeInv, ScoreInv
    PROVE  ScoreExact
<1> DEFINE P == PointsOf(Ended("pass"))
           F == PointsOf(Ended("fail"))
<1>1. PointsOf(Counted) = P + F
  BY PointsSplit DEF GradeInv
<1>2. P \in Nat /\ F \in Nat
  BY Points DEF Ended
<1>3. calls = <<>> => Paid = Ended("pass")
  BY DEF Paid
<1>4. phase = "exited" => calls = <<>>
  BY DEF GradeInv, StackInv
<1>5. POSSIBLE = P + F /\ (~interrupted /\ calls = <<>> => TOTAL = P)
      /\ (interrupted => TOTAL \in Int /\ TOTAL <= P)
  BY <1>1, <1>3 DEF ScoreInv, TotalsInv
<1> HIDE DEF P, F
<1>6. phase = "exited" /\ status = 0 => F = 0
  BY <1>2, <1>4, <1>5 DEF ScoreInv, StatusInv
<1>7. phase = "exited" /\ at > Len(TESTS) /\ ~interrupted => (status = 0 <=> F = 0)
  BY <1>2, <1>4, <1>5 DEF ScoreInv, StatusInv, ExitStatus
<1> QED
  BY <1>3, <1>5, <1>6, <1>7 DEF ScoreExact, Counted, Ended, P, F, ScoreInv, TotalsInv

\* gradelib.py counts every test that ran exactly once, whatever filters and parents
\* bring it about, and its exit status hides no failure, wherever an interrupt falls.
THEOREM GradeScoreExact == GradeSpec => []ScoreExact
<1>1. GradeInit => ScoreInv
  <2> SUFFICES ASSUME GradeInit PROVE ScoreInv
    OBVIOUS
  <2>1. Counted = {} /\ Paid = {}
    BY DEF GradeInit, Counted, Paid, Ended
  <2>2. PointsOf({}) = 0
    BY Points
  <2> QED
    BY <2>1, <2>2 DEF GradeInit, ScoreInv, ToldOnce, TotalsInv, StatusInv
<1>2. GradeInv /\ ScoreInv /\ [GradeNext]_gradeVars => ScoreInv'
  <2> SUFFICES ASSUME GradeInv, ScoreInv, [GradeNext]_gradeVars
               PROVE  ScoreInv'
    OBVIOUS
  <2>1. ASSUME NEW fail \in BOOLEAN,
               CountPossible(fail) \/ CountTotal(fail) \/ FinishTest(fail)
        PROVE  ScoreInv'
    BY <2>1, CountPossibleScore, CountTotalScore, FinishScore
  <2>2. CASE UNCHANGED gradeVars
    BY <2>2 DEF gradeVars, score, observed, ScoreInv, ToldOnce, TotalsInv, StatusInv,
                Counted, Paid, Ended, PointsOf, ExitStatus, Top, Tests
  <2> QED
    BY <2>1, <2>2, ProcessScore, NextTestScore, EnterScore, BodyScore, InvokeScore,
       PopenFailsScore, InterruptScore DEF GradeNext, GraderStep
<1>3. GradeInv /\ ScoreInv => ScoreExact
  BY ScoreFollows
<1> QED
  BY <1>1, <1>2, <1>3, GradeInvariant, PTL DEF GradeSpec

=============================================================================
