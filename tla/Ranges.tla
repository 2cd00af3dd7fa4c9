------------------------------- MODULE Ranges -------------------------------
(***************************************************************************)
(* malloclab/mdriver.c: the list of the extents of the blocks an allocator *)
(* has handed out, newest first, with which the driver judges the next     *)
(* block.                                                                  *)
(***************************************************************************)
EXTENDS MemLib, SequencesExt

\* Mutant: the test for overlap looks at the first byte only.
Overlaps_FirstByte(lo, hi, p) == lo >= p.lo /\ lo <= p.hi

\* The code's test: an end of the new block lies in the old one.
Overlaps(lo, hi, p) ==
    \/ lo >= p.lo /\ lo <= p.hi
    \/ hi >= p.lo /\ hi <= p.hi

\* Mutant: takes the break for the last byte of the heap.
InHeap_Break(a, brk) == a >= mem_heap_lo /\ a <= brk

InHeap(a, brk) == a >= mem_heap_lo /\ a <= mem_heap_hi(brk)

\* ok is the assert, ret the value returned.
add_range(ranges, brk, lo, size) ==
    LET hi == lo + size - 1
        accepted == /\ is_aligned(lo)
                    /\ InHeap(lo, brk)
                    /\ InHeap(hi, brk)
                    /\ \A i \in DOMAIN ranges : ~Overlaps(lo, hi, ranges[i])
    IN  [ok     |-> size > 0,
         ret    |-> IF accepted THEN 1 ELSE 0,
         ranges |-> IF accepted
                    THEN <<[lo |-> lo, hi |-> hi]>> \o ranges
                    ELSE ranges]

\* Mutant: prevpp is not advanced, so everything newer is dropped too.
remove_range_LosesNewer(ranges, lo) ==
    LET found == {i \in DOMAIN ranges : ranges[i].lo = lo}
    IN  IF found = {} THEN ranges
        ELSE SubSeq(ranges, Min(found) + 1, Len(ranges))

\* Only the first record that starts at lo goes.
remove_range(ranges, lo) ==
    LET found == {i \in DOMAIN ranges : ranges[i].lo = lo}
    IN  IF found = {} THEN ranges ELSE RemoveAt(ranges, Min(found))

clear_ranges == <<>>

=============================================================================
