----------------------------- MODULE RangeCheck -----------------------------
(***************************************************************************)
(* The driver's range list against an arbitrary allocator: the student's   *)
(* mm.c may return any address and extend the heap as it likes.  What      *)
(* eval_mm_valid knows of the blocks is what add_range let through.        *)
(***************************************************************************)
EXTENDS Ranges

CONSTANTS
    BlockSizes,     \* the sizes of the requests of a trace
    Returns,        \* the addresses the allocator may return
    Breaks          \* the breaks it may reach

ASSUME RangeCheckAssumption ==
    /\ BlockSizes \subseteq Nat \ {0}
    /\ Returns \subseteq Int
    /\ Breaks \subseteq 0 .. MAX_HEAP

VARIABLES
    brk,        \* the break the allocator has reached
    ranges,     \* the driver's list
    held,       \* the blocks of the trace: address -> size
    rejected    \* eval_mm_valid has returned 0, which ends the pass

checkVars == <<brk, ranges, held, rejected>>

CheckInit ==
    /\ brk = mem_reset_brk
    /\ ranges = clear_ranges
    /\ held = [p \in {} |-> 0]
    /\ rejected = FALSE

Forget(p) == [q \in DOMAIN held \ {p} |-> held[q]]

\* ALLOC: the allocator may first move the break, then returns any address.
CheckAlloc(newBrk, lo, size) ==
    LET a == add_range(ranges, newBrk, lo, size)
    IN  /\ newBrk >= brk
        /\ brk' = newBrk
        /\ ranges' = a.ranges
        /\ rejected' = (a.ret = 0)
        /\ held' = IF a.ret = 0 THEN held
                   ELSE [q \in DOMAIN held \cup {lo} |->
                             IF q = lo THEN size ELSE held[q]]

\* mm_malloc or mm_realloc returns NULL.
CheckNull(newBrk) ==
    /\ newBrk >= brk
    /\ brk' = newBrk
    /\ rejected' = TRUE
    /\ UNCHANGED <<ranges, held>>

\* REALLOC: the old block leaves the list before the new one is judged.  The pass
\* also ends when the new block does not hold the old data.
CheckRealloc(newBrk, old, lo, size) ==
    LET a == add_range(remove_range(ranges, old), newBrk, lo, size)
    IN  /\ newBrk >= brk
        /\ brk' = newBrk
        /\ ranges' = a.ranges
        /\ rejected' \in {a.ret = 0, TRUE}
        /\ held' = IF a.ret = 0 THEN Forget(old)
                   ELSE [q \in (DOMAIN held \ {old}) \cup {lo} |->
                             IF q = lo THEN size ELSE held[q]]

CheckFree(p) ==
    /\ ranges' = remove_range(ranges, p)
    /\ held' = Forget(p)
    /\ UNCHANGED <<brk, rejected>>

\* The next trace: eval_mm_valid resets the heap and the list.
CheckNextTrace ==
    /\ brk' = mem_reset_brk
    /\ ranges' = clear_ranges
    /\ held' = [p \in {} |-> 0]
    /\ rejected' = FALSE

CheckNext ==
    \/ /\ ~rejected
       /\ \E b \in Breaks, lo \in Returns, s \in BlockSizes :
              \/ CheckAlloc(b, lo, s)
              \/ CheckNull(b)
              \/ \E p \in DOMAIN held : CheckRealloc(b, p, lo, s)
    \/ ~rejected /\ \E p \in DOMAIN held : CheckFree(p)
    \/ CheckNextTrace

CheckSpec == CheckInit /\ [][CheckNext]_checkVars

-----------------------------------------------------------------------------

HeldBytes(p) == p .. p + held[p] - 1

\* The list is the trace's blocks: no record is lost or left behind by the
\* pointer surgery of add_range and remove_range.
RangesAreHeld ==
    /\ {<<ranges[i].lo, ranges[i].hi>> : i \in DOMAIN ranges}
         = {<<p, p + held[p] - 1>> : p \in DOMAIN held}
    /\ Len(ranges) = Cardinality(DOMAIN held)

\* Every accepted block is aligned and inside the heap, however the break moves.
AcceptedInHeap ==
    \A p \in DOMAIN held :
        /\ is_aligned(p)
        /\ HeldBytes(p) \subseteq mem_heap_lo .. mem_heap_hi(brk)

Disjoint(r, q) == r.hi < q.lo \/ q.hi < r.lo
Length(r) == r.hi - r.lo + 1

\* "We use the range list to detect any overlapping allocated blocks": a block that
\* is no longer than an older one shares no byte with it, however the two came to be
\* next to each other in the list.
OverlapDetected ==
    \A i, j \in DOMAIN ranges :
        i < j /\ Length(ranges[i]) <= Length(ranges[j]) => Disjoint(ranges[i], ranges[j])

\* "The payload must not overlap any other payloads" (add_range): no two accepted
\* blocks share a byte.
NoOverlap ==
    \A i, j \in DOMAIN ranges : i # j => Disjoint(ranges[i], ranges[j])

=============================================================================
