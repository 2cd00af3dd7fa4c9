------------------------------- MODULE MemLib -------------------------------
(***************************************************************************)
(* malloclab/memlib.c: the simulated memory system under every allocator   *)
(* of the malloc lab, and the alignment helpers it exports.                *)
(*                                                                         *)
(* An address is its offset from mem_start_brk.  The arena comes from      *)
(* libc's malloc, whose result is aligned to ALIGNMENT, so the offset has  *)
(* the alignment of the address it stands for.                             *)
(***************************************************************************)
EXTENDS Integers

CONSTANTS
    MAX_HEAP,   \* bytes of the arena (200 MB in config.h)
    INT_MOD     \* number of values of a C int (2^32 in the build)

ASSUME MemLibAssumption ==
    /\ MAX_HEAP \in Nat
    /\ INT_MOD \in Nat
    /\ INT_MOD % 32 = 0
    /\ MAX_HEAP < INT_MOD \div 2

ALIGNMENT == 16

\* size_t has twice the bits of an int.
SIZE_MOD == INT_MOD * INT_MOD

Addr == 0 .. MAX_HEAP - 1

\* Two pointers outside the arena: NULL, and (void *)-1.
NULL == -1
SBRK_FAILED == -2

-----------------------------------------------------------------------------

\* Mutant: rounds down.
RoundUp_Down(n) == ALIGNMENT * (n \div ALIGNMENT)

\* (size + 15) & ~15
RoundUp(n) == ALIGNMENT * ((n + (ALIGNMENT - 1)) \div ALIGNMENT)

align(size) == RoundUp(size) % SIZE_MOD

is_aligned(p) == p % ALIGNMENT = 0

\* Conversion of a size_t to int, two's complement.
ToInt(n) ==
    LET r == n % INT_MOD
    IN  IF r >= INT_MOD \div 2 THEN r - INT_MOD ELSE r

-----------------------------------------------------------------------------
(* The break.  Operators take the current mem_brk and return the new one.  *)

mem_heap_lo == 0
mem_heap_hi(brk) == brk - 1
mem_heapsize(brk) == brk

mem_reset_brk == 0

\* mem_sbrk fails, and moves nothing, on a negative increment or when the
\* arena is exhausted; otherwise it returns the old break.
mem_sbrk(brk, incr) ==
    IF incr < 0 \/ brk + incr > MAX_HEAP
    THEN [brk |-> brk, ret |-> SBRK_FAILED]
    ELSE [brk |-> brk + incr, ret |-> brk]

=============================================================================
