------------------------------- MODULE MmNaive ------------------------------
(***************************************************************************)
(* malloclab/mm-naive.c: the allocator that only moves the break, driven   *)
(* by an arbitrary client that respects malloc's calling discipline.       *)
(*                                                                         *)
(* Memory is flat.  A cell holds the byte a client stored there; the cell  *)
(* at the first address of a header holds that header's size_n_status      *)
(* word.  Headers and payloads are 16-byte aligned, so a payload that      *)
(* overlaps a header covers the cell of its word: a stray store clobbers   *)
(* the model's word whenever it clobbers the program's.                    *)
(***************************************************************************)
EXTENDS MemLib, FiniteSets

CONSTANTS
    Sizes,      \* the sizes a client asks for
    Bytes,      \* the byte values a client stores
    Garbage     \* a byte nobody has written since mem_init

ASSUME MmNaiveAssumption ==
    /\ Sizes \subseteq Nat
    /\ Bytes \subseteq Nat
    /\ Garbage \in Int

VARIABLES
    heap,       \* the arena: break, cells, and where headers were written
    live,       \* the client's view: payload address -> size asked for
    aborted     \* an assert of mm-naive.c has failed

vars == <<heap, live, aborted>>

SIZEOF_HEADER == 16

-----------------------------------------------------------------------------
(* The chunk header: size in the upper bits, status in bit 0.              *)

set_chunk_size_status(size, status) ==
    IF status THEN size + (1 - (size % 2)) ELSE size

\* Mutant: the mask is computed for the other status.
set_chunk_status_WrongMask(word, status) ==
    IF status THEN word - (word % 2) ELSE word

\* The mask only ever clears bit 0: with status = TRUE the word is kept.
set_chunk_status(word, status) ==
    IF status THEN word ELSE word - (word % 2)

get_chunk_status(word) == word % 2 = 1
get_chunk_size(word) == word - (word % 2)

\* Mutant: the padding of the header is forgotten.
header_to_payload_NoPad(h) == h + 8

payload_to_header(p) == p - SIZEOF_HEADER
header_to_payload(h) == h + SIZEOF_HEADER

get_next_chunk(m, h) == h + get_chunk_size(m.mem[h])

-----------------------------------------------------------------------------
(* The allocator's operations.  A heap m is a record of brk, mem and       *)
(* chunks; chunks is auxiliary, the addresses at which a header has been   *)
(* written since the last reset.  Each operation returns the new heap, the *)
(* value returned (ret) and whether every assert on the way held (ok).     *)

Heap == [brk : 0 .. MAX_HEAP, mem : [Addr -> Int], chunks : SUBSET Addr]

EmptyHeap(mem) == [brk |-> mem_reset_brk, mem |-> mem, chunks |-> {}]

\* malloc's arena, none of it written (mem_init); mm_init does nothing.
InitHeap == EmptyHeap([a \in Addr |-> Garbage])

mm_malloc(m, size) ==
    LET newsize == ToInt((align(size) + SIZEOF_HEADER) % SIZE_MOD)
        s       == mem_sbrk(m.brk, newsize)
        h       == s.ret
        word    == set_chunk_size_status(newsize, TRUE)
    IN  IF h = SBRK_FAILED
        THEN [heap |-> m, ret |-> NULL, ok |-> TRUE]
        ELSE [heap |-> [brk    |-> s.brk,
                        mem    |-> [m.mem EXCEPT ![h] = word],
                        chunks |-> m.chunks \cup {h}],
              ret  |-> header_to_payload(h),
              ok   |-> /\ is_aligned(h)
                       /\ get_chunk_status(word)
                       /\ get_chunk_size(word) = newsize]

mm_free(m, ptr) ==
    LET h    == payload_to_header(ptr)
        word == set_chunk_status(m.mem[h], FALSE)
    IN  IF ~(ptr >= mem_heap_lo /\ ptr <= mem_heap_hi(m.brk))
        THEN [heap |-> m, ok |-> FALSE]
        ELSE [heap |-> [m EXCEPT !.mem[h] = word], ok |-> ~get_chunk_status(word)]

memcpy(mem, dst, src, n) ==
    [a \in DOMAIN mem |-> IF a \in dst .. dst + n - 1
                          THEN mem[src + (a - dst)] ELSE mem[a]]

memset(mem, dst, byte, n) ==
    [a \in DOMAIN mem |-> IF a \in dst .. dst + n - 1 THEN byte ELSE mem[a]]

\* Mutant: the header is subtracted from the payload size a second time.
CopySize_HeaderTwice(size, payload) ==
    IF size < payload THEN size ELSE payload - SIZEOF_HEADER

\* The bytes both the old and the new block have room for.
CopySize(size, payload) == IF size < payload THEN size ELSE payload

\* Mutant: the old block is never freed.
FreeOld_Leak(r, ptr) == r

\* The tail of mm_realloc: free the old block, if there is one.
FreeOld(r, ptr) ==
    IF ptr = NULL THEN r
    ELSE LET f == mm_free(r.heap, ptr)
         IN  [heap |-> f.heap, ret |-> r.ret, ok |-> r.ok /\ f.ok]

mm_realloc(m, ptr, size) ==
    LET a       == mm_malloc(m, size)
        payload == get_chunk_size(a.heap.mem[payload_to_header(ptr)])
                       - SIZEOF_HEADER
        copied  == IF ptr = NULL
                   THEN a.heap
                   ELSE [a.heap EXCEPT !.mem =
                             memcpy(@, a.ret, ptr, CopySize(size, payload))]
    IN  IF size = 0
        THEN FreeOld([heap |-> m, ret |-> NULL, ok |-> TRUE], ptr)
        ELSE IF a.ret = NULL THEN a
        ELSE FreeOld([heap |-> copied, ret |-> a.ret, ok |-> a.ok], ptr)

\* A round of the loop of mm_checkheap: the chunk it has come to and its four
\* totals.  Nothing happens at the end of the heap.
Visit(m, t) ==
    LET sz == get_chunk_size(m.mem[t.h])
    IN  IF t.h >= mem_heap_hi(m.brk) THEN t
        ELSE IF get_chunk_status(m.mem[t.h])
        THEN [t EXCEPT !.h = get_next_chunk(m, @), !.allocated = @ + 1,
                       !.allocated_sz = @ + sz]
        ELSE [t EXCEPT !.h = get_next_chunk(m, @), !.free = @ + 1, !.free_sz = @ + sz]

\* The loop, cut where it should have ended: a chunk is never shorter than its
\* header, so a walk along chunks has no more rounds than headers fit the arena.
mm_checkheap(m) ==
    LET rounds == MAX_HEAP \div SIZEOF_HEADER
        after[n \in 0 .. rounds] ==
            IF n = 0
            THEN [h |-> mem_heap_lo, allocated |-> 0, allocated_sz |-> 0,
                  free |-> 0, free_sz |-> 0]
            ELSE Visit(m, after[n - 1])
    IN  after[rounds]

-----------------------------------------------------------------------------
(* The client: it frees and reallocates only what it holds, and stores     *)
(* only inside its blocks.                                                 *)

Without(f, x) == [y \in DOMAIN f \ {x} |-> f[y]]
With(f, x, v) == [y \in DOMAIN f \cup {x} |-> IF y = x THEN v ELSE f[y]]

Init ==
    /\ heap = InitHeap
    /\ live = [p \in {} |-> 0]
    /\ aborted = FALSE

\* A failed assert stops the program inside the call: nothing is returned.
Return(r, newLive) ==
    /\ heap' = r.heap
    /\ aborted' = ~r.ok
    /\ live' = IF r.ok THEN newLive ELSE live

Malloc(size) ==
    LET r == mm_malloc(heap, size)
    IN  Return(r, IF r.ret = NULL THEN live ELSE With(live, r.ret, size))

Free(p) == Return(mm_free(heap, p), Without(live, p))

Realloc(p, size) ==
    LET r == mm_realloc(heap, p, size)
    IN  Return(r, IF r.ret # NULL THEN With(Without(live, p), r.ret, size)
                  ELSE IF size = 0 THEN Without(live, p)
                  ELSE live)

\* A store is a memset of the whole block, as the driver does it.
Store(p, byte) ==
    /\ heap' = [heap EXCEPT !.mem = memset(@, p, byte, live[p])]
    /\ UNCHANGED <<live, aborted>>

\* mem_reset_brk and mm_init: the driver's start of a pass over a trace.
\* The bytes of the last pass stay in the arena.
Reset ==
    /\ heap' = EmptyHeap(heap.mem)
    /\ live' = [p \in {} |-> 0]
    /\ UNCHANGED aborted

NaiveNext ==
    /\ ~aborted
    /\ \/ \E s \in Sizes : Malloc(s)
       \/ \E p \in DOMAIN live : Free(p)
       \/ \E p \in DOMAIN live \cup {NULL}, s \in Sizes \cup {0} : Realloc(p, s)
       \/ \E p \in DOMAIN live, b \in Bytes : Store(p, b)
       \/ Reset

NaiveSpec == Init /\ [][NaiveNext]_vars

-----------------------------------------------------------------------------
(* Properties.                                                             *)

Payload(p) == p .. p + live[p] - 1

\* Every block the client holds is aligned, lies below the break, and shares
\* no byte with another block or with any chunk header: what add_range of the
\* driver demands of the value mm_malloc and mm_realloc return.
BlocksSound ==
    \A p \in DOMAIN live :
        /\ is_aligned(p)
        /\ Payload(p) \subseteq mem_heap_lo .. mem_heap_hi(heap.brk)
        /\ \A q \in DOMAIN live \ {p} : Payload(p) \cap Payload(q) = {}
        /\ \A h \in heap.chunks :
               Payload(p) \cap (h .. h + SIZEOF_HEADER - 1) = {}

\* No assert of mm_malloc or mm_free ever fails.
AssertsHold == ~aborted

\* Walking the implicit list from heap_lo visits whole chunks up to the
\* break: mm_checkheap's four totals account for every byte of the heap, and
\* count as allocated exactly the blocks the client holds.
CheckHeapExact ==
    LET t == mm_checkheap(heap)
    IN  /\ t.allocated_sz + t.free_sz = mem_heapsize(heap.brk)
        /\ t.allocated + t.free = Cardinality(heap.chunks)
        /\ t.allocated = Cardinality(DOMAIN live)

\* The strengthening that makes the invariants above inductive.  The chunks
\* tile the heap: each is aligned, has room for a header and a payload, and is
\* followed at once by another chunk or by the break.
ChunkSize(m, h) == get_chunk_size(m.mem[h])

ChunksTile(m) ==
    /\ is_aligned(m.brk)
    /\ \A h \in m.chunks :
           /\ h < m.brk
           /\ is_aligned(h)
           /\ ChunkSize(m, h) >= 2 * SIZEOF_HEADER
           /\ h + ChunkSize(m, h) \in m.chunks \cup {m.brk}
    /\ \A h \in m.chunks, g \in m.chunks \cup {m.brk} :
           h < g => h + ChunkSize(m, h) <= g

\* A block of the client is the payload of a chunk marked allocated, large
\* enough for it, and every chunk so marked is held by the client.
LiveMatchesStatus(m, l) ==
    /\ \A p \in DOMAIN l :
           /\ payload_to_header(p) \in m.chunks
           /\ get_chunk_status(m.mem[payload_to_header(p)])
           /\ l[p] + SIZEOF_HEADER <= ChunkSize(m, payload_to_header(p))
    /\ \A h \in m.chunks :
           get_chunk_status(m.mem[h]) => header_to_payload(h) \in DOMAIN l

HeapConsistent(m, l) ==
    /\ m \in Heap
    /\ l \in [DOMAIN l -> Nat]
    /\ DOMAIN l \subseteq Int
    /\ ChunksTile(m)
    /\ LiveMatchesStatus(m, l)

\* The inductive invariant of NaiveSpec.
NaiveInv == HeapConsistent(heap, live) /\ AssertsHold

\* The bytes the client finds in each of its blocks.
BlockContents ==
    [p \in DOMAIN live |-> [i \in 0 .. live[p] - 1 |-> heap.mem[p + i]]]

Abstract == INSTANCE Malloc WITH
    Arena <- Addr, Alignment <- ALIGNMENT, blocks <- BlockContents

\* mm-naive.c keeps the allocator's contract: every call is a step of Malloc
\* on the client's blocks and their bytes, so no call touches another block's
\* bytes, mm_realloc carries the old bytes over, and a failed call changes
\* nothing.
RefinesMalloc == Abstract!Spec

=============================================================================
