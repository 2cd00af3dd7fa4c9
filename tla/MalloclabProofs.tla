-------------------------- MODULE MalloclabProofs ---------------------------
(***************************************************************************)
(* mm-naive.c, and mdriver.c linked with it.                               *)
(*                                                                         *)
(* The allocator, for every arena size, every int width, every set of byte *)
(* values, and every set of request sizes that are positive and small      *)
(* enough for mm_malloc's int.                                             *)
(*                                                                         *)
(* The driver on top of it, for every arena, every int width and every     *)
(* list of trace files whose usable files are well-formed: its books       *)
(* against the package, and its judgement of each trace.                   *)
(***************************************************************************)
EXTENDS MDriver, Collections

\* The sizes for which the code is meant: mm_malloc keeps the chunk size in an
\* int, and the driver asserts that a request is not empty.
GoodSizes == \A s \in Sizes : 0 < s /\ s + 31 < INT_MOD \div 2

-----------------------------------------------------------------------------
(* Arithmetic.                                                             *)

\* align rounds a size up to the next multiple of 16.
LEMMA RoundUpBounds ==
    ASSUME NEW n \in Nat
    PROVE  /\ RoundUp(n) \in Nat
           /\ n <= RoundUp(n)
           /\ RoundUp(n) <= n + 15
           /\ RoundUp(n) % 16 = 0
BY DEF RoundUp, ALIGNMENT

\* A multiple of 16 is even, so bit 0 of a header word is free for the status.
LEMMA EvenWord ==
    ASSUME NEW n \in Nat, n % 16 = 0
    PROVE  /\ n % 2 = 0
           /\ (n + 1) % 2 = 1
OBVIOUS

\* mm_malloc's int newsize is exact for the sizes of GoodSizes.
LEMMA NewSize ==
    ASSUME NEW s \in Nat, s + 31 < INT_MOD \div 2
    PROVE  ToInt((align(s) + SIZEOF_HEADER) % SIZE_MOD) = RoundUp(s) + 16
<1>1. INT_MOD \in Nat /\ INT_MOD > 0
  BY MemLibAssumption
<1>2. RoundUp(s) \in Nat /\ RoundUp(s) + 16 < INT_MOD \div 2
  BY RoundUpBounds, <1>1
<1>3. INT_MOD <= SIZE_MOD /\ SIZE_MOD \in Nat
  BY <1>1 DEF SIZE_MOD
<1>4. \A x \in Nat : x < INT_MOD => x % SIZE_MOD = x
  BY <1>1, <1>3
<1>5. \A x \in Nat : x < INT_MOD => x % INT_MOD = x
  BY <1>1
<1>6. INT_MOD \div 2 <= INT_MOD /\ INT_MOD \div 2 \in Nat
  BY <1>1
<1>7. align(s) = RoundUp(s)
  BY <1>1, <1>2, <1>4, <1>6 DEF align
<1>8. (align(s) + SIZEOF_HEADER) % SIZE_MOD = RoundUp(s) + 16
  BY <1>1, <1>2, <1>4, <1>6, <1>7 DEF SIZEOF_HEADER
<1> QED
  BY <1>1, <1>2, <1>5, <1>6, <1>8 DEF ToInt

-----------------------------------------------------------------------------
(* What the operations do to a heap.                                       *)

\* The heap after a chunk of n bytes has been added at the break.
Grown(m, n) ==
    [brk    |-> m.brk + n,
     mem    |-> [m.mem EXCEPT ![m.brk] = n + 1],
     chunks |-> m.chunks \cup {m.brk}]

\* mm_malloc adds one chunk at the break with its word marked allocated, or
\* finds no room and changes nothing; none of its asserts fails.
LEMMA MallocEffect ==
    ASSUME NEW m \in Heap, is_aligned(m.brk),
           NEW s \in Nat, s + 31 < INT_MOD \div 2
    PROVE  mm_malloc(m, s) =
             IF m.brk + (RoundUp(s) + 16) > MAX_HEAP
             THEN [heap |-> m, ret |-> NULL, ok |-> TRUE]
             ELSE [heap |-> Grown(m, RoundUp(s) + 16),
                   ret  |-> m.brk + 16, ok |-> TRUE]
<1> DEFINE n == RoundUp(s) + 16
<1>1. n \in Nat /\ n % 16 = 0 /\ n >= 16
  BY RoundUpBounds
<1>2. ToInt((align(s) + SIZEOF_HEADER) % SIZE_MOD) = n
  BY NewSize
<1>3. m.brk \in Nat /\ MAX_HEAP \in Nat
  BY MemLibAssumption DEF Heap
<1>4. /\ set_chunk_size_status(n, TRUE) = n + 1
      /\ get_chunk_status(n + 1)
      /\ get_chunk_size(n + 1) = n
  BY <1>1, EvenWord
     DEF set_chunk_size_status, get_chunk_status, get_chunk_size
<1> HIDE DEF n
<1>5. CASE m.brk + n > MAX_HEAP
  <2>1. mem_sbrk(m.brk, n) = [brk |-> m.brk, ret |-> SBRK_FAILED]
    BY <1>5 DEF mem_sbrk
  <2> QED
    BY <1>2, <1>5, <2>1 DEF mm_malloc, n
<1>6. CASE ~(m.brk + n > MAX_HEAP)
  <2>1. mem_sbrk(m.brk, n) = [brk |-> m.brk + n, ret |-> m.brk]
    BY <1>1, <1>3, <1>6 DEF mem_sbrk
  <2>2. m.brk # SBRK_FAILED
    BY <1>3 DEF SBRK_FAILED
  <2>3. (/\ is_aligned(m.brk)
         /\ get_chunk_status(n + 1)
         /\ get_chunk_size(n + 1) = n) = TRUE
    BY <1>4
  <2>4. mm_malloc(m, s) =
          [heap |-> Grown(m, n), ret |-> header_to_payload(m.brk),
           ok   |-> /\ is_aligned(m.brk)
                    /\ get_chunk_status(n + 1)
                    /\ get_chunk_size(n + 1) = n]
    <3>1. /\ mem_sbrk(m.brk, n).ret = m.brk
          /\ mem_sbrk(m.brk, n).brk = m.brk + n
      BY <2>1
    <3> QED
      BY <1>2, <1>4, <2>2, <3>1, Zenon DEF mm_malloc, Grown
  <2>5. mm_malloc(m, s) =
          [heap |-> Grown(m, n), ret |-> header_to_payload(m.brk), ok |-> TRUE]
    BY <2>3, <2>4, Zenon
  <2> QED
    BY <1>6, <2>5 DEF n, header_to_payload, SIZEOF_HEADER
<1> QED
  BY <1>5, <1>6

\* The heap after the allocated bit of the word at h has been cleared.
Cleared(m, h) == [m EXCEPT !.mem[h] = get_chunk_size(m.mem[h])]

\* mm_free clears the status bit of the block's header; on a payload address
\* inside the heap neither of its asserts fails.
LEMMA FreeEffect ==
    ASSUME NEW m \in Heap, NEW p \in Int,
           payload_to_header(p) \in Addr, p < m.brk
    PROVE  mm_free(m, p) =
             [heap |-> Cleared(m, payload_to_header(p)), ok |-> TRUE]
<1> DEFINE w == m.mem[payload_to_header(p)]
<1>1. w \in Int
  BY DEF Heap
<1>2. ~get_chunk_status(w - (w % 2))
  BY <1>1 DEF get_chunk_status
<1>3. p >= mem_heap_lo /\ p <= mem_heap_hi(m.brk)
  BY MemLibAssumption
     DEF mem_heap_lo, mem_heap_hi, payload_to_header, SIZEOF_HEADER, Addr, Heap
<1> QED
  BY <1>1, <1>2, <1>3
     DEF mm_free, set_chunk_status, Cleared, get_chunk_size

-----------------------------------------------------------------------------
(* Each of them keeps the heap consistent with the client's blocks.        *)

\* A new chunk at the break, with room for s bytes, joins the tiling.
LEMMA GrowConsistent ==
    ASSUME NEW m, NEW l, HeapConsistent(m, l),
           NEW s \in Nat, s > 0, m.brk + (RoundUp(s) + 16) <= MAX_HEAP
    PROVE  HeapConsistent(Grown(m, RoundUp(s) + 16), With(l, m.brk + 16, s))
<1> DEFINE n == RoundUp(s) + 16
           g == Grown(m, n)
           k == With(l, m.brk + 16, s)
<1>1. n \in Nat /\ n % 16 = 0 /\ n >= 32 /\ n >= s + 16
  <2>1. RoundUp(s) \in Nat /\ s <= RoundUp(s) /\ RoundUp(s) % 16 = 0
    BY RoundUpBounds
  <2>2. RoundUp(s) >= 16
    BY <2>1
  <2> QED
    BY <2>1, <2>2
<1> HIDE DEF n
<1>2. m \in Heap /\ m.brk \in 0 .. MAX_HEAP /\ m.brk \in Addr
      /\ m.chunks \subseteq Addr /\ m.mem \in [Addr -> Int] /\ MAX_HEAP \in Nat
  BY <1>1, MemLibAssumption DEF HeapConsistent, Heap, Addr, n
<1>3. g.brk = m.brk + n /\ g.chunks = m.chunks \cup {m.brk}
      /\ g.mem = [m.mem EXCEPT ![m.brk] = n + 1]
  BY DEF Grown
<1>4. g \in Heap
  BY <1>1, <1>2 DEF Grown, Heap, Addr, n
<1>5. get_chunk_status(n + 1) /\ get_chunk_size(n + 1) = n
  BY <1>1, EvenWord DEF get_chunk_status, get_chunk_size
<1>6. g.mem[m.brk] = n + 1 /\ ChunkSize(g, m.brk) = n
  BY <1>2, <1>3, <1>5 DEF ChunkSize
<1>7. \A h \in m.chunks : h < m.brk /\ h # m.brk /\ g.mem[h] = m.mem[h]
                            /\ ChunkSize(g, h) = ChunkSize(m, h)
  BY <1>2, <1>3 DEF HeapConsistent, ChunksTile, ChunkSize, Addr
<1>8. \A h \in m.chunks : ChunkSize(m, h) \in Int
  BY <1>2 DEF ChunkSize, get_chunk_size
<1>9. ChunksTile(g)
  <2>1. is_aligned(g.brk)
    BY <1>1, <1>2, <1>3 DEF HeapConsistent, ChunksTile, is_aligned, ALIGNMENT
  <2>2. ASSUME NEW h \in g.chunks
        PROVE  /\ h < g.brk
               /\ is_aligned(h)
               /\ ChunkSize(g, h) >= 2 * SIZEOF_HEADER
               /\ h + ChunkSize(g, h) \in g.chunks \cup {g.brk}
    <3>1. CASE h = m.brk
      BY <1>1, <1>2, <1>3, <1>6, <3>1
         DEF HeapConsistent, ChunksTile, SIZEOF_HEADER
    <3>2. CASE h \in m.chunks
      <4>1. h \in Int /\ m.brk \in Int /\ n \in Nat
        BY <1>1, <1>2, <3>2 DEF Addr
      <4>2. /\ h < m.brk
            /\ is_aligned(h)
            /\ ChunkSize(m, h) >= 2 * SIZEOF_HEADER
            /\ h + ChunkSize(m, h) \in m.chunks \cup {m.brk}
        BY <3>2 DEF HeapConsistent, ChunksTile
      <4> QED
        BY <1>1, <1>2, <1>3, <1>7, <3>2, <4>1, <4>2
    <3> QED
      BY <1>3, <3>1, <3>2
  <2>3. ASSUME NEW h \in g.chunks, NEW f \in g.chunks \cup {g.brk}, h < f
        PROVE  h + ChunkSize(g, h) <= f
    <3>1. CASE h = m.brk
      <4>1. f = g.brk
        BY <1>2, <1>3, <1>7, <2>3, <3>1 DEF Addr
      <4> QED
        BY <1>1, <1>2, <1>3, <1>6, <3>1, <4>1
    <3>2. CASE h \in m.chunks
      <4>1. h + ChunkSize(m, h) <= m.brk
        BY <1>7, <3>2 DEF HeapConsistent, ChunksTile
      <4>2. f \in m.chunks => h + ChunkSize(m, h) <= f
        BY <2>3, <3>2 DEF HeapConsistent, ChunksTile
      <4>3. f \in m.chunks \/ f = m.brk \/ f = m.brk + n
        BY <1>3
      <4> QED
        BY <1>1, <1>2, <1>7, <1>8, <3>2, <4>1, <4>2, <4>3 DEF Addr
    <3> QED
      BY <1>3, <3>1, <3>2
  <2> QED
    BY <2>1, <2>2, <2>3 DEF ChunksTile
<1>10. k \in [DOMAIN k -> Nat] /\ DOMAIN k \subseteq Int
  BY <1>2 DEF HeapConsistent, With, Addr
<1>11. LiveMatchesStatus(g, k)
  <2>1. DOMAIN k = DOMAIN l \cup {m.brk + 16}
    BY DEF With
  <2>2. ASSUME NEW p \in DOMAIN k
        PROVE  /\ payload_to_header(p) \in g.chunks
               /\ get_chunk_status(g.mem[payload_to_header(p)])
               /\ k[p] + SIZEOF_HEADER <= ChunkSize(g, payload_to_header(p))
    <3>1. CASE p = m.brk + 16
      <4>1. payload_to_header(p) = m.brk /\ k[p] = s
        BY <1>2, <3>1 DEF payload_to_header, SIZEOF_HEADER, With
      <4> QED
        BY <1>1, <1>3, <1>5, <1>6, <4>1 DEF SIZEOF_HEADER
    <3>2. CASE p \in DOMAIN l /\ p # m.brk + 16
      <4>1. /\ payload_to_header(p) \in m.chunks
            /\ get_chunk_status(m.mem[payload_to_header(p)])
            /\ l[p] + SIZEOF_HEADER <= ChunkSize(m, payload_to_header(p))
        BY <3>2 DEF HeapConsistent, LiveMatchesStatus
      <4>2. k[p] = l[p]
        BY <3>2 DEF With
      <4> QED
        BY <1>3, <1>7, <4>1, <4>2
    <3> QED
      BY <2>1, <3>1, <3>2
  <2>3. ASSUME NEW h \in g.chunks, get_chunk_status(g.mem[h])
        PROVE  header_to_payload(h) \in DOMAIN k
    <3>1. CASE h = m.brk
      BY <2>1, <3>1 DEF header_to_payload, SIZEOF_HEADER
    <3>2. CASE h \in m.chunks
      BY <1>7, <2>1, <2>3, <3>2 DEF HeapConsistent, LiveMatchesStatus
    <3> QED
      BY <1>3, <3>1, <3>2
  <2> QED
    BY <2>2, <2>3 DEF LiveMatchesStatus
<1> QED
  BY <1>4, <1>9, <1>10, <1>11 DEF HeapConsistent, n

\* The bytes of a block: from its payload address to the end of its chunk.
Room(m, p) == p .. payload_to_header(p) + ChunkSize(m, payload_to_header(p)) - 1

\* Stores inside the payload of a block leave every header word alone.
LEMMA StoreConsistent ==
    ASSUME NEW m, NEW l, HeapConsistent(m, l),
           NEW p \in DOMAIN l,
           NEW cells \in [Addr -> Int],
           \A a \in Addr : a \notin Room(m, p) => cells[a] = m.mem[a]
    PROVE  HeapConsistent([m EXCEPT !.mem = cells], l)
<1> DEFINE g == [m EXCEPT !.mem = cells]
<1>1. m \in Heap /\ m.chunks \subseteq Addr /\ m.mem \in [Addr -> Int]
  BY DEF HeapConsistent, Heap
<1>2. g.brk = m.brk /\ g.chunks = m.chunks /\ g.mem = cells /\ g \in Heap
  BY <1>1 DEF Heap
<1>3. \A h \in m.chunks : h \in Int /\ ChunkSize(m, h) \in Int
  BY <1>1, MemLibAssumption DEF ChunkSize, get_chunk_size, Addr
<1>4. p \in Int /\ payload_to_header(p) \in m.chunks
      /\ payload_to_header(p) = p - 16
  BY DEF HeapConsistent, LiveMatchesStatus, payload_to_header, SIZEOF_HEADER
<1>5. \A h \in m.chunks : h \notin Room(m, p)
  <2>1. ASSUME NEW h \in m.chunks, h \in Room(m, p)
        PROVE  FALSE
    <3>1. h >= p /\ h < (p - 16) + ChunkSize(m, p - 16)
      BY <1>3, <1>4, <2>1 DEF Room
    <3>2. p - 16 < h
      BY <1>3, <1>4, <3>1
    <3>3. (p - 16) + ChunkSize(m, p - 16) <= h
      BY <1>4, <3>2 DEF HeapConsistent, ChunksTile
    <3> QED
      BY <1>3, <1>4, <3>1, <3>3
  <2> QED
    BY <2>1
<1>6. \A h \in m.chunks : g.mem[h] = m.mem[h] /\ ChunkSize(g, h) = ChunkSize(m, h)
  BY <1>1, <1>2, <1>5 DEF ChunkSize
<1> HIDE DEF g
<1>7. ChunksTile(g)
  BY <1>2, <1>6 DEF HeapConsistent, ChunksTile
<1>8. LiveMatchesStatus(g, l)
  BY <1>2, <1>6 DEF HeapConsistent, LiveMatchesStatus
<1> QED
  BY <1>2, <1>7, <1>8 DEF HeapConsistent, g

\* Clearing the status bit of a block's header takes the block from the client
\* and keeps the chunk in the tiling.
LEMMA ClearConsistent ==
    ASSUME NEW m, NEW l, HeapConsistent(m, l), NEW p \in DOMAIN l
    PROVE  HeapConsistent(Cleared(m, payload_to_header(p)), Without(l, p))
<1> DEFINE h0 == payload_to_header(p)
           g  == Cleared(m, h0)
           k  == Without(l, p)
<1>1. m \in Heap /\ m.chunks \subseteq Addr /\ m.mem \in [Addr -> Int]
      /\ p \in Int /\ h0 \in m.chunks /\ h0 \in Addr /\ h0 = p - 16
  BY DEF HeapConsistent, Heap, LiveMatchesStatus, payload_to_header, SIZEOF_HEADER
<1>2. m.mem[h0] \in Int /\ get_chunk_size(m.mem[h0]) \in Int
  BY <1>1 DEF get_chunk_size
<1>3. g.brk = m.brk /\ g.chunks = m.chunks /\ g \in Heap
      /\ g.mem = [m.mem EXCEPT ![h0] = get_chunk_size(m.mem[h0])]
  BY <1>1, <1>2 DEF Cleared, Heap
<1>4. /\ get_chunk_size(get_chunk_size(m.mem[h0])) = get_chunk_size(m.mem[h0])
      /\ ~get_chunk_status(get_chunk_size(m.mem[h0]))
  BY <1>2 DEF get_chunk_size, get_chunk_status
<1>5. g.mem[h0] = get_chunk_size(m.mem[h0])
      /\ \A h \in m.chunks \ {h0} : g.mem[h] = m.mem[h]
  BY <1>1, <1>3
<1>6. \A h \in m.chunks : ChunkSize(g, h) = ChunkSize(m, h)
  BY <1>1, <1>4, <1>5 DEF ChunkSize
<1>7. DOMAIN k = DOMAIN l \ {p} /\ k \in [DOMAIN k -> Nat]
      /\ \A q \in DOMAIN k : k[q] = l[q]
  BY DEF Without, HeapConsistent
<1> HIDE DEF g, k
<1>8. ChunksTile(g)
  BY <1>3, <1>6 DEF HeapConsistent, ChunksTile
<1>9. LiveMatchesStatus(g, k)
  <2>1. ASSUME NEW q \in DOMAIN k
        PROVE  /\ payload_to_header(q) \in g.chunks
               /\ get_chunk_status(g.mem[payload_to_header(q)])
               /\ k[q] + SIZEOF_HEADER <= ChunkSize(g, payload_to_header(q))
    <3>1. payload_to_header(q) # h0
      BY <1>1, <1>7 DEF payload_to_header, SIZEOF_HEADER, HeapConsistent
    <3>2. /\ payload_to_header(q) \in m.chunks
          /\ get_chunk_status(m.mem[payload_to_header(q)])
          /\ l[q] + SIZEOF_HEADER <= ChunkSize(m, payload_to_header(q))
      BY <1>7 DEF HeapConsistent, LiveMatchesStatus
    <3> QED
      BY <1>3, <1>5, <1>6, <1>7, <3>1, <3>2
  <2>2. ASSUME NEW h \in g.chunks, get_chunk_status(g.mem[h])
        PROVE  header_to_payload(h) \in DOMAIN k
    <3>1. h # h0
      BY <1>4, <1>5, <2>2
    <3>2. header_to_payload(h) \in DOMAIN l
      BY <1>3, <1>5, <2>2, <3>1 DEF HeapConsistent, LiveMatchesStatus
    <3>3. header_to_payload(h) # p
      BY <1>1, <1>3, <3>1 DEF header_to_payload, SIZEOF_HEADER, Addr
    <3> QED
      BY <1>7, <3>2, <3>3
  <2> QED
    BY <2>1, <2>2 DEF LiveMatchesStatus
<1> QED
  BY <1>3, <1>7, <1>8, <1>9 DEF HeapConsistent, g, k

\* A block is inside the heap: mm_free's first assert holds of it.
LEMMA BlockInHeap ==
    ASSUME NEW m, NEW l, HeapConsistent(m, l), NEW p \in DOMAIN l
    PROVE  /\ p \in Int
           /\ payload_to_header(p) \in Addr
           /\ payload_to_header(p) \in m.chunks
           /\ p < m.brk
           /\ payload_to_header(p) + ChunkSize(m, payload_to_header(p)) <= m.brk
<1>1. p \in Int /\ payload_to_header(p) \in m.chunks /\ m.chunks \subseteq Addr
      /\ m.mem \in [Addr -> Int] /\ m.brk \in Int
  BY MemLibAssumption DEF HeapConsistent, LiveMatchesStatus, Heap
<1>2. /\ payload_to_header(p) < m.brk
      /\ payload_to_header(p) + ChunkSize(m, payload_to_header(p)) <= m.brk
      /\ ChunkSize(m, payload_to_header(p)) >= 32
  BY <1>1 DEF HeapConsistent, ChunksTile, SIZEOF_HEADER
<1>3. ChunkSize(m, payload_to_header(p)) \in Int
  BY <1>1 DEF ChunkSize, get_chunk_size
<1> QED
  BY <1>1, <1>2, <1>3 DEF payload_to_header, SIZEOF_HEADER

-----------------------------------------------------------------------------
(* The invariant.                                                          *)

\* A call that returns with its asserts intact keeps NaiveInv when the heap
\* and the client's blocks it leaves are consistent.
LEMMA ReturnKeepsInv ==
    ASSUME NEW r, NEW l, r.ok = TRUE, Return(r, l), HeapConsistent(r.heap, l)
    PROVE  NaiveInv' /\ heap' = r.heap /\ live' = l
BY DEF Return, NaiveInv, AssertsHold

\* What a call does to the heap and to the client's blocks: nothing; a chunk of
\* its own for a block of s bytes; the header of the block at p cleared; or both,
\* with the bytes of the old block copied to the new one in between.
Nothing == UNCHANGED <<heap, live>>

Grew(s) ==
    /\ heap.brk + (RoundUp(s) + 16) <= MAX_HEAP
    /\ heap' = Grown(heap, RoundUp(s) + 16)
    /\ live' = With(live, heap.brk + 16, s)

Freed(p) ==
    /\ heap' = Cleared(heap, payload_to_header(p))
    /\ live' = Without(live, p)

Moved(p, s) ==
    LET g == Grown(heap, RoundUp(s) + 16)
        c == CopySize(s, ChunkSize(g, payload_to_header(p)) - SIZEOF_HEADER)
        q == heap.brk + 16
    IN  /\ heap.brk + (RoundUp(s) + 16) <= MAX_HEAP
        /\ heap' = Cleared([g EXCEPT !.mem = memcpy(@, q, p, c)],
                           payload_to_header(p))
        /\ live' = With(Without(live, p), q, s)

\* A call of mm_malloc keeps the inductive invariant.
LEMMA MallocStep ==
    ASSUME GoodSizes, NaiveInv, NEW s \in Sizes, Malloc(s)
    PROVE  NaiveInv' /\ (Nothing \/ Grew(s))
<1>1. s \in Nat /\ s > 0 /\ s + 31 < INT_MOD \div 2
  BY MmNaiveAssumption DEF GoodSizes
<1>2. HeapConsistent(heap, live) /\ heap \in Heap /\ is_aligned(heap.brk)
      /\ heap.brk \in Nat
  BY MemLibAssumption DEF NaiveInv, HeapConsistent, ChunksTile, Heap
<1> DEFINE r == mm_malloc(heap, s)
           n == RoundUp(s) + 16
<1>3. n \in Nat
  BY <1>1, RoundUpBounds
<1>4. CASE heap.brk + n > MAX_HEAP
  <2>1. r = [heap |-> heap, ret |-> NULL, ok |-> TRUE]
    BY <1>1, <1>2, <1>4, MallocEffect
  <2>2. Return(r, live) /\ r.ok = TRUE /\ r.heap = heap
    BY <2>1 DEF Malloc
  <2> HIDE DEF r
  <2> QED
    BY <1>2, <2>2, ReturnKeepsInv DEF Nothing
<1>5. CASE ~(heap.brk + n > MAX_HEAP)
  <2>1. r = [heap |-> Grown(heap, n), ret |-> heap.brk + 16, ok |-> TRUE]
    BY <1>1, <1>2, <1>5, MallocEffect
  <2>2. r.ret # NULL
    BY <1>2, <2>1 DEF NULL
  <2>3. HeapConsistent(Grown(heap, n), With(live, heap.brk + 16, s))
    BY <1>1, <1>2, <1>3, <1>5, MemLibAssumption, GrowConsistent
  <2>4. Return(r, With(live, heap.brk + 16, s)) /\ r.ok = TRUE
        /\ r.heap = Grown(heap, n)
    BY <2>1, <2>2 DEF Malloc
  <2> HIDE DEF r
  <2>5. NaiveInv' /\ heap' = Grown(heap, n) /\ live' = With(live, heap.brk + 16, s)
    BY <2>3, <2>4, ReturnKeepsInv
  <2>6. heap.brk + n <= MAX_HEAP
    BY <1>2, <1>3, <1>5, MemLibAssumption
  <2> QED
    BY <2>5, <2>6 DEF Grew
<1> QED
  BY <1>4, <1>5

\* A call of mm_free on a block of the client keeps the inductive invariant.
LEMMA FreeStep ==
    ASSUME NaiveInv, NEW p \in DOMAIN live, Free(p)
    PROVE  NaiveInv' /\ Freed(p)
<1>1. HeapConsistent(heap, live) /\ heap \in Heap
  BY DEF NaiveInv, HeapConsistent
<1>2. mm_free(heap, p) = [heap |-> Cleared(heap, payload_to_header(p)), ok |-> TRUE]
  BY <1>1, BlockInHeap, FreeEffect
<1>3. HeapConsistent(Cleared(heap, payload_to_header(p)), Without(live, p))
  BY <1>1, ClearConsistent
<1> QED
  <2> DEFINE r == mm_free(heap, p)
  <2>1. /\ r.ok = TRUE /\ r.heap = Cleared(heap, payload_to_header(p))
        /\ Return(r, Without(live, p))
    BY <1>2 DEF Free
  <2> HIDE DEF r
  <2>2. NaiveInv' /\ heap' = r.heap /\ live' = Without(live, p)
    BY <1>3, <2>1, ReturnKeepsInv
  <2> QED
    BY <2>1, <2>2 DEF Freed

\* memcpy and memset store only in the addresses they are given.
LEMMA CopyEffect ==
    ASSUME NEW mem \in [Addr -> Int], NEW dst \in Int, NEW src \in Int,
           NEW n \in Int, src >= 0, src + n <= MAX_HEAP
    PROVE  /\ memcpy(mem, dst, src, n) \in [Addr -> Int]
           /\ \A a \in Addr : a \notin dst .. dst + n - 1
                                  => memcpy(mem, dst, src, n)[a] = mem[a]
<1>1. \A a \in Addr : a \in dst .. dst + n - 1 => src + (a - dst) \in Addr
  BY MemLibAssumption DEF Addr
<1> QED
  BY <1>1 DEF memcpy

\* memset, likewise, in the block it is given.
LEMMA SetEffect ==
    ASSUME NEW mem \in [Addr -> Int], NEW dst \in Int, NEW b \in Int, NEW n \in Int
    PROVE  /\ memset(mem, dst, b, n) \in [Addr -> Int]
           /\ \A a \in Addr : a \notin dst .. dst + n - 1
                                  => memset(mem, dst, b, n)[a] = mem[a]
BY DEF memset

\* A client that fills one of its blocks keeps the inductive invariant.
LEMMA StoreStep ==
    ASSUME NaiveInv, NEW p \in DOMAIN live, NEW b \in Bytes, Store(p, b)
    PROVE  NaiveInv'
<1>1. HeapConsistent(heap, live) /\ heap.mem \in [Addr -> Int]
      /\ heap.chunks \subseteq Addr
  BY DEF NaiveInv, HeapConsistent, Heap
<1>2. p \in Int /\ live[p] \in Nat /\ b \in Int
  BY <1>1, MmNaiveAssumption DEF HeapConsistent
<1> DEFINE cells == memset(heap.mem, p, b, live[p])
<1>3. cells \in [Addr -> Int]
      /\ \A a \in Addr : a \notin p .. p + live[p] - 1 => cells[a] = heap.mem[a]
  BY <1>1, <1>2, SetEffect
<1>4. p .. p + live[p] - 1 \subseteq Room(heap, p)
  <2>1. live[p] + 16 <= ChunkSize(heap, payload_to_header(p))
        /\ payload_to_header(p) = p - 16
        /\ payload_to_header(p) \in heap.chunks
    BY <1>1 DEF HeapConsistent, LiveMatchesStatus, SIZEOF_HEADER, payload_to_header
  <2>2. ChunkSize(heap, payload_to_header(p)) \in Int
    BY <1>1, <2>1 DEF ChunkSize, get_chunk_size
  <2> QED
    BY <1>2, <2>1, <2>2 DEF Room
<1> HIDE DEF cells
<1>5. HeapConsistent([heap EXCEPT !.mem = cells], live)
  BY <1>1, <1>3, <1>4, StoreConsistent
<1> QED
  BY <1>5 DEF Store, NaiveInv, AssertsHold, cells

\* mem_reset_brk and mm_init leave an empty, consistent heap.
LEMMA ResetStep ==
    ASSUME NaiveInv, Reset
    PROVE  NaiveInv'
<1>1. heap.mem \in [Addr -> Int] /\ MAX_HEAP \in Nat
  BY MemLibAssumption DEF NaiveInv, HeapConsistent, Heap
<1>2. HeapConsistent(EmptyHeap(heap.mem), [p \in {} |-> 0])
  BY <1>1 DEF HeapConsistent, ChunksTile, LiveMatchesStatus, EmptyHeap, Heap,
              mem_reset_brk, is_aligned, ALIGNMENT
<1> QED
  BY <1>2 DEF Reset, NaiveInv, AssertsHold

\* Copying into the new block at q what the block at p holds: the stores stay
\* inside the new block's chunk, and the loads inside the old one's.
LEMMA CopyConsistent ==
    ASSUME NEW m, NEW l, HeapConsistent(m, l),
           NEW p \in DOMAIN l, NEW q \in DOMAIN l, NEW n \in Int,
           n <= l[q],
           n <= ChunkSize(m, payload_to_header(p)) - SIZEOF_HEADER
    PROVE  HeapConsistent([m EXCEPT !.mem = memcpy(@, q, p, n)], l)
<1>1. m.mem \in [Addr -> Int] /\ m.brk \in 0 .. MAX_HEAP /\ MAX_HEAP \in Nat
      /\ m.chunks \subseteq Addr
  BY MemLibAssumption DEF HeapConsistent, Heap
<1>2. /\ p \in Int /\ q \in Int /\ l[q] \in Nat
      /\ payload_to_header(p) \in Addr /\ payload_to_header(q) \in Addr
      /\ payload_to_header(p) = p - 16 /\ payload_to_header(q) = q - 16
      /\ payload_to_header(p) + ChunkSize(m, payload_to_header(p)) <= m.brk
      /\ l[q] + 16 <= ChunkSize(m, payload_to_header(q))
  BY BlockInHeap
     DEF HeapConsistent, LiveMatchesStatus, payload_to_header, SIZEOF_HEADER
<1>3. /\ ChunkSize(m, payload_to_header(p)) \in Int
      /\ ChunkSize(m, payload_to_header(q)) \in Int
  BY <1>1, <1>2 DEF ChunkSize, get_chunk_size
<1>4. p >= 0 /\ p + n <= MAX_HEAP
  <2> DEFINE z == ChunkSize(m, payload_to_header(p))
  <2>1. z \in Int /\ n <= z - 16 /\ (p - 16) + z <= m.brk /\ p >= 16
    BY <1>1, <1>2, <1>3 DEF SIZEOF_HEADER, Addr
  <2> HIDE DEF z
  <2> QED
    BY <1>1, <1>2, <2>1
<1> DEFINE cells == memcpy(m.mem, q, p, n)
<1>5. cells \in [Addr -> Int]
      /\ \A a \in Addr : a \notin q .. q + n - 1 => cells[a] = m.mem[a]
  BY <1>1, <1>2, <1>4, CopyEffect
<1>6. q .. q + n - 1 \subseteq Room(m, q)
  BY <1>2, <1>3 DEF Room
<1> HIDE DEF cells
<1>7. HeapConsistent([m EXCEPT !.mem = cells], l)
  BY <1>5, <1>6, StoreConsistent
<1> QED
  BY <1>7 DEF cells

\* A call of mm_realloc, on NULL or on a block of the client, keeps the
\* inductive invariant, whether it moves, frees or fails.
LEMMA ReallocStep ==
    ASSUME GoodSizes, NaiveInv,
           NEW p \in DOMAIN live \cup {NULL}, NEW s \in Sizes \cup {0},
           Realloc(p, s)
    PROVE  /\ NaiveInv'
           /\ \/ Nothing
              \/ p = NULL /\ s # 0 /\ Grew(s)
              \/ p \in DOMAIN live /\ (Freed(p) \/ (s # 0 /\ Moved(p, s)))
<1> DEFINE r == mm_realloc(heap, p, s)
           a == mm_malloc(heap, s)
           n == RoundUp(s) + 16
           q == heap.brk + 16
           new == With(live, q, s)
<1>1. HeapConsistent(heap, live) /\ heap \in Heap /\ is_aligned(heap.brk)
      /\ heap.brk \in Nat /\ heap.mem \in [Addr -> Int]
  BY MemLibAssumption DEF NaiveInv, HeapConsistent, ChunksTile, Heap
<1>2. \A b \in DOMAIN live : b # NULL /\ b # q
  BY <1>1, BlockInHeap, MemLibAssumption
     DEF Addr, payload_to_header, SIZEOF_HEADER, NULL
<1>3. Without(live, NULL) = live
  BY <1>1, <1>2 DEF Without, HeapConsistent
<1>4. s \in Nat /\ (s # 0 => s > 0 /\ s + 31 < INT_MOD \div 2)
  BY MmNaiveAssumption DEF GoodSizes
<1>5. CASE s = 0 /\ p = NULL
  <2>1. r = [heap |-> heap, ret |-> NULL, ok |-> TRUE]
    BY <1>5 DEF mm_realloc, FreeOld
  <2>2. Return(r, live)
    BY <1>3, <1>5, <2>1 DEF Realloc
  <2>3. r.ok = TRUE /\ r.heap = heap
    BY <2>1
  <2> HIDE DEF r
  <2> QED
    BY <1>1, <2>2, <2>3, ReturnKeepsInv DEF Nothing
<1>6. CASE s = 0 /\ p \in DOMAIN live
  <2>1. mm_free(heap, p) =
          [heap |-> Cleared(heap, payload_to_header(p)), ok |-> TRUE]
    BY <1>1, <1>6, BlockInHeap, FreeEffect
  <2>2. r = [heap |-> Cleared(heap, payload_to_header(p)), ret |-> NULL, ok |-> TRUE]
    <3>1. r = [heap |-> mm_free(heap, p).heap, ret |-> NULL,
               ok |-> TRUE /\ mm_free(heap, p).ok]
      BY <1>2, <1>6 DEF mm_realloc, FreeOld
    <3>2. mm_free(heap, p).heap = Cleared(heap, payload_to_header(p))
          /\ mm_free(heap, p).ok = TRUE
      BY <2>1
    <3> QED
      BY <3>1, <3>2, Zenon
  <2>3. Return(r, Without(live, p))
    BY <1>6, <2>2 DEF Realloc
  <2>4. r.ok = TRUE /\ r.heap = Cleared(heap, payload_to_header(p))
    BY <2>2
  <2>5. HeapConsistent(r.heap, Without(live, p))
    BY <1>1, <1>6, <2>4, ClearConsistent
  <2> HIDE DEF r
  <2> QED
    BY <1>6, <2>3, <2>4, <2>5, ReturnKeepsInv DEF Freed
<1>7. CASE s # 0 /\ heap.brk + n > MAX_HEAP
  <2>1. a = [heap |-> heap, ret |-> NULL, ok |-> TRUE]
    BY <1>1, <1>4, <1>7, MallocEffect
  <2>2. r = a
    BY <1>7, <2>1 DEF mm_realloc, FreeOld
  <2>3. Return(r, live) /\ r.ok = TRUE /\ r.heap = heap
    BY <1>7, <2>1, <2>2 DEF Realloc
  <2> HIDE DEF r
  <2> QED
    BY <1>1, <2>3, ReturnKeepsInv DEF Nothing
<1>8. CASE s # 0 /\ ~(heap.brk + n > MAX_HEAP)
  <2>1. a = [heap |-> Grown(heap, n), ret |-> q, ok |-> TRUE]
    BY <1>1, <1>4, <1>8, MallocEffect
  <2>2. q # NULL /\ q \in Int
    BY <1>1 DEF NULL
  <2>f. heap.brk + n <= MAX_HEAP
    BY <1>1, <1>4, <1>8, RoundUpBounds, MemLibAssumption
  <2>3. HeapConsistent(Grown(heap, n), new)
    BY <1>1, <1>4, <1>8, <2>f, GrowConsistent
  <2>4. CASE p = NULL
    <3>1. r = [heap |-> Grown(heap, n), ret |-> q, ok |-> TRUE]
      BY <1>8, <2>1, <2>2, <2>4 DEF mm_realloc, FreeOld
    <3>2. Return(r, new) /\ r.ok = TRUE /\ r.heap = Grown(heap, n)
      BY <1>3, <2>2, <2>4, <3>1 DEF Realloc
    <3> HIDE DEF r
    <3>3. NaiveInv' /\ heap' = Grown(heap, n) /\ live' = new
      BY <2>3, <3>2, ReturnKeepsInv
    <3> QED
      BY <1>8, <2>4, <2>f, <3>3 DEF Grew
  <2>5. CASE p \in DOMAIN live
    <3> DEFINE g       == Grown(heap, n)
               payload == get_chunk_size(g.mem[payload_to_header(p)]) - SIZEOF_HEADER
               c       == CopySize(s, payload)
               copied  == [g EXCEPT !.mem = memcpy(@, q, p, c)]
               done    == Cleared(copied, payload_to_header(p))
    <3>1. p \in DOMAIN new /\ q \in DOMAIN new /\ new[q] = s
      BY <2>5 DEF With
    <3>2. g.mem \in [Addr -> Int] /\ payload_to_header(p) \in Addr
      BY <2>3, <3>1, BlockInHeap DEF HeapConsistent, Heap
    <3>3. payload \in Int /\ payload = ChunkSize(g, payload_to_header(p)) - SIZEOF_HEADER
      BY <3>2 DEF get_chunk_size, ChunkSize, SIZEOF_HEADER
    <3> HIDE DEF payload
    <3>4. c \in Int /\ c <= s /\ c <= payload
      BY <1>4, <3>3 DEF CopySize
    <3> HIDE DEF c, g, new
    <3>5. HeapConsistent(copied, new)
      BY <2>3, <3>1, <3>3, <3>4, CopyConsistent DEF g
    <3> HIDE DEF copied
    <3>6. mm_free(copied, p) = [heap |-> done, ok |-> TRUE]
      BY <3>1, <3>5, BlockInHeap, FreeEffect DEF HeapConsistent
    <3>7. HeapConsistent(done, Without(new, p))
      BY <3>1, <3>5, ClearConsistent
    <3>8. Without(new, p) = With(Without(live, p), q, s)
      BY <1>2, <2>5 DEF Without, With, new
    <3>9. p # NULL
      BY <1>2, <2>5
    <3>10. a.heap = g /\ a.ret = q /\ a.ok = TRUE
      BY <2>1 DEF g
    <3>11. r = [heap |-> done, ret |-> q, ok |-> TRUE]
      <4>1. mm_free(copied, p).heap = done /\ mm_free(copied, p).ok = TRUE
        BY <3>6
      <4>2. r = [heap |-> mm_free(copied, p).heap, ret |-> q,
                 ok |-> TRUE /\ mm_free(copied, p).ok]
        BY <1>8, <2>2, <3>9, <3>10 DEF mm_realloc, FreeOld, copied, c, payload
      <4> QED
        BY <4>1, <4>2, Zenon
    <3> HIDE DEF done
    <3>12. Return(r, Without(new, p)) /\ r.ok = TRUE /\ r.heap = done
      BY <2>2, <3>8, <3>11 DEF Realloc
    <3> HIDE DEF r
    <3>13. NaiveInv' /\ heap' = done /\ live' = With(Without(live, p), q, s)
      BY <3>7, <3>8, <3>12, ReturnKeepsInv
    <3>14. Moved(p, s)
      BY <2>f, <3>3, <3>13 DEF Moved, done, copied, c, g
    <3> QED
      BY <1>8, <2>5, <3>13, <3>14
  <2> QED
    BY <2>4, <2>5
<1> QED
  BY <1>5, <1>6, <1>7, <1>8

\* The heap is consistent before the first call.
LEMMA InitInv == Init => NaiveInv
<1>1. MAX_HEAP \in Nat /\ [b \in Addr |-> Garbage] \in [Addr -> Int]
  BY MemLibAssumption, MmNaiveAssumption
<1>2. HeapConsistent(InitHeap, [p \in {} |-> 0])
  BY <1>1 DEF HeapConsistent, ChunksTile, LiveMatchesStatus, InitHeap, EmptyHeap,
              Heap, mem_reset_brk, is_aligned, ALIGNMENT
<1> QED
  BY <1>2 DEF Init, NaiveInv, AssertsHold

\* mm-naive.c keeps its implicit chunk list intact: for every arena, every int
\* width and every program of mallocs, frees, reallocs and stores with sizes
\* an int can hold, the chunks tile the heap and their status bits are exactly
\* the client's blocks.
THEOREM NaiveInvariant ==
    ASSUME GoodSizes
    PROVE  NaiveSpec => []NaiveInv
<1>1. NaiveInv /\ [NaiveNext]_vars => NaiveInv'
  <2> SUFFICES ASSUME NaiveInv, [NaiveNext]_vars
               PROVE  NaiveInv'
    OBVIOUS
  <2>1. ASSUME NEW s \in Sizes, Malloc(s)
        PROVE  NaiveInv'
    BY <2>1, MallocStep
  <2>2. ASSUME NEW p \in DOMAIN live, Free(p)
        PROVE  NaiveInv'
    BY <2>2, FreeStep
  <2>3. ASSUME NEW p \in DOMAIN live \cup {NULL}, NEW s \in Sizes \cup {0},
               Realloc(p, s)
        PROVE  NaiveInv'
    BY <2>3, ReallocStep
  <2>4. ASSUME NEW p \in DOMAIN live, NEW b \in Bytes, Store(p, b)
        PROVE  NaiveInv'
    BY <2>4, StoreStep
  <2>5. CASE Reset
    BY <2>5, ResetStep
  <2>6. CASE UNCHANGED vars
    BY <2>6 DEF vars, NaiveInv, AssertsHold
  <2> QED
    BY <2>1, <2>2, <2>3, <2>4, <2>5, <2>6 DEF NaiveNext
<1> QED
  BY InitInv, <1>1, PTL DEF NaiveSpec

\* The asserts of mm_malloc and mm_free never fail, under the same sizes.
THEOREM NaiveAssertsHold ==
    ASSUME GoodSizes
    PROVE  NaiveSpec => []AssertsHold
<1>1. NaiveInv => AssertsHold
  BY DEF NaiveInv
<1> QED
  BY NaiveInvariant, <1>1, PTL

\* A chunk marked allocated holds its block: no byte of the block lies in the
\* header of any chunk, and two chunks share no byte.
LEMMA ConsistentBlocks ==
    ASSUME NaiveInv
    PROVE  BlocksSound
<1>1. HeapConsistent(heap, live) /\ heap.chunks \subseteq Addr
      /\ heap.mem \in [Addr -> Int] /\ heap.brk \in Int /\ MAX_HEAP \in Nat
  BY MemLibAssumption DEF NaiveInv, HeapConsistent, Heap
<1>2. ASSUME NEW p \in DOMAIN live
      PROVE  /\ p \in Int /\ live[p] \in Nat
             /\ payload_to_header(p) = p - 16
             /\ p - 16 \in heap.chunks /\ p >= 16 /\ p % 16 = 0
             /\ ChunkSize(heap, p - 16) \in Int
             /\ p + live[p] <= (p - 16) + ChunkSize(heap, p - 16)
             /\ (p - 16) + ChunkSize(heap, p - 16) <= heap.brk
  <2>1. p \in Int /\ live[p] \in Nat /\ payload_to_header(p) = p - 16
    BY <1>1 DEF HeapConsistent, payload_to_header, SIZEOF_HEADER
  <2>2. p - 16 \in heap.chunks /\ p - 16 \in Addr
        /\ (p - 16) + ChunkSize(heap, p - 16) <= heap.brk
    BY <1>1, <2>1, BlockInHeap
  <2>3. live[p] + 16 <= ChunkSize(heap, p - 16)
    BY <1>1, <2>1 DEF HeapConsistent, LiveMatchesStatus, SIZEOF_HEADER
  <2>4. ChunkSize(heap, p - 16) \in Int
    BY <1>1, <2>2 DEF ChunkSize, get_chunk_size
  <2>5. (p - 16) % 16 = 0
    BY <1>1, <2>2 DEF HeapConsistent, ChunksTile, is_aligned, ALIGNMENT
  <2>6. p >= 16
    BY <1>1, <2>1, <2>2 DEF Addr
  <2>7. p % 16 = 0
    BY <2>1, <2>5
  <2> QED
    BY <2>1, <2>2, <2>3, <2>4, <2>6, <2>7
<1>3. \A g, h \in heap.chunks : g < h => g + ChunkSize(heap, g) <= h
  BY <1>1 DEF HeapConsistent, ChunksTile
<1>4. ASSUME NEW p \in DOMAIN live, NEW h \in heap.chunks
      PROVE  Payload(p) \cap (h .. h + 15) = {}
  <2>1. h \in Int /\ h % 16 = 0
    BY <1>1 DEF Addr, HeapConsistent, ChunksTile, is_aligned, ALIGNMENT
  <2>2. CASE h <= p - 16
    BY <1>2, <2>1, <2>2 DEF Payload
  <2>3. CASE h > p - 16
    <3>1. (p - 16) + ChunkSize(heap, p - 16) <= h
      BY <1>2, <1>3, <2>3
    <3>2. p + live[p] <= h
      BY <1>2, <2>1, <3>1
    <3> QED
      BY <1>2, <2>1, <3>2 DEF Payload
  <2> QED
    BY <1>2, <2>1, <2>2, <2>3
<1>5. ASSUME NEW p \in DOMAIN live, NEW q \in DOMAIN live, p < q
      PROVE  Payload(p) \cap Payload(q) = {}
  <2>1. p - 16 < q - 16
    BY <1>2, <1>5
  <2>2. (p - 16) + ChunkSize(heap, p - 16) <= q - 16
    BY <1>2, <1>3, <2>1
  <2>3. p + live[p] <= q
    BY <1>2, <2>2
  <2> QED
    BY <1>2, <2>3 DEF Payload
<1>6. ASSUME NEW p \in DOMAIN live, NEW q \in DOMAIN live, p # q
      PROVE  Payload(p) \cap Payload(q) = {}
  <2>1. p < q \/ q < p
    BY <1>2, <1>6
  <2> QED
    BY <1>5, <2>1
<1>7. ASSUME NEW p \in DOMAIN live
      PROVE  /\ is_aligned(p)
             /\ Payload(p) \subseteq mem_heap_lo .. mem_heap_hi(heap.brk)
  <2>1. p \in Int /\ live[p] \in Nat /\ p >= 16 /\ p + live[p] <= heap.brk
    BY <1>1, <1>2
  <2>2. p % 16 = 0
    BY <1>2
  <2> QED
    BY <1>1, <2>1, <2>2
       DEF Payload, is_aligned, ALIGNMENT, mem_heap_lo, mem_heap_hi
<1> QED
  BY <1>4, <1>6, <1>7 DEF BlocksSound, SIZEOF_HEADER

\* Every block the client holds is aligned, inside the heap, and shares no byte
\* with another block or with a header: what the driver's add_range checks can
\* never fail for mm-naive.c, whatever the client's program and the arena.
THEOREM NaiveBlocksSound ==
    ASSUME GoodSizes
    PROVE  NaiveSpec => []BlocksSound
<1>1. NaiveInv => BlocksSound
  BY ConsistentBlocks
<1> QED
  BY NaiveInvariant, <1>1, PTL

-----------------------------------------------------------------------------
(* The allocator's contract: the bytes of the client's blocks.             *)

\* The bytes of the blocks of B survive the step.
Kept(B) == \A b \in B : \A a \in Payload(b) : heap'.mem[a] = heap.mem[a]

\* Where the blocks and the bytes of one state lie.
LEMMA BlockPlaces ==
    ASSUME NaiveInv, NEW b \in DOMAIN live
    PROVE  /\ b \in Int /\ live[b] \in Nat /\ b >= 16 /\ b + live[b] <= heap.brk
           /\ heap.brk \in 0 .. MAX_HEAP /\ heap.mem \in [Addr -> Int]
           /\ b - 16 \in heap.chunks
           /\ Payload(b) \subseteq Addr
           /\ \A a \in Payload(b) : a < heap.brk /\ a \notin heap.chunks
<1>1. BlocksSound
  BY ConsistentBlocks
<1>2. /\ b \in Int /\ live[b] \in Nat /\ heap.chunks \subseteq Addr
      /\ heap.mem \in [Addr -> Int] /\ heap.brk \in 0 .. MAX_HEAP
      /\ MAX_HEAP \in Nat
  BY MemLibAssumption DEF NaiveInv, HeapConsistent, Heap
<1>3. b - 16 \in heap.chunks /\ b - 16 \in Addr /\ b < heap.brk
      /\ (b - 16) + ChunkSize(heap, b - 16) <= heap.brk
      /\ live[b] + 16 <= ChunkSize(heap, b - 16)
  BY <1>2, BlockInHeap
     DEF NaiveInv, HeapConsistent, LiveMatchesStatus, payload_to_header, SIZEOF_HEADER
<1>4. ChunkSize(heap, b - 16) \in Int
  BY <1>2, <1>3 DEF ChunkSize, get_chunk_size
<1>5. b >= 16 /\ b + live[b] <= heap.brk
  <2> DEFINE z == ChunkSize(heap, b - 16)
  <2>1. z \in Int /\ (b - 16) + z <= heap.brk /\ live[b] + 16 <= z
    BY <1>3, <1>4
  <2> HIDE DEF z
  <2>2. b >= 16
    BY <1>2, <1>3 DEF Addr
  <2> QED
    BY <1>2, <2>1, <2>2
<1>6. ASSUME NEW a \in Payload(b)
      PROVE  a \in Addr /\ a < heap.brk /\ a \notin heap.chunks
  <2>1. a \in Addr /\ a < heap.brk
    BY <1>2, <1>5 DEF Payload, Addr
  <2>2. ASSUME a \in heap.chunks PROVE FALSE
    <3>1. a \in a .. a + SIZEOF_HEADER - 1
      BY <2>1 DEF Addr, SIZEOF_HEADER
    <3> QED
      BY <1>1, <2>2, <3>1 DEF BlocksSound
  <2> QED
    BY <2>1, <2>2
<1> QED
  BY <1>2, <1>3, <1>5, <1>6

\* A new block lies above the old break and leaves every byte below it alone.
LEMMA GrewKeeps ==
    ASSUME NaiveInv, NEW s, Grew(s)
    PROVE  Kept(DOMAIN live) /\ heap.brk + 16 \notin DOMAIN live
<1>1. \A a \in Addr : a # heap.brk => heap'.mem[a] = heap.mem[a]
  <2>1. heap'.mem = [heap.mem EXCEPT ![heap.brk] = RoundUp(s) + 16 + 1]
    BY DEF Grew, Grown
  <2> QED
    BY <2>1 DEF NaiveInv, HeapConsistent, Heap
<1>2. ASSUME NEW b \in DOMAIN live, NEW a \in Payload(b)
      PROVE  heap'.mem[a] = heap.mem[a]
  <2>1. a \in Addr /\ a < heap.brk /\ heap.brk \in Int /\ a \in Int
    BY BlockPlaces DEF Addr
  <2> QED
    BY <1>1, <2>1
<1>3. heap.brk + 16 \notin DOMAIN live
  <2> SUFFICES ASSUME heap.brk + 16 \in DOMAIN live PROVE FALSE
    OBVIOUS
  <2> DEFINE b == heap.brk + 16
  <2>1. live[b] \in Nat /\ b + live[b] <= heap.brk /\ heap.brk \in Int
    BY BlockPlaces
  <2> QED
    BY <2>1
<1> QED
  BY <1>2, <1>3 DEF Kept

\* Clearing a header touches no block.
LEMMA FreedKeeps ==
    ASSUME NaiveInv, NEW p \in DOMAIN live, Freed(p)
    PROVE  Kept(DOMAIN live \ {p})
<1>1. p - 16 \in heap.chunks /\ payload_to_header(p) = p - 16
  BY BlockPlaces DEF payload_to_header, SIZEOF_HEADER
<1>2. \A a \in Addr : a # p - 16 => heap'.mem[a] = heap.mem[a]
  BY <1>1 DEF Freed, Cleared, NaiveInv, HeapConsistent, Heap
<1>3. ASSUME NEW b \in DOMAIN live, NEW a \in Payload(b)
      PROVE  heap'.mem[a] = heap.mem[a]
  BY <1>1, <1>2, BlockPlaces
<1> QED
  BY <1>3 DEF Kept

\* mm_realloc that moves a block copies what both blocks have room for, and
\* nothing else of the client's.
LEMMA MovedKeeps ==
    ASSUME NaiveInv, NEW p \in DOMAIN live, NEW s \in Nat, Moved(p, s)
    PROVE  /\ Kept(DOMAIN live)
           /\ heap.brk + 16 \notin DOMAIN live
           /\ \A j \in 0 .. live[p] - 1 :
                j < s => heap'.mem[heap.brk + 16 + j] = heap.mem[p + j]
<1> DEFINE g == Grown(heap, RoundUp(s) + 16)
           h == payload_to_header(p)
           c == CopySize(s, ChunkSize(g, h) - SIZEOF_HEADER)
           q == heap.brk + 16
           copied == memcpy(g.mem, q, p, c)
<1>1. /\ p \in Int /\ live[p] \in Nat /\ p >= 16 /\ p + live[p] <= heap.brk
      /\ heap.brk \in 0 .. MAX_HEAP /\ heap.mem \in [Addr -> Int]
      /\ p - 16 \in heap.chunks /\ h = p - 16 /\ MAX_HEAP \in Nat
      /\ h \in Addr /\ h < heap.brk
  BY BlockPlaces, BlockInHeap, MemLibAssumption
     DEF payload_to_header, SIZEOF_HEADER, NaiveInv
<1>2. /\ g.mem = [heap.mem EXCEPT ![heap.brk] = RoundUp(s) + 16 + 1]
      /\ DOMAIN g.mem = Addr
      /\ \A a \in Addr : a < heap.brk => g.mem[a] = heap.mem[a]
  BY <1>1 DEF Grown
<1>3. ChunkSize(g, h) = ChunkSize(heap, h) /\ ChunkSize(heap, h) \in Int
      /\ live[p] <= ChunkSize(heap, h) - 16
  <2>1. g.mem[h] = heap.mem[h]
    BY <1>1, <1>2
  <2>2. ChunkSize(g, h) = ChunkSize(heap, h)
    BY <2>1 DEF ChunkSize
  <2>3. ChunkSize(heap, h) \in Int
    BY <1>1 DEF ChunkSize, get_chunk_size
  <2>4. live[p] + 16 <= ChunkSize(heap, h)
    BY DEF NaiveInv, HeapConsistent, LiveMatchesStatus, SIZEOF_HEADER
  <2> QED
    BY <1>1, <2>2, <2>3, <2>4
<1>4. c \in Int /\ (c = s \/ c >= live[p])
  <2> DEFINE z == ChunkSize(g, h)
  <2>1. z \in Int /\ live[p] <= z - 16
    BY <1>3
  <2>2. c = IF s < z - 16 THEN s ELSE z - 16
    BY DEF CopySize, SIZEOF_HEADER
  <2> HIDE DEF z, c
  <2> QED
    BY <1>1, <2>1, <2>2
<1>5. DOMAIN copied = Addr
      /\ \A a \in Addr : copied[a] = IF a \in q .. q + c - 1
                                     THEN g.mem[p + (a - q)] ELSE g.mem[a]
  BY <1>2 DEF memcpy
<1>6. heap'.mem = [copied EXCEPT ![h] = get_chunk_size(copied[h])]
  BY DEF Moved, Cleared, Grown
<1> HIDE DEF c, copied, h
<1>7. \A a \in Addr : a # h => heap'.mem[a] = copied[a]
  BY <1>5, <1>6
<1>8. ASSUME NEW b \in DOMAIN live, NEW a \in Payload(b)
      PROVE  heap'.mem[a] = heap.mem[a]
  <2>1. a \in Addr /\ a \in Int /\ a < heap.brk /\ a # h
    BY <1>1, BlockPlaces DEF Addr
  <2>2. a \notin q .. q + c - 1
    BY <1>1, <2>1
  <2> QED
    BY <1>2, <1>5, <1>7, <2>1, <2>2
<1>9. q \notin DOMAIN live
  <2> SUFFICES ASSUME q \in DOMAIN live PROVE FALSE
    OBVIOUS
  <2>1. live[q] \in Nat /\ q + live[q] <= heap.brk
    BY BlockPlaces
  <2> QED
    BY <1>1, <2>1
<1>10. ASSUME NEW j \in 0 .. live[p] - 1, j < s
       PROVE  heap'.mem[heap.brk + 16 + j] = heap.mem[p + j]
  <2>1. j \in Int /\ q + j \in q .. q + c - 1 /\ p + ((q + j) - q) = p + j
    BY <1>1, <1>4, <1>10
  <2>2. q + j \in Addr
    <3>1. s <= RoundUp(s) /\ RoundUp(s) \in Nat
      BY RoundUpBounds
    <3>2. heap.brk + (RoundUp(s) + 16) <= MAX_HEAP
      BY DEF Moved
    <3>3. q + j \in Int /\ q + j >= 0 /\ q + j < MAX_HEAP
      BY <1>1, <1>10, <2>1, <3>1, <3>2
    <3> QED
      BY <1>1, <3>3 DEF Addr
  <2>3. q + j # h
    BY <1>1, <2>1
  <2>4. heap'.mem[q + j] = g.mem[p + j]
    BY <1>5, <1>7, <2>1, <2>2, <2>3
  <2>5. p + j \in Addr /\ p + j < heap.brk
    <3>1. p + j \in Int /\ p + j >= 0 /\ p + j < heap.brk /\ p + j < MAX_HEAP
      BY <1>1, <2>1
    <3> QED
      BY <1>1, <3>1 DEF Addr
  <2> QED
    BY <1>2, <2>4, <2>5
<1> QED
  BY <1>8, <1>9, <1>10 DEF Kept

\* The blocks as the contract speaks of them.
Fits ==
    \A p \in DOMAIN live :
        /\ p \in Int /\ live[p] \in Nat
        /\ p \in Addr /\ p % ALIGNMENT = 0 /\ Payload(p) \subseteq Addr
        /\ \A q \in DOMAIN live \ {p} : Payload(p) \cap Payload(q) = {}

\* The inductive invariant gives it in every state,
LEMMA BlocksFit == NaiveInv => Fits
<1> SUFFICES ASSUME NaiveInv, NEW p \in DOMAIN live
             PROVE  /\ p \in Int /\ live[p] \in Nat
                    /\ p \in Addr /\ p % ALIGNMENT = 0 /\ Payload(p) \subseteq Addr
                    /\ \A q \in DOMAIN live \ {p} : Payload(p) \cap Payload(q) = {}
  BY DEF Fits
<1>1. BlocksSound
  BY ConsistentBlocks
<1>2. /\ p \in Int /\ live[p] \in Nat /\ p >= 16 /\ heap.brk \in 0 .. MAX_HEAP
      /\ Payload(p) \subseteq Addr
  BY BlockPlaces
<1>3. p < heap.brk
  BY BlockInHeap DEF NaiveInv
<1>4. p \in Addr
  BY <1>2, <1>3, MemLibAssumption DEF Addr
<1> QED
  BY <1>1, <1>2, <1>4 DEF BlocksSound, is_aligned

\* and so in the next one.
LEMMA NextBlocksFit == NaiveInv' => Fits'
BY BlocksFit, PTL

\* The bytes of a block, before and after a step.
LEMMA ContentsShape ==
    /\ DOMAIN BlockContents = DOMAIN live
    /\ \A p \in DOMAIN live :
         /\ DOMAIN BlockContents[p] = 0 .. live[p] - 1
         /\ \A j \in 0 .. live[p] - 1 : BlockContents[p][j] = heap.mem[p + j]
    /\ DOMAIN BlockContents' = DOMAIN live'
    /\ \A p \in DOMAIN live' :
         /\ DOMAIN BlockContents'[p] = 0 .. live'[p] - 1
         /\ \A j \in 0 .. live'[p] - 1 : BlockContents'[p][j] = heap'.mem[p + j]
BY DEF BlockContents

\* The addresses a function of bytes occupies.
LEMMA ExtentIs ==
    ASSUME NEW p \in Int, NEW n \in Nat, NEW bytes, DOMAIN bytes = 0 .. n - 1
    PROVE  Abstract!Extent(p, bytes) = p .. p + n - 1
<1>1. \A a \in p .. p + n - 1 : a - p \in 0 .. n - 1 /\ a = p + (a - p)
  OBVIOUS
<1>2. Abstract!Extent(p, bytes) = {p + j : j \in 0 .. n - 1}
  BY DEF Abstract!Extent
<1>3. \A j \in 0 .. n - 1 : p + j \in p .. p + n - 1
  OBVIOUS
<1> QED
  BY <1>1, <1>2, <1>3

\* The bytes of a block that is kept are the same function.
LEMMA SameContents ==
    ASSUME Fits, NEW B, B \subseteq DOMAIN live, B \subseteq DOMAIN live', Kept(B),
           \A b \in B : live'[b] = live[b]
    PROVE  \A b \in B : BlockContents'[b] = BlockContents[b]
<1> SUFFICES ASSUME NEW b \in B
             PROVE  BlockContents'[b] = BlockContents[b]
  OBVIOUS
<1>1. b \in Int /\ live[b] \in Nat /\ live'[b] = live[b]
      /\ b \in DOMAIN live /\ b \in DOMAIN live'
  BY DEF Fits
<1>2. /\ BlockContents[b] = [j \in 0 .. live[b] - 1 |-> heap.mem[b + j]]
      /\ BlockContents'[b] = [j \in 0 .. live'[b] - 1 |-> heap'.mem[b + j]]
  BY <1>1 DEF BlockContents
<1>3. ASSUME NEW j \in 0 .. live[b] - 1
      PROVE  heap'.mem[b + j] = heap.mem[b + j]
  <2>1. b + j \in Payload(b)
    BY <1>1 DEF Payload
  <2> QED
    BY <2>1 DEF Kept
<1> QED
  BY <1>1, <1>2, <1>3

\* A block that joins the blocks of B, a part of the old ones that keeps its
\* bytes, is placed as the contract asks.
LEMMA JoinsPlaced ==
    ASSUME Fits, Fits', NEW B, B \subseteq DOMAIN live, Kept(B),
           NEW q, q \notin B, DOMAIN live' = B \cup {q},
           \A b \in B : live'[b] = live[b],
           NEW used, DOMAIN used = B, \A b \in B : used[b] = BlockContents[b]
    PROVE  q \in Addr /\ Abstract!Placed(q, used)
<1>1. \A b \in B : BlockContents'[b] = used[b]
  BY SameContents
<1>2. q \in DOMAIN live' /\ B \subseteq DOMAIN live'
  OBVIOUS
<1>3. /\ q \in Int /\ live'[q] \in Nat /\ q \in Addr /\ q % ALIGNMENT = 0
      /\ q .. q + live'[q] - 1 \subseteq Addr
      /\ \A b \in B : (q .. q + live'[q] - 1) \cap (b .. b + live'[b] - 1) = {}
  BY <1>2 DEF Fits, Payload
<1>4. Abstract!Extent(q, BlockContents'[q]) = q .. q + live'[q] - 1
  BY <1>2, <1>3, ContentsShape, ExtentIs
<1>5. ASSUME NEW b \in B
      PROVE  Abstract!Extent(b, used[b]) = b .. b + live'[b] - 1
  <2>1. b \in Int /\ live[b] \in Nat /\ live'[b] = live[b]
    BY DEF Fits
  <2>2. DOMAIN used[b] = 0 .. live[b] - 1
    BY ContentsShape
  <2>3. Abstract!Extent(b, used[b]) = b .. b + live[b] - 1
    BY <2>1, <2>2, ExtentIs
  <2> QED
    BY <2>1, <2>3
<1>6. Abstract!MayPlace(q, BlockContents'[q], used)
  BY <1>3, <1>4, <1>5 DEF Abstract!MayPlace
<1> QED
  BY <1>1, <1>3, <1>6, ContentsShape DEF Abstract!Placed

\* A call that grows the heap by a block is the contract's malloc.
LEMMA GrewIsMalloc ==
    ASSUME NaiveInv, NaiveInv', NEW s, Grew(s)
    PROVE  Abstract!malloc
<1> DEFINE q == heap.brk + 16
<1>1. Kept(DOMAIN live) /\ q \notin DOMAIN live
  BY GrewKeeps
<1>2. DOMAIN live' = DOMAIN live \cup {q} /\ \A b \in DOMAIN live : live'[b] = live[b]
  BY <1>1 DEF Grew, With
<1>3. Fits /\ Fits'
  BY BlocksFit, NextBlocksFit
<1>4. DOMAIN BlockContents = DOMAIN live
  BY ContentsShape
<1> HIDE DEF q
<1>5. q \in Addr /\ Abstract!Placed(q, BlockContents)
  BY <1>1, <1>2, <1>3, <1>4, JoinsPlaced
<1> QED
  BY <1>5 DEF Abstract!malloc

\* A call that clears a header is the contract's free.
LEMMA FreedIsFree ==
    ASSUME NaiveInv, NEW p \in DOMAIN live, Freed(p)
    PROVE  Abstract!free(p)
<1> DEFINE B == DOMAIN live \ {p}
<1>1. DOMAIN live' = B /\ \A b \in B : live'[b] = live[b]
  BY DEF Freed, Without
<1>2. Kept(B)
  BY FreedKeeps
<1>3. \A b \in B : BlockContents'[b] = BlockContents[b]
  BY <1>1, <1>2, BlocksFit, SameContents
<1>4. DOMAIN BlockContents' = B /\ DOMAIN BlockContents = DOMAIN live
  BY <1>1, ContentsShape
<1>5. BlockContents' = [b \in DOMAIN live' |-> BlockContents'[b]]
  BY DEF BlockContents
<1> QED
  BY <1>1, <1>3, <1>4, <1>5 DEF Abstract!free, Abstract!Drop

\* A call that moves a block is the contract's realloc.
LEMMA MovedIsRealloc ==
    ASSUME NaiveInv, NaiveInv', NEW p \in DOMAIN live, NEW s \in Nat, Moved(p, s)
    PROVE  Abstract!realloc(p)
<1> DEFINE q == heap.brk + 16
           B == DOMAIN live \ {p}
<1>1. /\ Kept(DOMAIN live) /\ q \notin DOMAIN live
      /\ \A j \in 0 .. live[p] - 1 : j < s => heap'.mem[q + j] = heap.mem[p + j]
  BY MovedKeeps
<1>2. /\ DOMAIN live' = B \cup {q} /\ live'[q] = s
      /\ \A b \in B : live'[b] = live[b]
  BY <1>1 DEF Moved, With, Without
<1>3. Kept(B)
  BY <1>1 DEF Kept
<1>4. Fits /\ Fits'
  BY BlocksFit, NextBlocksFit
<1>5. /\ DOMAIN Abstract!Drop(p) = B
      /\ \A b \in B : Abstract!Drop(p)[b] = BlockContents[b]
  BY ContentsShape DEF Abstract!Drop
<1> HIDE DEF q, B
<1>6. q \notin B /\ B \subseteq DOMAIN live
  BY <1>1 DEF B
<1>7. q \in Addr /\ Abstract!Placed(q, Abstract!Drop(p))
  BY <1>2, <1>3, <1>4, <1>5, <1>6, JoinsPlaced
<1>8. ASSUME NEW j \in DOMAIN BlockContents[p] \cap DOMAIN BlockContents'[q]
      PROVE  BlockContents'[q][j] = BlockContents[p][j]
  <2>1. j \in 0 .. live[p] - 1 /\ j \in 0 .. live'[q] - 1 /\ q \in DOMAIN live'
    BY <1>2, ContentsShape
  <2>2. j < s
    BY <1>2, <2>1
  <2> QED
    BY <1>1, <2>1, <2>2, ContentsShape
<1> QED
  BY <1>7, <1>8 DEF Abstract!realloc

\* A store changes the bytes of its block only.
LEMMA StoreIsStore ==
    ASSUME NaiveInv, NEW p \in DOMAIN live, NEW b \in Bytes, Store(p, b)
    PROVE  Abstract!store(p)
<1> DEFINE B == DOMAIN live \ {p}
<1>1. live' = live /\ heap'.mem = memset(heap.mem, p, b, live[p])
      /\ heap.mem \in [Addr -> Int]
  BY DEF Store, NaiveInv, HeapConsistent, Heap
<1>2. Fits
  BY BlocksFit
<1>3. \A a \in Addr : a \notin Payload(p) => heap'.mem[a] = heap.mem[a]
  BY <1>1 DEF memset, Payload
<1>4. Kept(B)
  <2>1. ASSUME NEW x \in B, NEW a \in Payload(x)
        PROVE  heap'.mem[a] = heap.mem[a]
    BY <1>2, <1>3 DEF Fits
  <2> QED
    BY <2>1 DEF Kept
<1>5. \A x \in B : BlockContents'[x] = BlockContents[x]
  BY <1>1, <1>2, <1>4, SameContents
<1>6. /\ DOMAIN BlockContents' = DOMAIN BlockContents
      /\ DOMAIN BlockContents = DOMAIN live
      /\ DOMAIN BlockContents'[p] = DOMAIN BlockContents[p]
  BY <1>1, ContentsShape
<1> QED
  BY <1>5, <1>6 DEF Abstract!store

\* mm-naive.c implements the allocator's contract: for every arena, int width
\* and client program, each call moves the client's blocks and their bytes as
\* Malloc allows; realloc carries the old bytes over, and no call touches the
\* bytes of a block it is not about.
THEOREM NaiveRefinesMalloc ==
    ASSUME GoodSizes
    PROVE  NaiveSpec => RefinesMalloc
<1>1. Init => Abstract!Init
  <2> SUFFICES ASSUME Init PROVE BlockContents = [p \in {} |-> <<>>]
    BY DEF Abstract!Init
  <2>1. live = [p \in {} |-> 0]
    BY DEF Init
  <2>2. DOMAIN live = {}
    BY <2>1
  <2> QED
    BY <2>2 DEF BlockContents
<1>2. NaiveInv /\ NaiveInv' /\ [NaiveNext]_vars => [Abstract!Next]_BlockContents
  <2> SUFFICES ASSUME NaiveInv, NaiveInv', [NaiveNext]_vars
               PROVE  Abstract!Next \/ BlockContents' = BlockContents
    OBVIOUS
  <2>0. DOMAIN BlockContents = DOMAIN live
    BY ContentsShape
  <2>n. CASE Nothing
    BY <2>n DEF Nothing, BlockContents
  <2>1. ASSUME NEW s \in Sizes, Malloc(s)
        PROVE  Abstract!Next \/ BlockContents' = BlockContents
    BY <2>n, <2>1, MallocStep, GrewIsMalloc DEF Abstract!Next
  <2>2. ASSUME NEW p \in DOMAIN live, Free(p)
        PROVE  Abstract!Next
    BY <2>0, <2>2, FreeStep, FreedIsFree DEF Abstract!Next
  <2>3. ASSUME NEW p \in DOMAIN live \cup {NULL}, NEW s \in Sizes \cup {0},
               Realloc(p, s)
        PROVE  Abstract!Next \/ BlockContents' = BlockContents
    <3>1. s \in Nat
      BY MmNaiveAssumption
    <3>2. \/ Nothing
          \/ Grew(s)
          \/ p \in DOMAIN live /\ (Freed(p) \/ Moved(p, s))
      BY <2>3, ReallocStep
    <3>3. CASE Grew(s)
      BY <3>3, GrewIsMalloc DEF Abstract!Next
    <3>4. CASE p \in DOMAIN live /\ Freed(p)
      BY <2>0, <3>4, FreedIsFree DEF Abstract!Next
    <3>5. CASE p \in DOMAIN live /\ Moved(p, s)
      BY <2>0, <3>1, <3>5, MovedIsRealloc DEF Abstract!Next
    <3> QED
      BY <2>n, <3>2, <3>3, <3>4, <3>5
  <2>4. ASSUME NEW p \in DOMAIN live, NEW b \in Bytes, Store(p, b)
        PROVE  Abstract!Next
    BY <2>0, <2>4, StoreIsStore DEF Abstract!Next
  <2>5. CASE Reset
    <3>1. live' = [p \in {} |-> 0]
      BY <2>5 DEF Reset
    <3>2. DOMAIN live' = {}
      BY <3>1
    <3>3. BlockContents' = [p \in {} |-> <<>>]
      BY <3>2 DEF BlockContents
    <3> QED
      BY <3>3 DEF Abstract!Next, Abstract!reset
  <2>6. CASE UNCHANGED vars
    BY <2>n, <2>6 DEF vars, Nothing
  <2> QED
    BY <2>1, <2>2, <2>3, <2>4, <2>5, <2>6 DEF NaiveNext
<1> QED
  BY <1>1, <1>2, NaiveInvariant, PTL DEF NaiveSpec, RefinesMalloc, Abstract!Spec

-----------------------------------------------------------------------------
(* The walk of mm_checkheap.                                               *)

\* The walk starts at a chunk, or the heap is empty.
FirstChunk(m) == mem_heap_lo \in m.chunks \cup {m.brk}

\* The chunks below an address, and the blocks in them.
ChunksBelow(m, h) == {g \in m.chunks : g < h}
BlocksBelow(l, h) == {p \in DOMAIN l : payload_to_header(p) < h}

\* The totals of mm_checkheap when it has come to a chunk or to the break.
Totals == [h : Int, allocated : Int, allocated_sz : Int, free : Int, free_sz : Int]

Walked(m, l) ==
    {t \in Totals :
        /\ t.h \in m.chunks \cup {m.brk}
        /\ t.allocated_sz + t.free_sz = t.h
        /\ t.allocated + t.free = Cardinality(ChunksBelow(m, t.h))
        /\ t.allocated = Cardinality(BlocksBelow(l, t.h))}

\* A chunk of the heap, what follows it, and the block in it.
LEMMA ChunkIs ==
    ASSUME NEW m, NEW l, HeapConsistent(m, l), NEW h \in m.chunks
    PROVE  /\ h \in Nat /\ m.brk \in Nat /\ h % 16 = 0 /\ m.brk % 16 = 0
           /\ h < m.brk /\ ChunkSize(m, h) \in Nat /\ ChunkSize(m, h) >= 32
           /\ h + ChunkSize(m, h) \in m.chunks \cup {m.brk}
           /\ h + ChunkSize(m, h) <= m.brk
           /\ \A g \in m.chunks : g < h + ChunkSize(m, h) <=> g < h \/ g = h
           /\ get_chunk_status(m.mem[h]) <=> h + 16 \in DOMAIN l
<1>1. /\ m.chunks \subseteq Nat /\ m.brk \in Nat /\ m.mem[h] \in Int /\ DOMAIN l \subseteq Int
      /\ h \in Nat
  BY MemLibAssumption DEF HeapConsistent, Heap, Addr
<1>2. /\ h < m.brk /\ h % 16 = 0 /\ m.brk % 16 = 0
      /\ ChunkSize(m, h) >= 32 /\ h + ChunkSize(m, h) \in m.chunks \cup {m.brk}
      /\ \A g \in m.chunks \cup {m.brk} : h < g => h + ChunkSize(m, h) <= g
  BY DEF HeapConsistent, ChunksTile, is_aligned, ALIGNMENT, SIZEOF_HEADER
<1>3. ChunkSize(m, h) \in Int
  BY <1>1 DEF ChunkSize, get_chunk_size
<1>4. \A g \in m.chunks : g < h + ChunkSize(m, h) <=> g < h \/ g = h
  BY <1>1, <1>2, <1>3
<1>5. get_chunk_status(m.mem[h]) <=> h + 16 \in DOMAIN l
  <2>1. get_chunk_status(m.mem[h]) => h + 16 \in DOMAIN l
    BY DEF HeapConsistent, LiveMatchesStatus, header_to_payload, SIZEOF_HEADER
  <2>2. ASSUME h + 16 \in DOMAIN l PROVE get_chunk_status(m.mem[h])
    <3>1. payload_to_header(h + 16) = h
      BY <1>1 DEF payload_to_header, SIZEOF_HEADER
    <3> QED
      BY <2>2, <3>1 DEF HeapConsistent, LiveMatchesStatus
  <2> QED
    BY <2>1, <2>2
<1> QED
  BY <1>1, <1>2, <1>3, <1>4, <1>5

\* The chunks and the blocks of a heap are finitely many.
LEMMA ChunksFinite ==
    ASSUME NEW m, NEW l, HeapConsistent(m, l), NEW h
    PROVE  /\ IsFiniteSet(ChunksBelow(m, h)) /\ IsFiniteSet(BlocksBelow(l, h))
           /\ Cardinality(ChunksBelow(m, h)) \in Nat
           /\ Cardinality(BlocksBelow(l, h)) \in Nat
<1>1. m.chunks \subseteq 0 .. MAX_HEAP - 1 /\ DOMAIN l \subseteq 0 .. MAX_HEAP + 15
  <2>1. m.chunks \subseteq 0 .. MAX_HEAP - 1 /\ MAX_HEAP \in Nat
    BY MemLibAssumption DEF HeapConsistent, Heap, Addr
  <2>2. \A p \in DOMAIN l : p \in Int /\ p - 16 \in m.chunks
    BY DEF HeapConsistent, LiveMatchesStatus, payload_to_header, SIZEOF_HEADER
  <2> QED
    BY <2>1, <2>2
<1>2. IsFiniteSet(0 .. MAX_HEAP - 1) /\ IsFiniteSet(0 .. MAX_HEAP + 15)
  BY MemLibAssumption, FS_Interval
<1>3. ChunksBelow(m, h) \subseteq 0 .. MAX_HEAP - 1
      /\ BlocksBelow(l, h) \subseteq 0 .. MAX_HEAP + 15
  BY <1>1 DEF ChunksBelow, BlocksBelow
<1> QED
  BY <1>2, <1>3, FS_Subset, FS_CardinalityType

\* A round adds the chunk it has come to to the totals and comes to the next; at
\* the end of the heap nothing changes.
LEMMA VisitWalks ==
    ASSUME NEW m, NEW l, HeapConsistent(m, l), NEW t \in Walked(m, l)
    PROVE  /\ Visit(m, t) \in Walked(m, l)
           /\ t.h # m.brk => Visit(m, t).h >= t.h + 16
           /\ t.h = m.brk => Visit(m, t) = t
<1> DEFINE h == t.h
           sz == ChunkSize(m, h)
           u == Visit(m, t)
<1>1. /\ t \in Totals /\ h \in m.chunks \cup {m.brk}
      /\ t.allocated_sz + t.free_sz = h
      /\ t.allocated + t.free = Cardinality(ChunksBelow(m, h))
      /\ t.allocated = Cardinality(BlocksBelow(l, h))
  BY DEF Walked
<1>2. m.brk \in Nat /\ DOMAIN l \subseteq Int
  BY MemLibAssumption DEF HeapConsistent, Heap
<1>3. CASE h = m.brk
  <2>1. u = t
    BY <1>2, <1>3 DEF Visit, mem_heap_hi
  <2> QED
    BY <1>3, <2>1
<1>4. CASE h # m.brk
  <2>1. h \in m.chunks
    BY <1>1, <1>4
  <2>2. /\ h \in Nat /\ h % 16 = 0 /\ m.brk % 16 = 0 /\ h < m.brk
        /\ sz \in Nat /\ sz >= 32 /\ h + sz \in m.chunks \cup {m.brk}
        /\ \A g \in m.chunks : g < h + sz <=> g < h \/ g = h
        /\ get_chunk_status(m.mem[h]) <=> h + 16 \in DOMAIN l
    BY <2>1, ChunkIs
  <2>3. ~(h >= mem_heap_hi(m.brk))
    BY <1>2, <2>2 DEF mem_heap_hi
  <2>4. get_next_chunk(m, h) = h + sz /\ get_chunk_size(m.mem[h]) = sz
    BY DEF get_next_chunk, ChunkSize
  <2>5. /\ ChunksBelow(m, h + sz) = ChunksBelow(m, h) \cup {h}
        /\ h \notin ChunksBelow(m, h)
    BY <2>1, <2>2 DEF ChunksBelow
  <2>6. Cardinality(ChunksBelow(m, h + sz)) = Cardinality(ChunksBelow(m, h)) + 1
    BY <2>5, ChunksFinite, FS_AddElement
  <2>7. \A p \in DOMAIN l : p \in Int /\ p - 16 \in m.chunks /\ payload_to_header(p) = p - 16
    BY <1>2 DEF HeapConsistent, LiveMatchesStatus, payload_to_header, SIZEOF_HEADER
  <2>8. \A p \in DOMAIN l : p - 16 < h + sz <=> p - 16 < h \/ p = h + 16
    BY <2>2, <2>7
  <2>9. CASE get_chunk_status(m.mem[h])
    <3>1. u = [t EXCEPT !.h = h + sz, !.allocated = @ + 1, !.allocated_sz = @ + sz]
      BY <2>3, <2>4, <2>9 DEF Visit
    <3>2. /\ u \in Totals /\ u.h = h + sz /\ u.allocated = t.allocated + 1
          /\ u.allocated_sz = t.allocated_sz + sz
          /\ u.free = t.free /\ u.free_sz = t.free_sz
      <4>1. h + sz \in Int /\ sz \in Int
        BY <2>2
      <4> HIDE DEF h, sz, u
      <4>2. t \in Totals /\ t.allocated \in Int /\ t.allocated_sz \in Int
            /\ t.free \in Int /\ t.free_sz \in Int
        BY <1>1 DEF Totals
      <4>3. u = [h |-> h + sz, allocated |-> t.allocated + 1,
                 allocated_sz |-> t.allocated_sz + sz, free |-> t.free,
                 free_sz |-> t.free_sz]
        BY <3>1, <4>1, <4>2 DEF Totals
      <4> QED
        BY <4>1, <4>2, <4>3 DEF Totals
    <3>3. /\ BlocksBelow(l, h + sz) = BlocksBelow(l, h) \cup {h + 16}
          /\ h + 16 \notin BlocksBelow(l, h)
      <4>1. h + 16 \in DOMAIN l /\ payload_to_header(h + 16) = h
        BY <2>2, <2>9 DEF payload_to_header, SIZEOF_HEADER
      <4> QED
        BY <2>2, <2>7, <2>8, <4>1 DEF BlocksBelow
    <3>4. Cardinality(BlocksBelow(l, h + sz)) = Cardinality(BlocksBelow(l, h)) + 1
      BY <3>3, ChunksFinite, FS_AddElement
    <3> HIDE DEF u, h, sz
    <3>5. /\ u.allocated_sz + u.free_sz = u.h /\ u.h >= h + 16
          /\ u.allocated + u.free = Cardinality(ChunksBelow(m, u.h))
          /\ u.allocated = Cardinality(BlocksBelow(l, u.h))
      BY <1>1, <2>2, <2>6, <3>2, <3>4 DEF Totals
    <3> QED
      BY <1>4, <2>2, <3>2, <3>5 DEF Walked, u, h
  <2>10. CASE ~get_chunk_status(m.mem[h])
    <3>1. u = [t EXCEPT !.h = h + sz, !.free = @ + 1, !.free_sz = @ + sz]
      BY <2>3, <2>4, <2>10 DEF Visit
    <3>2. /\ u \in Totals /\ u.h = h + sz /\ u.free = t.free + 1
          /\ u.free_sz = t.free_sz + sz
          /\ u.allocated = t.allocated /\ u.allocated_sz = t.allocated_sz
      <4>1. h + sz \in Int /\ sz \in Int
        BY <2>2
      <4> HIDE DEF h, sz, u
      <4>2. t \in Totals /\ t.allocated \in Int /\ t.allocated_sz \in Int
            /\ t.free \in Int /\ t.free_sz \in Int
        BY <1>1 DEF Totals
      <4>3. u = [h |-> h + sz, allocated |-> t.allocated,
                 allocated_sz |-> t.allocated_sz, free |-> t.free + 1,
                 free_sz |-> t.free_sz + sz]
        BY <3>1, <4>1, <4>2 DEF Totals
      <4> QED
        BY <4>1, <4>2, <4>3 DEF Totals
    <3>3. BlocksBelow(l, h + sz) = BlocksBelow(l, h)
      BY <2>2, <2>7, <2>8, <2>10 DEF BlocksBelow
    <3> HIDE DEF u, h, sz
    <3>4. /\ u.allocated_sz + u.free_sz = u.h /\ u.h >= h + 16
          /\ u.allocated + u.free = Cardinality(ChunksBelow(m, u.h))
          /\ u.allocated = Cardinality(BlocksBelow(l, u.h))
      BY <1>1, <2>2, <2>6, <3>2, <3>3 DEF Totals
    <3> QED
      BY <1>4, <2>2, <3>2, <3>4 DEF Walked, u, h
  <2> QED
    BY <2>9, <2>10
<1> QED
  BY <1>3, <1>4

\* The loop's totals, round by round.
Rounds == MAX_HEAP \div SIZEOF_HEADER

Start == [h |-> mem_heap_lo, allocated |-> 0, allocated_sz |-> 0, free |-> 0, free_sz |-> 0]

IsWalk(m, f) ==
    f = [n \in 0 .. Rounds |-> IF n = 0 THEN Start ELSE Visit(m, f[n - 1])]

\* mm_checkheap in terms of them.
LEMMA CheckheapIs ==
    ASSUME NEW m
    PROVE  mm_checkheap(m) = (CHOOSE f : IsWalk(m, f))[Rounds]
BY DEF mm_checkheap, IsWalk, Rounds, Start

\* The loop is well defined, and passes a header or more in each round until it
\* comes to the break.
LEMMA WalkEnds ==
    ASSUME NEW m, NEW l, HeapConsistent(m, l), FirstChunk(m)
    PROVE  mm_checkheap(m) \in Walked(m, l) /\ mm_checkheap(m).h = m.brk
<1> DEFINE V == Walked(m, l)
           step == [x \in (1 .. Rounds) \X V |-> Visit(m, x[2])]
<1>1. Rounds \in Nat /\ m.brk \in Nat /\ m.brk <= MAX_HEAP /\ MAX_HEAP < 16 * Rounds + 16
  BY MemLibAssumption DEF Rounds, SIZEOF_HEADER, HeapConsistent, Heap
<1>2. Start \in V
  <2>1. m.chunks \subseteq Nat /\ DOMAIN l \subseteq Int
        /\ \A p \in DOMAIN l : payload_to_header(p) \in m.chunks
    BY DEF HeapConsistent, Heap, Addr, LiveMatchesStatus
  <2>2. ChunksBelow(m, 0) = {} /\ BlocksBelow(l, 0) = {}
    BY <2>1 DEF ChunksBelow, BlocksBelow
  <2>3. Cardinality(ChunksBelow(m, 0)) = 0 /\ Cardinality(BlocksBelow(l, 0)) = 0
    BY <2>2, FS_EmptySet
  <2>4. Start \in Totals /\ Start.h = 0 /\ Start.allocated = 0 /\ Start.free = 0
        /\ Start.allocated_sz = 0 /\ Start.free_sz = 0 /\ Start.h \in m.chunks \cup {m.brk}
    BY DEF Start, Totals, mem_heap_lo, FirstChunk
  <2> HIDE DEF V
  <2> QED
    BY <2>3, <2>4 DEF Walked, V
<1>3. \A n \in 1 .. Rounds : \A v \in V : step[<<n, v>>] = Visit(m, v)
  OBVIOUS
<1>4. \A v \in V : Visit(m, v) \in V
  BY VisitWalks
<1>5. step \in [(1 .. Rounds) \X V -> V]
  BY <1>4
<1> HIDE DEF step, V
<1>6. PICK g \in [0 .. Rounds -> V] : Recursion(g, Rounds, Start, step)
  BY <1>1, <1>2, <1>5, RecursionExists
<1>7. IsWalk(m, g)
  <2>1. \A n \in 1 .. Rounds : g[n] = Visit(m, g[n - 1])
    <3>1. \A n \in 1 .. Rounds : g[n - 1] \in V
      BY <1>1
    <3> QED
      BY <1>3, <1>6, <3>1 DEF Recursion
  <2>2. \A n \in 0 .. Rounds : n = 0 \/ n \in 1 .. Rounds
    BY <1>1
  <2> QED
    BY <1>6, <2>1, <2>2 DEF IsWalk, Recursion
<1> DEFINE f == CHOOSE f : IsWalk(m, f)
<1>8. IsWalk(m, f)
  BY <1>7
<1> HIDE DEF f
<1>9. /\ f[0] = Start /\ \A n \in 1 .. Rounds : f[n] = Visit(m, f[n - 1])
  <2>1. \A n \in 0 .. Rounds : f[n] = IF n = 0 THEN Start ELSE Visit(m, f[n - 1])
    BY <1>8, Zenon DEF IsWalk
  <2> QED
    BY <1>1, <2>1
<1> DEFINE G == {n \in 0 .. Rounds : f[n] \in V /\ (f[n].h = m.brk \/ f[n].h >= 16 * n)}
<1>10. 0 \in G
  BY <1>1, <1>2, <1>9 DEF Start, mem_heap_lo
<1>11. ASSUME NEW n \in 1 .. Rounds, n - 1 \in G PROVE n \in G
  <2>1. f[n] = Visit(m, f[n - 1]) /\ f[n - 1] \in V
        /\ (f[n - 1].h = m.brk \/ f[n - 1].h >= 16 * (n - 1))
    BY <1>9, <1>11
  <2>2. /\ f[n] \in V
        /\ f[n - 1].h # m.brk => f[n].h >= f[n - 1].h + 16
        /\ f[n - 1].h = m.brk => f[n] = f[n - 1]
    BY <2>1, VisitWalks DEF V
  <2>3. f[n - 1].h \in Int /\ f[n].h \in Int
    BY <2>1, <2>2 DEF V, Walked, Totals
  <2> QED
    BY <2>1, <2>2, <2>3
<1> HIDE DEF G
<1>12. 0 .. Rounds \subseteq G
  BY <1>1, <1>10, <1>11, IntervalInduction
<1>13. f[Rounds] \in V /\ (f[Rounds].h = m.brk \/ f[Rounds].h >= 16 * Rounds)
  BY <1>1, <1>12 DEF G
<1>14. f[Rounds].h = m.brk
  <2>1. f[Rounds].h \in m.chunks \cup {m.brk}
    BY <1>13 DEF V, Walked
  <2>2. ASSUME f[Rounds].h \in m.chunks, f[Rounds].h >= 16 * Rounds PROVE FALSE
    <3> DEFINE h == f[Rounds].h
    <3>1. h \in Nat /\ ChunkSize(m, h) \in Nat /\ ChunkSize(m, h) >= 32
          /\ h + ChunkSize(m, h) <= m.brk
      BY <2>2, ChunkIs
    <3> HIDE DEF h
    <3>2. h >= 16 * Rounds
      BY <2>2 DEF h
    <3> QED
      BY <1>1, <3>1, <3>2, MemLibAssumption
  <2> QED
    BY <1>13, <2>1, <2>2
<1> QED
  BY <1>13, <1>14, CheckheapIs DEF f, V

\* What mm_checkheap reports of a consistent heap.
LEMMA CheckheapExact ==
    ASSUME NaiveInv, FirstChunk(heap)
    PROVE  CheckHeapExact
<1> DEFINE t == mm_checkheap(heap)
<1>1. HeapConsistent(heap, live)
  BY DEF NaiveInv
<1>2. t \in Walked(heap, live) /\ t.h = heap.brk
  BY <1>1, WalkEnds
<1> HIDE DEF t
<1>3. ChunksBelow(heap, heap.brk) = heap.chunks
  BY <1>1 DEF ChunksBelow, HeapConsistent, ChunksTile
<1>4. BlocksBelow(live, heap.brk) = DOMAIN live
  BY <1>1 DEF BlocksBelow, HeapConsistent, ChunksTile, LiveMatchesStatus
<1>5. /\ t.allocated_sz + t.free_sz = heap.brk
      /\ t.allocated + t.free = Cardinality(heap.chunks)
      /\ t.allocated = Cardinality(DOMAIN live)
  BY <1>2, <1>3, <1>4 DEF Walked
<1> QED
  BY <1>5 DEF CheckHeapExact, mem_heapsize, t

\* mm_checkheap can be trusted: for every arena and every client that respects
\* malloc's discipline, its walk from mem_heap_lo ends at the break, its sizes add
\* up to the heap, and it counts as allocated the blocks that the client holds.
THEOREM NaiveCheckHeapExact ==
    ASSUME GoodSizes
    PROVE  NaiveSpec => []CheckHeapExact
<1> DEFINE Inv == NaiveInv /\ FirstChunk(heap)
<1>1. Init => Inv
  <2>1. Init => FirstChunk(heap)
    BY DEF Init, InitHeap, EmptyHeap, FirstChunk, mem_reset_brk, mem_heap_lo
  <2> QED
    BY <2>1, InitInv
<1>2. Inv /\ [NaiveNext]_vars => Inv'
  <2> SUFFICES ASSUME Inv, [NaiveNext]_vars PROVE Inv'
    OBVIOUS
  <2>1. ASSUME NEW s \in Sizes, Malloc(s) PROVE Inv'
    <3>1. NaiveInv' /\ (Nothing \/ Grew(s))
      BY <2>1, MallocStep
    <3>2. FirstChunk(heap)'
      BY <3>1 DEF Nothing, Grew, Grown, FirstChunk
    <3> QED
      BY <3>1, <3>2
  <2>2. ASSUME NEW p \in DOMAIN live, Free(p) PROVE Inv'
    <3>1. NaiveInv' /\ Freed(p)
      BY <2>2, FreeStep
    <3>2. FirstChunk(heap)'
      BY <3>1 DEF Freed, Cleared, FirstChunk
    <3> QED
      BY <3>1, <3>2
  <2>3. ASSUME NEW p \in DOMAIN live \cup {NULL}, NEW s \in Sizes \cup {0}, Realloc(p, s)
        PROVE  Inv'
    <3>1. NaiveInv' /\ (Nothing \/ Grew(s) \/ Freed(p) \/ Moved(p, s))
      BY <2>3, ReallocStep
    <3>2. Moved(p, s) => FirstChunk(heap)'
      BY DEF Moved, Grown, Cleared, FirstChunk
    <3>3. Nothing => FirstChunk(heap)'
      BY DEF Nothing, FirstChunk
    <3>4. Grew(s) => FirstChunk(heap)'
      BY DEF Grew, Grown, FirstChunk
    <3>5. Freed(p) => FirstChunk(heap)'
      BY DEF Freed, Cleared, FirstChunk
    <3> QED
      BY <3>1, <3>2, <3>3, <3>4, <3>5
  <2>4. ASSUME NEW p \in DOMAIN live, NEW b \in Bytes, Store(p, b) PROVE Inv'
    <3>1. NaiveInv'
      BY <2>4, StoreStep
    <3>2. heap'.brk = heap.brk /\ heap'.chunks = heap.chunks
      BY <2>4 DEF Store, NaiveInv, HeapConsistent, Heap
    <3> QED
      BY <3>1, <3>2 DEF FirstChunk
  <2>5. CASE Reset
    <3>1. NaiveInv'
      BY <2>5, ResetStep
    <3>2. FirstChunk(heap)'
      BY <2>5 DEF Reset, EmptyHeap, FirstChunk, mem_reset_brk, mem_heap_lo
    <3> QED
      BY <3>1, <3>2
  <2>6. CASE UNCHANGED vars
    BY <2>6 DEF vars, NaiveInv, AssertsHold, FirstChunk
  <2> QED
    BY <2>1, <2>2, <2>3, <2>4, <2>5, <2>6 DEF NaiveNext
<1>3. Inv => CheckHeapExact
  BY CheckheapExact
<1> QED
  BY <1>1, <1>2, <1>3, PTL DEF NaiveSpec

-----------------------------------------------------------------------------
(* A trace: what it holds, and what it has cost, after n requests.         *)

Uses(ops, n, x) == {k \in 1 .. n : ops[k].index = x}

\* The last request that names an id.
LEMMA LastUse ==
    ASSUME NEW ops, NEW n \in Nat, NEW x, Uses(ops, n, x) # {}
    PROVE  /\ Max(Uses(ops, n, x)) \in Uses(ops, n, x)
           /\ \A k \in Uses(ops, n, x) : k <= Max(Uses(ops, n, x))
<1>1. Uses(ops, n, x) \subseteq Int /\ \A k \in Uses(ops, n, x) : k <= n
  BY DEF Uses
<1> QED
  BY <1>1, MaxOf

\* An id is held when it is named, and the last time not in a free.
LEMMA HeldIff ==
    ASSUME NEW ops, NEW n \in Nat, NEW x
    PROVE  x \in HeldIds(ops, n) <=>
             Uses(ops, n, x) # {} /\ ops[Max(Uses(ops, n, x))].type # FREE
BY DEF HeldIds, Uses

\* Nothing is held before the first request.
LEMMA HeldNone ==
    ASSUME NEW ops
    PROVE  HeldIds(ops, 0) = {}
BY DEF HeldIds

\* A request changes what is known of its own id only.
LEMMA HeldStep ==
    ASSUME NEW ops, NEW n \in Nat \ {0}, NEW y, ops[n].index = y
    PROVE  /\ ops[n].type # FREE => /\ HeldIds(ops, n) = HeldIds(ops, n - 1) \cup {y}
                                    /\ LastSize(ops, n, y) = ops[n].size
           /\ ops[n].type = FREE => HeldIds(ops, n) = HeldIds(ops, n - 1) \ {y}
           /\ \A x : x # y => LastSize(ops, n, x) = LastSize(ops, n - 1, x)
<1>1. n - 1 \in Nat /\ 1 .. n = (1 .. n - 1) \cup {n}
  OBVIOUS
<1>2. \A x : x # y => Uses(ops, n, x) = Uses(ops, n - 1, x)
  BY <1>1 DEF Uses
<1>3. n \in Uses(ops, n, y) /\ Max(Uses(ops, n, y)) = n
  <2>1. n \in Uses(ops, n, y)
    BY DEF Uses
  <2>2. Uses(ops, n, y) \subseteq Int /\ \A k \in Uses(ops, n, y) : k <= n
    BY DEF Uses
  <2> QED
    BY <2>1, <2>2, MaxIs
<1>4. y \in HeldIds(ops, n) <=> ops[n].type # FREE
  BY <1>3, HeldIff
<1>5. \A x : x # y => (x \in HeldIds(ops, n) <=> x \in HeldIds(ops, n - 1))
  BY <1>1, <1>2, HeldIff
<1>6. LastSize(ops, n, y) = ops[n].size
  BY <1>3 DEF LastSize, Uses
<1>7. \A x : x # y => LastSize(ops, n, x) = LastSize(ops, n - 1, x)
  BY <1>2 DEF LastSize, Uses
<1> QED
  BY <1>4, <1>5, <1>6, <1>7

\* Finitely many ids are held: each was named by a request.
LEMMA HeldFinite ==
    ASSUME NEW ops, NEW n \in Nat
    PROVE  IsFiniteSet(HeldIds(ops, n))
<1> DEFINE f == [k \in 1 .. n |-> ops[k].index]
           T == {ops[k].index : k \in 1 .. n}
<1>1. f \in Surjection(1 .. n, T)
  BY DEF Surjection
<1>2. IsFiniteSet(T)
  BY <1>1, FS_Interval, FS_Surjection
<1>3. HeldIds(ops, n) \in SUBSET T
  BY DEF HeldIds
<1> QED
  BY <1>2, <1>3, FS_Subset

\* The ids a well-formed trace holds have a size.
LEMMA HeldSize ==
    ASSUME NEW ops, WellFormed(ops), DOMAIN ops = 1 .. Len(ops), Len(ops) \in Nat,
           NEW n \in 0 .. Len(ops), NEW x \in HeldIds(ops, n)
    PROVE  x \in Nat /\ LastSize(ops, n, x) \in Nat \ {0}
<1> DEFINE k == Max(Uses(ops, n, x))
<1>1. Uses(ops, n, x) # {} /\ ops[k].type # FREE
  BY HeldIff
<1>2. k \in Uses(ops, n, x)
  BY <1>1, LastUse
<1>3. k \in 1 .. n /\ ops[k].index = x
  BY <1>2 DEF Uses
<1>4. LastSize(ops, n, x) = ops[k].size
  BY DEF LastSize, Uses
<1> HIDE DEF k
<1> QED
  BY <1>1, <1>3, <1>4 DEF WellFormed

-----------------------------------------------------------------------------

Chunk(o) == RoundUp(o.size) + SIZEOF_HEADER

Allocations(ops, n) == {k \in 1 .. n : ops[k].type # FREE}

\* What the first n requests cost, none of them reusing anything.
Cost(ops, n) ==
    SumFunctionOnSet([k \in Allocations(ops, Len(ops)) |-> Chunk(ops[k])],
                     Allocations(ops, n))

\* The bytes of all chunks ever made: nothing at first, one more chunk for an
\* ALLOC or a REALLOC, no more for a FREE, and at the end those of the whole trace.
LEMMA CostSteps ==
    ASSUME NEW ops, WellFormed(ops), DOMAIN ops = 1 .. Len(ops), Len(ops) \in Nat
    PROVE  /\ Cost(ops, 0) = 0
           /\ Cost(ops, Len(ops)) = ChunkBytes(ops)
           /\ \A n \in 0 .. Len(ops) : /\ Cost(ops, n) \in Nat
                                       /\ Cost(ops, n) <= ChunkBytes(ops)
           /\ \A n \in 1 .. Len(ops) :
                 /\ ops[n].type # FREE => Cost(ops, n) = Cost(ops, n - 1) + Chunk(ops[n])
                 /\ ops[n].type = FREE => Cost(ops, n) = Cost(ops, n - 1)
<1> DEFINE all == Allocations(ops, Len(ops))
           f == [k \in all |-> Chunk(ops[k])]
<1>1. \A k \in all : f[k] \in Nat /\ f[k] = Chunk(ops[k])
  <2> TAKE k \in all
  <2>1. ops[k].size \in Nat
    BY DEF WellFormed, Allocations
  <2>2. RoundUp(ops[k].size) \in Nat
    BY <2>1, RoundUpBounds
  <2>3. Chunk(ops[k]) \in Nat
    BY <2>2 DEF Chunk, SIZEOF_HEADER
  <2> QED
    BY <2>3
<1>2. DOMAIN f = all
  OBVIOUS
<1>3. IsFiniteSet(all)
  <2>1. all \in SUBSET (1 .. Len(ops)) /\ IsFiniteSet(1 .. Len(ops))
    BY FS_Interval DEF Allocations
  <2> QED
    BY <2>1, FS_Subset
<1>4. Cost(ops, Len(ops)) = ChunkBytes(ops)
  <2>1. all = {k \in DOMAIN ops : ops[k].type # FREE}
    BY DEF Allocations
  <2>2. ChunkBytes(ops) = SumFunctionOnSet(f, DOMAIN f)
    BY <2>1 DEF ChunkBytes, SumFunction, Chunk
  <2> QED
    BY <2>2 DEF Cost
<1> HIDE DEF f
<1>5. Cost(ops, 0) = 0
  <2>1. Allocations(ops, 0) = {}
    BY DEF Allocations
  <2> QED
    BY <2>1, SumEmpty DEF Cost
<1>6. ASSUME NEW n \in 0 .. Len(ops)
      PROVE  Allocations(ops, n) \in SUBSET all /\ IsFiniteSet(Allocations(ops, n))
  BY <1>3, FS_Subset DEF Allocations
<1>7. ASSUME NEW n \in 0 .. Len(ops)
      PROVE  Cost(ops, n) \in Nat /\ Cost(ops, n) <= ChunkBytes(ops)
  <2>1. SumFunctionOnSet(f, Allocations(ops, n)) \in Nat
    BY <1>1, <1>6, SumNat
  <2>2. SumFunctionOnSet(f, Allocations(ops, n)) <= SumFunctionOnSet(f, all)
    BY <1>1, <1>3, <1>6, SumSubset
  <2> QED
    BY <1>4, <2>1, <2>2 DEF Cost, f
<1>8. ASSUME NEW n \in 1 .. Len(ops), ops[n].type # FREE
      PROVE  Cost(ops, n) = Cost(ops, n - 1) + Chunk(ops[n])
  <2> DEFINE A == Allocations(ops, n)
             c == Cost(ops, n - 1)
  <2>1. n \in A /\ A \ {n} = Allocations(ops, n - 1) /\ A \in SUBSET all /\ IsFiniteSet(A)
    BY <1>6, <1>8 DEF Allocations
  <2> HIDE DEF A
  <2>2. \A k \in A : SumFunctionOnSet(f, A) = f[k] + SumFunctionOnSet(f, A \ {k})
    <3>1. \A k \in A : f[k] \in Int
      BY <1>1, <2>1
    <3>2. IsFiniteSet(A)
      BY <2>1
    <3> HIDE DEF c
    <3> QED
      BY ONLY <3>1, <3>2, SumRemove, Zenon
  <2>3. Cost(ops, n) = f[n] + c
    BY <2>1, <2>2 DEF Cost, f, A
  <2>4. f[n] \in Nat /\ f[n] = Chunk(ops[n])
    BY <1>1, <2>1
  <2>5. c \in Nat
    BY <1>7
  <2> HIDE DEF c
  <2>6. Cost(ops, n) = c + Chunk(ops[n])
    BY <2>3, <2>4, <2>5
  <2> QED
    BY <2>6 DEF c
<1>9. ASSUME NEW n \in 1 .. Len(ops), ops[n].type = FREE
      PROVE  Cost(ops, n) = Cost(ops, n - 1)
  <2>1. Allocations(ops, n) = Allocations(ops, n - 1)
    BY <1>9 DEF Allocations
  <2> QED
    BY <2>1 DEF Cost
<1> QED
  BY <1>4, <1>5, <1>7, <1>8, <1>9

\* A well-formed trace starts with an allocation, so it costs something.
LEMMA CostPositive ==
    ASSUME NEW ops, WellFormed(ops), DOMAIN ops = 1 .. Len(ops), Len(ops) \in Nat
    PROVE  ChunkBytes(ops) \in Nat /\ ChunkBytes(ops) > 0
<1>1. 1 \in DOMAIN ops /\ Len(ops) >= 1
  BY DEF WellFormed
<1>2. ops[1].type = ALLOC
  BY <1>1, HeldNone DEF WellFormed
<1>3. ops[1].type # FREE /\ ops[1].size \in Nat
  BY <1>1, <1>2 DEF WellFormed, ALLOC, FREE
<1>4. Chunk(ops[1]) \in Nat /\ Chunk(ops[1]) > 0
  <2>1. RoundUp(ops[1].size) \in Nat
    BY <1>3, RoundUpBounds
  <2> QED
    BY <2>1 DEF Chunk, SIZEOF_HEADER
<1>5. Cost(ops, 1) = Cost(ops, 0) + Chunk(ops[1]) /\ Cost(ops, 0) = 0
  BY <1>1, <1>3, CostSteps
<1>6. Cost(ops, 1) <= ChunkBytes(ops) /\ ChunkBytes(ops) \in Nat /\ Cost(ops, 1) \in Nat
  <2>1. 1 \in 0 .. Len(ops) /\ Len(ops) \in 0 .. Len(ops)
    BY <1>1
  <2> QED
    BY <2>1, CostSteps
<1> QED
  BY <1>4, <1>5, <1>6

\* What the trace holds, step by step.
LEMMA LiveBytesSteps ==
    ASSUME NEW ops, WellFormed(ops), DOMAIN ops = 1 .. Len(ops), Len(ops) \in Nat
    PROVE  /\ LiveBytes(ops, 0) = 0
           /\ \A n \in 0 .. Len(ops) : LiveBytes(ops, n) \in Nat
           /\ \A n \in 1 .. Len(ops) :
                 LET x == ops[n].index
                 IN  /\ ops[n].type = ALLOC =>
                            LiveBytes(ops, n) = LiveBytes(ops, n - 1) + ops[n].size
                     /\ ops[n].type \in {REALLOC, FREE} =>
                            x \in HeldIds(ops, n - 1)
                     /\ ops[n].type = REALLOC =>
                            LiveBytes(ops, n) = LiveBytes(ops, n - 1)
                               + (ops[n].size - LastSize(ops, n - 1, x))
                     /\ ops[n].type = FREE =>
                            LiveBytes(ops, n) = LiveBytes(ops, n - 1)
                               - LastSize(ops, n - 1, x)
<1> DEFINE T(n) == [x \in HeldIds(ops, n) |-> LastSize(ops, n, x)]
<1>1. \A n : LiveBytes(ops, n) = SumFunctionOnSet(T(n), HeldIds(ops, n))
  BY DEF LiveBytes, SumFunction
<1>2. LiveBytes(ops, 0) = 0
  BY <1>1, HeldNone, SumEmpty
<1>3. ASSUME NEW n \in 0 .. Len(ops)
      PROVE  /\ IsFiniteSet(HeldIds(ops, n))
             /\ \A x \in HeldIds(ops, n) : T(n)[x] = LastSize(ops, n, x) /\ T(n)[x] \in Nat
  BY HeldFinite, HeldSize
<1>4. ASSUME NEW n \in 0 .. Len(ops)
      PROVE  LiveBytes(ops, n) \in Nat
  <2> HIDE DEF T
  <2>1. SumFunctionOnSet(T(n), HeldIds(ops, n)) \in Nat
    BY <1>3, SumNat
  <2> QED
    BY <1>1, <2>1
<1>5. ASSUME NEW n \in 1 .. Len(ops)
      PROVE  LET x == ops[n].index
                 IN  /\ ops[n].type = ALLOC =>
                            LiveBytes(ops, n) = LiveBytes(ops, n - 1) + ops[n].size
                     /\ ops[n].type \in {REALLOC, FREE} =>
                            x \in HeldIds(ops, n - 1)
                     /\ ops[n].type = REALLOC =>
                            LiveBytes(ops, n) = LiveBytes(ops, n - 1)
                               + (ops[n].size - LastSize(ops, n - 1, x))
                     /\ ops[n].type = FREE =>
                            LiveBytes(ops, n) = LiveBytes(ops, n - 1)
                               - LastSize(ops, n - 1, x)
  <2> DEFINE x == ops[n].index
             H == HeldIds(ops, n - 1)
             K == HeldIds(ops, n)
             rest == SumFunctionOnSet(T(n), K \ {x})
             old == LastSize(ops, n - 1, x)
  <2>1. n - 1 \in 0 .. Len(ops) /\ n \in 0 .. Len(ops) /\ n \in Nat \ {0} /\ n \in DOMAIN ops
    OBVIOUS
  <2>2. K \ {x} = H \ {x} /\ \A y \in K \ {x} : T(n)[y] = T(n - 1)[y]
    BY <2>1, HeldStep
  <2>3. ops[n].type = ALLOC <=> x \notin H
    BY <2>1 DEF WellFormed
  <2>4. IsFiniteSet(K \ {x}) /\ rest \in Nat
    BY <1>3, <2>1, FS_Subset, SumNat
  <2>5. rest = SumFunctionOnSet(T(n - 1), H \ {x})
    <3> HIDE DEF T, H, K
    <3> QED
      BY <2>2, <2>4, SumCongruence
  <2>6. x \in K => LiveBytes(ops, n) = LastSize(ops, n, x) + rest
    <3>1. \A y \in K : T(n)[y] \in Int
      BY <1>3, <2>1
    <3>2. x \in K => SumFunctionOnSet(T(n), K) = T(n)[x] + rest
      BY <1>3, <2>1, <3>1, SumRemove
    <3> QED
      BY <1>1, <1>3, <2>1, <3>2
  <2>7. x \notin K => LiveBytes(ops, n) = rest
    <3>1. x \notin K => K \ {x} = K
      OBVIOUS
    <3> QED
      BY <1>1, <3>1
  <2>8. x \in H => LiveBytes(ops, n - 1) = old + rest /\ old \in Nat
    <3>1. \A y \in H : T(n - 1)[y] \in Int
      BY <1>3, <2>1
    <3>2. x \in H => SumFunctionOnSet(T(n - 1), H) = T(n - 1)[x] + rest
      BY <1>3, <2>1, <2>5, <3>1, SumRemove
    <3> QED
      BY <1>1, <1>3, <2>1, <3>2
  <2>9. x \notin H => LiveBytes(ops, n - 1) = rest
    <3>1. x \notin H => H \ {x} = H
      OBVIOUS
    <3> QED
      BY <1>1, <2>5, <3>1
  <2>10. ops[n].type # FREE => x \in K /\ LastSize(ops, n, x) = ops[n].size
                                 /\ ops[n].size \in Nat
    BY <2>1, HeldStep DEF WellFormed
  <2>11. ops[n].type = FREE => x \notin K
    BY <2>1, HeldStep
  <2> HIDE DEF H, K, rest, old, T
  <2>12. CASE ops[n].type = ALLOC
    BY <2>3, <2>4, <2>6, <2>9, <2>10, <2>12 DEF ALLOC, REALLOC, FREE
  <2>13. CASE ops[n].type = REALLOC
    <3>1. x \in H /\ x \in K /\ LastSize(ops, n, x) = ops[n].size /\ ops[n].size \in Nat
      BY <2>3, <2>10, <2>13 DEF ALLOC, REALLOC, FREE
    <3>2. LiveBytes(ops, n) = LiveBytes(ops, n - 1) + (ops[n].size - old)
      BY <2>4, <2>6, <2>8, <3>1
    <3> QED
      BY <2>13, <3>1, <3>2 DEF ALLOC, REALLOC, FREE, H, old
  <2>14. CASE ops[n].type = FREE
    <3>1. x \in H /\ x \notin K
      BY <2>3, <2>11, <2>14 DEF ALLOC, REALLOC, FREE
    <3>2. LiveBytes(ops, n) = LiveBytes(ops, n - 1) - old
      BY <2>4, <2>7, <2>8, <3>1
    <3> QED
      BY <2>14, <3>1, <3>2 DEF ALLOC, REALLOC, FREE, H, old
  <2> QED
    BY <2>12, <2>13, <2>14 DEF ALLOC, REALLOC, FREE
<1> QED
  BY <1>2, <1>4, <1>5

-----------------------------------------------------------------------------
(* The driver's array of blocks against the package's.                     *)

\* After n requests, bl names for every id the trace holds a block of l of its
\* own, of the size asked for, and l has no other block.
Holding(ops, n, bl, l) ==
    /\ HeldIds(ops, n) \subseteq DOMAIN bl
    /\ DOMAIN l = {bl[x] : x \in HeldIds(ops, n)}
    /\ \A x, y \in HeldIds(ops, n) : bl[x] = bl[y] => x = y
    /\ \A x \in HeldIds(ops, n) : l[bl[x]] = LastSize(ops, n, x)

\* An emptied heap holds what a trace holds before its first request.
LEMMA HoldNothing ==
    ASSUME NEW ops, NEW bl
    PROVE  Holding(ops, 0, bl, Empty)
BY HeldNone DEF Holding, Empty

\* An ALLOC that is given a new block.
LEMMA HoldAlloc ==
    ASSUME NEW ops, NEW n \in Nat \ {0}, NEW bl, NEW l, Holding(ops, n - 1, bl, l),
           NEW x, x = ops[n].index, x \notin HeldIds(ops, n - 1), ops[n].type # FREE,
           NEW q, q \notin DOMAIN l
    PROVE  Holding(ops, n, With(bl, x, q), With(l, q, ops[n].size))
<1> DEFINE H == HeldIds(ops, n - 1)
           K == HeldIds(ops, n)
           nb == With(bl, x, q)
           nl == With(l, q, ops[n].size)
<1>1. /\ K = H \cup {x} /\ LastSize(ops, n, x) = ops[n].size
      /\ \A y \in H : LastSize(ops, n, y) = LastSize(ops, n - 1, y)
  BY HeldStep
<1>2. /\ DOMAIN nb = DOMAIN bl \cup {x} /\ nb[x] = q
      /\ \A y \in H : nb[y] = bl[y]
  BY DEF With, Holding
<1>3. /\ DOMAIN nl = DOMAIN l \cup {q} /\ nl[q] = ops[n].size
      /\ \A p \in DOMAIN l : nl[p] = l[p]
  BY DEF With
<1>4. /\ H \subseteq DOMAIN bl /\ DOMAIN l = {bl[y] : y \in H}
      /\ \A y, z \in H : bl[y] = bl[z] => y = z
      /\ \A y \in H : l[bl[y]] = LastSize(ops, n - 1, y)
  BY DEF Holding
<1> HIDE DEF H, K, nb, nl
<1>5. \A y \in H : bl[y] \in DOMAIN l /\ bl[y] # q
  BY <1>4
<1>6. DOMAIN nl = {nb[y] : y \in K}
  BY <1>1, <1>2, <1>3, <1>4
<1>7. \A y, z \in K : nb[y] = nb[z] => y = z
  BY <1>1, <1>2, <1>4, <1>5
<1>8. \A y \in K : nl[nb[y]] = LastSize(ops, n, y)
  BY <1>1, <1>2, <1>3, <1>4, <1>5
<1>9. K \subseteq DOMAIN nb
  BY <1>1, <1>2, <1>4
<1> QED
  BY <1>6, <1>7, <1>8, <1>9 DEF Holding, K, nb, nl

\* A FREE of a block that is held.
LEMMA HoldFree ==
    ASSUME NEW ops, NEW n \in Nat \ {0}, NEW bl, NEW l, Holding(ops, n - 1, bl, l),
           NEW x, x = ops[n].index, x \in HeldIds(ops, n - 1), ops[n].type = FREE
    PROVE  Holding(ops, n, bl, Without(l, bl[x]))
<1> DEFINE H == HeldIds(ops, n - 1)
           K == HeldIds(ops, n)
           nl == Without(l, bl[x])
<1>1. /\ K = H \ {x}
      /\ \A y \in K : LastSize(ops, n, y) = LastSize(ops, n - 1, y)
  BY HeldStep
<1>2. /\ DOMAIN nl = DOMAIN l \ {bl[x]}
      /\ \A p \in DOMAIN nl : nl[p] = l[p]
  BY DEF Without
<1>3. /\ H \subseteq DOMAIN bl /\ DOMAIN l = {bl[y] : y \in H}
      /\ \A y, z \in H : bl[y] = bl[z] => y = z
      /\ \A y \in H : l[bl[y]] = LastSize(ops, n - 1, y)
  BY DEF Holding
<1>4. x \in H
  OBVIOUS
<1> HIDE DEF H, K, nl
<1>5. \A y \in K : bl[y] \in DOMAIN nl
  BY <1>1, <1>2, <1>3, <1>4
<1>6. DOMAIN nl = {bl[y] : y \in K}
  BY <1>1, <1>2, <1>3, <1>4, <1>5
<1>7. \A y \in K : nl[bl[y]] = LastSize(ops, n, y)
  BY <1>1, <1>2, <1>3, <1>5
<1>8. K \subseteq DOMAIN bl /\ \A y, z \in K : bl[y] = bl[z] => y = z
  BY <1>1, <1>3
<1> QED
  BY <1>6, <1>7, <1>8 DEF Holding, K, nl

\* A REALLOC of a block that is held, to a new one.
LEMMA HoldRealloc ==
    ASSUME NEW ops, NEW n \in Nat \ {0}, NEW bl, NEW l, Holding(ops, n - 1, bl, l),
           NEW x, x = ops[n].index, x \in HeldIds(ops, n - 1), ops[n].type # FREE,
           NEW q, q \notin DOMAIN l
    PROVE  Holding(ops, n, With(bl, x, q), With(Without(l, bl[x]), q, ops[n].size))
<1> DEFINE H == HeldIds(ops, n - 1)
           K == HeldIds(ops, n)
           nb == With(bl, x, q)
           nl == With(Without(l, bl[x]), q, ops[n].size)
<1>0. /\ K = H \cup {x} /\ LastSize(ops, n, x) = ops[n].size
      /\ \A y \in H : y # x => LastSize(ops, n, y) = LastSize(ops, n - 1, y)
  BY HeldStep
<1>1. /\ K = H /\ x \in H /\ LastSize(ops, n, x) = ops[n].size
      /\ \A y \in H : y # x => LastSize(ops, n, y) = LastSize(ops, n - 1, y)
  BY <1>0
<1>2. /\ DOMAIN nb = DOMAIN bl \cup {x} /\ nb[x] = q
      /\ \A y \in H : y # x => nb[y] = bl[y]
  BY DEF With, Holding
<1>3. /\ DOMAIN nl = (DOMAIN l \ {bl[x]}) \cup {q} /\ nl[q] = ops[n].size
      /\ \A p \in DOMAIN l \ {bl[x]} : nl[p] = l[p]
  BY DEF With, Without
<1>4. /\ H \subseteq DOMAIN bl /\ DOMAIN l = {bl[y] : y \in H}
      /\ \A y, z \in H : bl[y] = bl[z] => y = z
      /\ \A y \in H : l[bl[y]] = LastSize(ops, n - 1, y)
  BY DEF Holding
<1> HIDE DEF H, K, nb, nl
<1>5. /\ \A y \in H : bl[y] \in DOMAIN l /\ bl[y] # q
      /\ \A y \in H : y # x => bl[y] \in DOMAIN l \ {bl[x]}
  BY <1>1, <1>4
<1>6. DOMAIN nl = {nb[y] : y \in K}
  <2>1. ASSUME NEW p \in DOMAIN nl PROVE p \in {nb[y] : y \in K}
    <3>1. CASE p = q
      BY <1>1, <1>2, <3>1
    <3>2. CASE p \in DOMAIN l \ {bl[x]}
      <4>1. PICK y \in H : p = bl[y]
        BY <1>4, <3>2
      <4> QED
        BY <1>1, <1>2, <3>2, <4>1
    <3> QED
      BY <1>3, <3>1, <3>2
  <2>2. \A y \in K : nb[y] \in DOMAIN nl
    BY <1>1, <1>2, <1>3, <1>5
  <2> QED
    BY <2>1, <2>2
<1>7. \A y, z \in K : nb[y] = nb[z] => y = z
  BY <1>1, <1>2, <1>4, <1>5
<1>8. \A y \in K : nl[nb[y]] = LastSize(ops, n, y)
  BY <1>1, <1>2, <1>3, <1>4, <1>5
<1>9. K \subseteq DOMAIN nb
  BY <1>1, <1>2, <1>4
<1> QED
  BY <1>6, <1>7, <1>8, <1>9 DEF Holding, K, nb, nl

-----------------------------------------------------------------------------
(* Calls of the package on any consistent heap m with the blocks l.        *)

\* Where blocks lie: between their header and the next one.
LEMMA Places ==
    ASSUME NEW m, NEW l, HeapConsistent(m, l)
    PROVE  /\ m.brk \in 0 .. MAX_HEAP /\ m.mem \in [Addr -> Int] /\ MAX_HEAP \in Nat
           /\ \A b \in DOMAIN l : /\ b \in Int /\ l[b] \in Nat
                                  /\ b >= 16 /\ b % 16 = 0 /\ b + l[b] <= m.brk
                                  /\ payload_to_header(b) = b - 16
                                  /\ b - 16 \in Addr
                                  /\ l[b] + 16 <= ChunkSize(m, b - 16)
                                  /\ ChunkSize(m, b - 16) \in Int
           /\ \A b, c \in DOMAIN l : b < c => b + l[b] <= c - 16
<1>1. m.brk \in 0 .. MAX_HEAP /\ m.mem \in [Addr -> Int] /\ MAX_HEAP \in Nat
      /\ m.chunks \subseteq Addr
  BY MemLibAssumption DEF HeapConsistent, Heap
<1>2. ASSUME NEW b \in DOMAIN l
      PROVE  /\ b \in Int /\ l[b] \in Nat
             /\ b >= 16 /\ b % 16 = 0
             /\ payload_to_header(b) = b - 16
             /\ b - 16 \in Addr /\ b - 16 \in m.chunks
             /\ l[b] + 16 <= ChunkSize(m, b - 16)
             /\ ChunkSize(m, b - 16) \in Int
             /\ (b - 16) + ChunkSize(m, b - 16) <= m.brk
  <2>1. b \in Int /\ l[b] \in Nat /\ payload_to_header(b) = b - 16
    BY DEF HeapConsistent, payload_to_header, SIZEOF_HEADER
  <2>2. /\ b - 16 \in m.chunks /\ b - 16 \in Addr
        /\ (b - 16) + ChunkSize(m, b - 16) <= m.brk
    BY <2>1, BlockInHeap
  <2>3. l[b] + 16 <= ChunkSize(m, b - 16)
    BY <2>1 DEF HeapConsistent, LiveMatchesStatus, SIZEOF_HEADER
  <2>4. ChunkSize(m, b - 16) \in Int
    BY <1>1, <2>2 DEF ChunkSize, get_chunk_size
  <2>5. (b - 16) % 16 = 0
    BY <2>2 DEF HeapConsistent, ChunksTile, is_aligned, ALIGNMENT
  <2>6. b >= 16
    BY <1>1, <2>1, <2>2 DEF Addr
  <2>7. b % 16 = 0
    BY <2>1, <2>5
  <2> QED
    BY <2>1, <2>2, <2>3, <2>4, <2>6, <2>7
<1>3. ASSUME NEW b \in DOMAIN l PROVE b + l[b] <= m.brk
  <2> DEFINE z == ChunkSize(m, b - 16)
  <2>1. z \in Int /\ (b - 16) + z <= m.brk /\ l[b] + 16 <= z
    BY <1>2
  <2> HIDE DEF z
  <2> QED
    BY <1>1, <1>2, <2>1
<1>4. ASSUME NEW b \in DOMAIN l, NEW c \in DOMAIN l, b < c
      PROVE  b + l[b] <= c - 16
  <2> DEFINE z == ChunkSize(m, b - 16)
  <2>1. b - 16 < c - 16
    BY <1>2, <1>4
  <2>2. (b - 16) + z <= c - 16
    BY <1>2, <2>1 DEF HeapConsistent, ChunksTile
  <2>3. z \in Int /\ l[b] + 16 <= z
    BY <1>2
  <2> HIDE DEF z
  <2> QED
    BY <1>2, <2>2, <2>3
<1> QED
  BY <1>1, <1>2, <1>3, <1>4

\* The bytes of the blocks B of l are the same in both heaps.
SameBytes(m, g, l, B) ==
    \A b \in B : \A j \in 0 .. l[b] - 1 : g.mem[b + j] = m.mem[b + j]

\* The bytes of a block are cells of the arena below the break, none of them the
\* cell of a header, and none of them another block's.
LEMMA BytesPlaced ==
    ASSUME NEW m, NEW l, HeapConsistent(m, l), NEW b \in DOMAIN l,
           NEW j \in 0 .. l[b] - 1
    PROVE  /\ b + j \in Addr /\ b + j < m.brk
           /\ \A c \in DOMAIN l : b + j # c - 16
           /\ \A c \in DOMAIN l \ {b} : b + j \notin c .. c + l[c] - 1
<1>1. /\ m.brk \in 0 .. MAX_HEAP /\ MAX_HEAP \in Nat
      /\ b \in Int /\ l[b] \in Nat /\ b >= 16 /\ b + l[b] <= m.brk
  BY Places
<1>2. j \in Int /\ b + j >= b /\ b + j < b + l[b]
  BY <1>1
<1>3. ASSUME NEW c \in DOMAIN l
      PROVE  b + j # c - 16 /\ (c # b => b + j \notin c .. c + l[c] - 1)
  <2>1. c \in Int /\ l[c] \in Nat
    BY Places
  <2>2. (b < c => b + l[b] <= c - 16) /\ (c < b => c + l[c] <= b - 16)
    BY Places
  <2> QED
    BY <1>1, <1>2, <2>1, <2>2
<1> QED
  BY <1>1, <1>2, <1>3 DEF Addr

\* mm_malloc on any consistent heap.
LEMMA MallocCall ==
    ASSUME NEW m, NEW l, HeapConsistent(m, l),
           NEW s \in Nat \ {0}, s + 31 < INT_MOD \div 2
    PROVE  LET r == mm_malloc(m, s)
               n == RoundUp(s) + 16
               q == m.brk + 16
           IN  /\ r.ok = TRUE
               /\ m.brk + n > MAX_HEAP => r.ret = NULL /\ r.heap = m
               /\ ~(m.brk + n > MAX_HEAP) =>
                      /\ r.ret = q /\ q # NULL /\ q \notin DOMAIN l
                      /\ r.heap = Grown(m, n)
                      /\ r.heap.brk = m.brk + n
                      /\ HeapConsistent(r.heap, With(l, q, s))
                      /\ SameBytes(m, r.heap, l, DOMAIN l)
<1> DEFINE r == mm_malloc(m, s)
           n == RoundUp(s) + 16
           q == m.brk + 16
<1>1. /\ m \in Heap /\ is_aligned(m.brk) /\ m.brk \in Nat /\ m.mem \in [Addr -> Int]
      /\ MAX_HEAP \in Nat
  BY MemLibAssumption DEF HeapConsistent, ChunksTile, Heap
<1>2. n \in Nat
  BY RoundUpBounds
<1>3. r = IF m.brk + n > MAX_HEAP
          THEN [heap |-> m, ret |-> NULL, ok |-> TRUE]
          ELSE [heap |-> Grown(m, n), ret |-> q, ok |-> TRUE]
  BY <1>1, MallocEffect
<1> HIDE DEF r, n
<1>4. CASE m.brk + n > MAX_HEAP
  BY <1>3, <1>4 DEF r, n
<1>5. CASE ~(m.brk + n > MAX_HEAP)
  <2>1. r.ok = TRUE /\ r.ret = q /\ r.heap = Grown(m, n)
    BY <1>3, <1>5
  <2>2. q # NULL
    BY <1>1 DEF NULL
  <2>3. q \notin DOMAIN l
    <3> SUFFICES ASSUME q \in DOMAIN l PROVE FALSE
      OBVIOUS
    <3>1. l[q] \in Nat /\ q + l[q] <= m.brk
      BY Places
    <3> QED
      BY <1>1, <3>1
  <2>4. m.brk + n <= MAX_HEAP
    BY <1>1, <1>2, <1>5
  <2>5. HeapConsistent(Grown(m, n), With(l, q, s))
    BY <2>4, GrowConsistent DEF n
  <2>6. Grown(m, n).brk = m.brk + n /\ Grown(m, n).mem = [m.mem EXCEPT ![m.brk] = n + 1]
    BY DEF Grown
  <2>7. ASSUME NEW b \in DOMAIN l, NEW j \in 0 .. l[b] - 1
        PROVE  Grown(m, n).mem[b + j] = m.mem[b + j]
    <3>1. b + j \in Addr /\ b + j < m.brk
      BY BytesPlaced
    <3>2. b + j # m.brk
      BY <1>1, <3>1
    <3> QED
      BY <1>1, <2>6, <3>1, <3>2
  <2>8. SameBytes(m, Grown(m, n), l, DOMAIN l)
    BY <2>7 DEF SameBytes
  <2> QED
    BY <1>5, <2>1, <2>2, <2>3, <2>5, <2>6, <2>8 DEF r, n
<1> QED
  BY <1>4, <1>5

\* mm_free of a block of a consistent heap.
LEMMA FreeCall ==
    ASSUME NEW m, NEW l, HeapConsistent(m, l), NEW p \in DOMAIN l
    PROVE  LET r == mm_free(m, p)
           IN  /\ r.ok = TRUE /\ r.heap.brk = m.brk
               /\ r.heap = Cleared(m, p - 16)
               /\ HeapConsistent(r.heap, Without(l, p))
               /\ SameBytes(m, r.heap, l, DOMAIN l)
<1> DEFINE g == Cleared(m, p - 16)
<1>1. /\ m \in Heap /\ m.mem \in [Addr -> Int]
      /\ payload_to_header(p) = p - 16 /\ p - 16 \in Addr
  BY Places DEF HeapConsistent
<1>2. mm_free(m, p) = [heap |-> g, ok |-> TRUE]
  BY <1>1, BlockInHeap, FreeEffect
<1>3. HeapConsistent(g, Without(l, p))
  BY <1>1, ClearConsistent
<1>4. g.brk = m.brk /\ g.mem = [m.mem EXCEPT ![p - 16] = get_chunk_size(m.mem[p - 16])]
  BY <1>1 DEF Cleared, Heap
<1>5. ASSUME NEW b \in DOMAIN l, NEW j \in 0 .. l[b] - 1
      PROVE  g.mem[b + j] = m.mem[b + j]
  BY <1>1, <1>4, BytesPlaced
<1>6. SameBytes(m, g, l, DOMAIN l)
  BY <1>5 DEF SameBytes
<1> HIDE DEF g
<1>7. mm_free(m, p).ok = TRUE /\ mm_free(m, p).heap = g
  BY <1>2
<1> QED
  BY <1>3, <1>4, <1>6, <1>7 DEF g

\* The driver's memset of a block.
Fill(m, q, v, n) == [m EXCEPT !.mem = memset(@, q, v, n)]

\* The driver fills a block with one byte.
LEMMA FillCall ==
    ASSUME NEW m, NEW l, HeapConsistent(m, l), NEW q \in DOMAIN l, NEW v \in Int
    PROVE  LET g == Fill(m, q, v, l[q])
           IN  /\ g.brk = m.brk
               /\ HeapConsistent(g, l)
               /\ \A j \in 0 .. l[q] - 1 : g.mem[q + j] = v
               /\ SameBytes(m, g, l, DOMAIN l \ {q})
<1> DEFINE cells == memset(m.mem, q, v, l[q])
           g == [m EXCEPT !.mem = cells]
<1>1. /\ m \in Heap /\ m.mem \in [Addr -> Int] /\ q \in Int /\ l[q] \in Nat
      /\ payload_to_header(q) = q - 16
      /\ l[q] + 16 <= ChunkSize(m, q - 16) /\ ChunkSize(m, q - 16) \in Int
  BY Places DEF HeapConsistent
<1>2. /\ cells \in [Addr -> Int]
      /\ \A a \in Addr : a \notin q .. q + l[q] - 1 => cells[a] = m.mem[a]
  BY <1>1, SetEffect
<1>3. \A a \in Addr : a \in q .. q + l[q] - 1 => cells[a] = v
  BY <1>1 DEF memset
<1> HIDE DEF cells
<1>4. q .. q + l[q] - 1 \subseteq Room(m, q)
  <2> DEFINE z == ChunkSize(m, q - 16)
  <2>1. Room(m, q) = q .. (q - 16) + z - 1 /\ z \in Int /\ l[q] + 16 <= z
    BY <1>1 DEF Room
  <2> HIDE DEF z
  <2> QED
    BY <1>1, <2>1
<1>5. HeapConsistent(g, l)
  BY <1>2, <1>4, StoreConsistent
<1>6. g.brk = m.brk /\ g.mem = cells
  BY <1>1 DEF Heap
<1>7. ASSUME NEW j \in 0 .. l[q] - 1 PROVE g.mem[q + j] = v
  <2>1. q + j \in Addr
    BY BytesPlaced
  <2>2. q + j \in q .. q + l[q] - 1
    BY <1>1
  <2> QED
    BY <1>3, <1>6, <2>1, <2>2
<1>8. ASSUME NEW b \in DOMAIN l \ {q}, NEW j \in 0 .. l[b] - 1
      PROVE  g.mem[b + j] = m.mem[b + j]
  <2>1. b + j \in Addr /\ b + j \notin q .. q + l[q] - 1
    BY BytesPlaced
  <2> QED
    BY <1>2, <1>6, <2>1
<1>9. SameBytes(m, g, l, DOMAIN l \ {q})
  BY <1>8 DEF SameBytes
<1>10. Fill(m, q, v, l[q]) = g
  BY DEF Fill, cells
<1> HIDE DEF g
<1> QED
  BY <1>5, <1>6, <1>7, <1>9, <1>10

\* mm_realloc of a block of a consistent heap to a size other than 0: it fails and
\* changes nothing, or the block moves to the end of the heap with its bytes.
LEMMA ReallocCall ==
    ASSUME NEW m, NEW l, HeapConsistent(m, l), NEW p \in DOMAIN l,
           NEW s \in Nat \ {0}, s + 31 < INT_MOD \div 2
    PROVE  LET r == mm_realloc(m, p, s)
               n == RoundUp(s) + 16
               q == m.brk + 16
           IN  /\ r.ok = TRUE
               /\ m.brk + n > MAX_HEAP => r.ret = NULL /\ r.heap = m
               /\ ~(m.brk + n > MAX_HEAP) =>
                      /\ r.ret = q /\ q # NULL /\ q \notin DOMAIN l
                      /\ r.heap.brk = m.brk + n
                      /\ HeapConsistent(r.heap, With(Without(l, p), q, s))
                      /\ SameBytes(m, r.heap, l, DOMAIN l \ {p})
                      /\ \A j \in 0 .. l[p] - 1 :
                             j < s => r.heap.mem[q + j] = m.mem[p + j]
<1> DEFINE r == mm_realloc(m, p, s)
           a == mm_malloc(m, s)
           n == RoundUp(s) + 16
           q == m.brk + 16
           new == With(l, q, s)
<1>1. /\ m.brk \in Nat /\ m.mem \in [Addr -> Int] /\ MAX_HEAP \in Nat /\ n \in Nat
      /\ p \in Int /\ l[p] \in Nat /\ p >= 16 /\ p + l[p] <= m.brk
      /\ payload_to_header(p) = p - 16 /\ p - 16 \in Addr
  BY Places, RoundUpBounds
<1>2. p # NULL
  BY <1>1 DEF NULL
<1>3. CASE m.brk + n > MAX_HEAP
  <2>1. a.ret = NULL /\ a.heap = m /\ a.ok = TRUE
    BY <1>3, MallocCall
  <2>2. r = a
    BY <2>1 DEF mm_realloc
  <2> QED
    BY <1>3, <2>1, <2>2
<1>4. CASE ~(m.brk + n > MAX_HEAP)
  <2> DEFINE g       == Grown(m, n)
             payload == get_chunk_size(g.mem[payload_to_header(p)]) - SIZEOF_HEADER
             c       == CopySize(s, payload)
             copied  == [g EXCEPT !.mem = memcpy(@, q, p, c)]
             f       == mm_free(copied, p)
  <2>1. /\ a.ok = TRUE /\ a.ret = q /\ q # NULL /\ q \notin DOMAIN l /\ a.heap = g
        /\ HeapConsistent(g, new) /\ SameBytes(m, g, l, DOMAIN l)
        /\ g.brk = m.brk + n
    <3>1. /\ a.ok = TRUE /\ a.ret = q /\ q # NULL /\ q \notin DOMAIN l /\ a.heap = g
          /\ HeapConsistent(a.heap, new) /\ SameBytes(m, a.heap, l, DOMAIN l)
          /\ a.heap.brk = m.brk + n
      BY <1>4, MallocCall
    <3> HIDE DEF a, g, n, q, new
    <3> QED
      BY <3>1
  <2>2. p \in DOMAIN new /\ q \in DOMAIN new /\ new[q] = s /\ new[p] = l[p]
        /\ DOMAIN new = DOMAIN l \cup {q} /\ \A b \in DOMAIN l : new[b] = l[b]
    BY <2>1 DEF With
  <2> HIDE DEF g, new
  <2>3. /\ g.mem \in [Addr -> Int] /\ g.brk \in 0 .. MAX_HEAP /\ g \in Heap
        /\ l[p] + 16 <= ChunkSize(g, p - 16) /\ ChunkSize(g, p - 16) \in Int
        /\ q + s <= g.brk
    BY <2>1, <2>2, Places DEF HeapConsistent
  <2>4. payload \in Int /\ payload = ChunkSize(g, payload_to_header(p)) - SIZEOF_HEADER
        /\ l[p] <= payload
    <3> DEFINE z == ChunkSize(g, p - 16)
    <3>1. payload = z - 16
      BY <1>1 DEF ChunkSize, SIZEOF_HEADER
    <3>2. z \in Int /\ l[p] + 16 <= z
      BY <2>3
    <3>3. z = ChunkSize(g, payload_to_header(p))
      BY <1>1
    <3> HIDE DEF z, payload
    <3> QED
      BY <1>1, <3>1, <3>2, <3>3 DEF SIZEOF_HEADER
  <2> HIDE DEF payload
  <2>5. c \in Int /\ c <= s /\ c <= payload /\ (c = s \/ c >= l[p])
    BY <1>1, <2>4 DEF CopySize
  <2> HIDE DEF c
  <2>6. HeapConsistent(copied, new)
    BY <2>1, <2>2, <2>4, <2>5, CopyConsistent
  <2>7. copied.brk = m.brk + n /\ copied.mem = memcpy(g.mem, q, p, c)
    BY <2>1, <2>3 DEF Heap
  <2>8. \A x \in Addr : copied.mem[x] = IF x \in q .. q + c - 1
                                       THEN g.mem[p + (x - q)] ELSE g.mem[x]
    BY <2>3, <2>7 DEF memcpy
  <2> HIDE DEF copied
  <2>9. /\ f.ok = TRUE /\ f.heap.brk = copied.brk
        /\ HeapConsistent(f.heap, Without(new, p))
        /\ SameBytes(copied, f.heap, new, DOMAIN new)
    BY <2>2, <2>6, FreeCall
  <2> HIDE DEF f
  <2>10. r = [heap |-> f.heap, ret |-> q, ok |-> TRUE]
    <3>1. r = [heap |-> f.heap, ret |-> q, ok |-> TRUE /\ f.ok]
      BY <1>2, <2>1 DEF mm_realloc, FreeOld, f, copied, c, payload
    <3> QED
      BY <2>9, <3>1, Zenon
  <2>11. Without(new, p) = With(Without(l, p), q, s)
    BY <2>1 DEF Without, With, new
  <2>12. ASSUME NEW b \in DOMAIN l \ {p}, NEW j \in 0 .. l[b] - 1
         PROVE  f.heap.mem[b + j] = m.mem[b + j]
    <3>1. b \in DOMAIN new /\ new[b] = l[b]
      BY <2>2
    <3>2. f.heap.mem[b + j] = copied.mem[b + j]
      BY <2>9, <3>1 DEF SameBytes
    <3>3. b + j \in Addr /\ b + j < m.brk /\ b \in Int /\ l[b] \in Nat
      BY BytesPlaced, Places
    <3>4. b + j \notin q .. q + c - 1
      BY <1>1, <2>5, <3>3
    <3>5. copied.mem[b + j] = g.mem[b + j]
      BY <2>8, <3>3, <3>4
    <3>6. g.mem[b + j] = m.mem[b + j]
      BY <2>1 DEF SameBytes
    <3> QED
      BY <3>2, <3>5, <3>6
  <2>13. ASSUME NEW j \in 0 .. l[p] - 1, j < s
         PROVE  f.heap.mem[q + j] = m.mem[p + j]
    <3>1. j \in 0 .. new[q] - 1 /\ q \in Int
      BY <1>1, <2>2, <2>13
    <3>2. f.heap.mem[q + j] = copied.mem[q + j]
      BY <2>2, <2>9, <3>1 DEF SameBytes
    <3>3. q + j \in Addr
      BY <2>2, <2>6, <3>1, BytesPlaced
    <3>4. q + j \in q .. q + c - 1 /\ p + ((q + j) - q) = p + j
      BY <1>1, <2>5, <2>13
    <3>5. copied.mem[q + j] = g.mem[p + j]
      BY <2>8, <3>3, <3>4
    <3>6. g.mem[p + j] = m.mem[p + j]
      BY <2>1 DEF SameBytes
    <3> QED
      BY <3>2, <3>5, <3>6
  <2>14. r.ok = TRUE /\ r.ret = q /\ r.heap = f.heap
    BY <2>10
  <2>15. SameBytes(m, f.heap, l, DOMAIN l \ {p})
    BY <2>12 DEF SameBytes
  <2>16. HeapConsistent(f.heap, With(Without(l, p), q, s)) /\ f.heap.brk = m.brk + n
    BY <2>7, <2>9, <2>11
  <2> HIDE DEF r, f
  <2> QED
    BY <1>4, <2>1, <2>13, <2>14, <2>15, <2>16 DEF r
<1> QED
  BY <1>3, <1>4

-----------------------------------------------------------------------------
(* The range list rs and the blocks l that are out.                        *)

Extent == [lo : Int, hi : Int]

\* The list has one record for each block, its extent, and no other.
Listed(rs, l) ==
    /\ rs \in Seq(Extent)
    /\ \A k \in 1 .. Len(rs) : /\ rs[k].lo \in DOMAIN l
                               /\ rs[k].hi = rs[k].lo + l[rs[k].lo] - 1
    /\ \A p \in DOMAIN l : \E k \in 1 .. Len(rs) : rs[k].lo = p
    /\ \A j, k \in 1 .. Len(rs) : rs[j].lo = rs[k].lo => j = k

\* An empty list, and nothing out.
LEMMA ListNothing == Listed(clear_ranges, Empty)
BY DEF Listed, clear_ranges, Empty

\* remove_range takes the record of its block out and no other.
LEMMA ListRemove ==
    ASSUME NEW rs, NEW l, Listed(rs, l), NEW p \in DOMAIN l
    PROVE  Listed(remove_range(rs, p), Without(l, p))
<1> DEFINE ns == remove_range(rs, p)
           g == Without(l, p)
           old(k, j) == IF j < k THEN j ELSE j + 1
<1>1. /\ rs \in Seq(Extent) /\ DOMAIN rs = 1 .. Len(rs) /\ Len(rs) \in Nat
  BY LenProperties DEF Listed
<1>2. PICK k \in 1 .. Len(rs) : rs[k].lo = p
  BY DEF Listed
<1>3. /\ ns \in Seq(Extent) /\ Len(ns) = Len(rs) - 1
      /\ \A j \in 1 .. Len(rs) - 1 : ns[j] = rs[old(k, j)]
  <2>1. {j \in DOMAIN rs : rs[j].lo = p} = {k}
    <3>1. \A j \in 1 .. Len(rs) : rs[j].lo = p => j = k
      BY <1>2 DEF Listed
    <3> QED
      BY <1>1, <1>2, <3>1
  <2>2. Min({k}) = k
    BY <1>1 DEF Min
  <2>3. ns = RemoveAt(rs, k)
    BY <2>1, <2>2 DEF remove_range
  <2> QED
    BY <1>1, <1>2, <2>3, RemoveAtProperties
<1>4. /\ \A j \in 1 .. Len(ns) : old(k, j) \in (1 .. Len(rs)) \ {k} /\ ns[j] = rs[old(k, j)]
      /\ \A h \in (1 .. Len(rs)) \ {k} : \E j \in 1 .. Len(ns) : old(k, j) = h
      /\ \A h, j \in 1 .. Len(ns) : old(k, h) = old(k, j) => h = j
  <2>1. \A j \in 1 .. Len(ns) : old(k, j) \in (1 .. Len(rs)) \ {k} /\ ns[j] = rs[old(k, j)]
    BY <1>1, <1>3
  <2>2. \A h \in (1 .. Len(rs)) \ {k} : \E j \in 1 .. Len(ns) : old(k, j) = h
    <3> SUFFICES ASSUME NEW h \in (1 .. Len(rs)) \ {k}
                 PROVE  \E j \in 1 .. Len(ns) : old(k, j) = h
      OBVIOUS
    <3>1. CASE h < k
      <4>1. h \in 1 .. Len(ns) /\ old(k, h) = h
        BY <1>1, <1>3, <3>1
      <4> QED
        BY <4>1
    <3>2. CASE h > k
      <4>1. h - 1 \in 1 .. Len(ns) /\ old(k, h - 1) = h
        BY <1>1, <1>3, <3>2
      <4> QED
        BY <4>1
    <3> QED
      BY <1>1, <3>1, <3>2
  <2>3. \A h, j \in 1 .. Len(ns) : old(k, h) = old(k, j) => h = j
    BY <1>1, <1>3
  <2> QED
    BY <2>1, <2>2, <2>3
<1>5. DOMAIN g = DOMAIN l \ {p} /\ \A q \in DOMAIN g : g[q] = l[q]
  BY DEF Without
<1> HIDE DEF ns, old, g
<1>6. ASSUME NEW j \in 1 .. Len(ns)
      PROVE  ns[j].lo \in DOMAIN g /\ ns[j].hi = ns[j].lo + g[ns[j].lo] - 1
  <2>1. PICK h \in (1 .. Len(rs)) \ {k} : ns[j] = rs[h]
    BY <1>4
  <2>2. /\ rs[h].lo \in DOMAIN l /\ rs[h].hi = rs[h].lo + l[rs[h].lo] - 1
        /\ rs[h].lo # p
    BY <1>2 DEF Listed
  <2> QED
    BY <1>5, <2>1, <2>2
<1>7. ASSUME NEW q \in DOMAIN g
      PROVE  \E j \in 1 .. Len(ns) : ns[j].lo = q
  <2>1. PICK h \in 1 .. Len(rs) : rs[h].lo = q
    BY <1>5 DEF Listed
  <2>2. h # k
    BY <1>2, <1>5, <2>1
  <2> QED
    BY <1>4, <2>1, <2>2
<1>8. ASSUME NEW h \in 1 .. Len(ns), NEW j \in 1 .. Len(ns), ns[h].lo = ns[j].lo
      PROVE  h = j
  <2>1. old(k, h) = old(k, j)
    BY <1>4, <1>8 DEF Listed
  <2> QED
    BY <1>4, <2>1
<1>9. Listed(ns, g)
  BY <1>3, <1>6, <1>7, <1>8 DEF Listed
<1> QED
  BY <1>9 DEF ns, g

\* add_range accepts the block that mm-naive takes at the break, since the blocks
\* that are out all lie below it, and records it.
LEMMA ListAdd ==
    ASSUME NEW rs, NEW l, Listed(rs, l),
           NEW b \in Nat, b % 16 = 0, NEW s \in Nat \ {0}, NEW e \in Int,
           b + 16 + s <= e,
           \A p \in DOMAIN l : p \in Int /\ l[p] \in Nat /\ p + l[p] <= b
    PROVE  LET a == add_range(rs, e, b + 16, s)
           IN  /\ a.ok = TRUE /\ a.ret = 1
               /\ Listed(a.ranges, With(l, b + 16, s))
<1> DEFINE q == b + 16
           new == [lo |-> q, hi |-> q + s - 1]
           ns == <<new>> \o rs
           g == With(l, q, s)
           a == add_range(rs, e, q, s)
<1>1. /\ rs \in Seq(Extent) /\ DOMAIN rs = 1 .. Len(rs) /\ Len(rs) \in Nat
      /\ \A k \in 1 .. Len(rs) : rs[k] \in Extent
  BY LenProperties, ElementOfSeq DEF Listed
<1>2. \A k \in 1 .. Len(rs) : /\ rs[k].lo \in Int /\ rs[k].hi \in Int /\ rs[k].hi < b
                              /\ rs[k].lo \in DOMAIN l /\ rs[k].lo <= b
                              /\ rs[k].hi = rs[k].lo + l[rs[k].lo] - 1
  <2> SUFFICES ASSUME NEW k \in 1 .. Len(rs)
               PROVE  /\ rs[k].lo \in Int /\ rs[k].hi \in Int /\ rs[k].hi < b
                      /\ rs[k].lo \in DOMAIN l /\ rs[k].lo <= b
                      /\ rs[k].hi = rs[k].lo + l[rs[k].lo] - 1
    OBVIOUS
  <2>1. rs[k].lo \in DOMAIN l /\ rs[k].hi = rs[k].lo + l[rs[k].lo] - 1
    BY DEF Listed
  <2> QED
    BY <2>1
<1>3. \A k \in DOMAIN rs : ~Overlaps(q, q + s - 1, rs[k])
  BY <1>1, <1>2 DEF Overlaps
<1>4. is_aligned(q) /\ InHeap(q, e) /\ InHeap(q + s - 1, e)
  BY DEF is_aligned, ALIGNMENT, InHeap, mem_heap_lo, mem_heap_hi
<1>5. a.ok = TRUE /\ a.ret = 1 /\ a.ranges = ns
  <2>1. (s > 0) = TRUE
    OBVIOUS
  <2> QED
    BY <1>3, <1>4, <2>1 DEF add_range
<1>6. /\ ns \in Seq(Extent) /\ Len(ns) = Len(rs) + 1 /\ ns[1] = new
      /\ \A k \in 2 .. Len(rs) + 1 : k - 1 \in 1 .. Len(rs) /\ ns[k] = rs[k - 1]
  <2>1. new \in Extent
    BY DEF Extent
  <2>2. <<new>> \in Seq(Extent) /\ Len(<<new>>) = 1 /\ <<new>>[1] = new
    BY <2>1
  <2> HIDE DEF new
  <2> QED
    BY <1>1, <2>2, ConcatProperties
<1>7. new.lo = q /\ new.hi = q + s - 1
  OBVIOUS
<1>8. /\ DOMAIN g = DOMAIN l \cup {q} /\ g[q] = s /\ q \notin DOMAIN l
      /\ \A p \in DOMAIN l : g[p] = l[p]
  <2>1. q \notin DOMAIN l
    OBVIOUS
  <2> QED
    BY <2>1 DEF With
<1> HIDE DEF ns, g, new, q
<1>9. ASSUME NEW k \in 1 .. Len(ns)
      PROVE  ns[k].lo \in DOMAIN g /\ ns[k].hi = ns[k].lo + g[ns[k].lo] - 1
  <2>1. CASE k = 1
    BY <1>6, <1>7, <1>8, <2>1
  <2>2. CASE k # 1
    <3>1. k - 1 \in 1 .. Len(rs) /\ ns[k] = rs[k - 1]
      BY <1>1, <1>6, <2>2
    <3> QED
      BY <1>2, <1>8, <3>1
  <2> QED
    BY <2>1, <2>2
<1>10. ASSUME NEW p \in DOMAIN g
       PROVE  \E k \in 1 .. Len(ns) : ns[k].lo = p
  <2>1. CASE p = q
    BY <1>1, <1>6, <1>7, <2>1
  <2>2. CASE p # q
    <3>1. PICK j \in 1 .. Len(rs) : rs[j].lo = p
      BY <1>8, <2>2 DEF Listed
    <3>2. j + 1 \in 2 .. Len(rs) + 1 /\ (j + 1) - 1 = j
      BY <1>1
    <3>3. ns[j + 1] = rs[j] /\ j + 1 \in 1 .. Len(ns)
      BY <1>1, <1>6, <3>2
    <3> QED
      BY <3>1, <3>3
  <2> QED
    BY <2>1, <2>2
<1>11. ASSUME NEW j \in 1 .. Len(ns), NEW k \in 1 .. Len(ns), ns[j].lo = ns[k].lo
       PROVE  j = k
  <2>1. \A h \in 2 .. Len(ns) : h - 1 \in 1 .. Len(rs) /\ ns[h] = rs[h - 1] /\ ns[h].lo # q
    <3> SUFFICES ASSUME NEW h \in 2 .. Len(ns)
                 PROVE  h - 1 \in 1 .. Len(rs) /\ ns[h] = rs[h - 1] /\ ns[h].lo # q
      OBVIOUS
    <3>1. h - 1 \in 1 .. Len(rs) /\ ns[h] = rs[h - 1]
      BY <1>1, <1>6
    <3> QED
      BY <1>2, <1>8, <3>1
  <2>2. CASE j = 1 \/ k = 1
    <3>1. j \notin 2 .. Len(ns) /\ k \notin 2 .. Len(ns)
      BY <1>6, <1>7, <1>11, <2>1, <2>2
    <3> QED
      BY <1>1, <1>6, <3>1
  <2>3. CASE j # 1 /\ k # 1
    <3>1. j \in 2 .. Len(ns) /\ k \in 2 .. Len(ns)
      BY <1>1, <1>6, <2>3
    <3>2. /\ j - 1 \in 1 .. Len(rs) /\ k - 1 \in 1 .. Len(rs)
          /\ rs[j - 1].lo = rs[k - 1].lo
      BY <1>11, <2>1, <3>1
    <3>3. j - 1 = k - 1
      BY <3>2 DEF Listed
    <3> QED
      BY <1>1, <3>3
  <2> QED
    BY <2>2, <2>3
<1>12. Listed(ns, g)
  BY <1>6, <1>9, <1>10, <1>11 DEF Listed
<1> QED
  BY <1>5, <1>12 DEF g, q

\* A list that has one record for each block is what the driver should hold.
LEMMA ListedExact ==
    ASSUME NEW rs, NEW l, Listed(rs, l)
    PROVE  /\ {<<rs[k].lo, rs[k].hi>> : k \in DOMAIN rs}
                 = {<<p, p + l[p] - 1>> : p \in DOMAIN l}
           /\ Len(rs) = Cardinality(DOMAIN l)
<1> DEFINE f == [k \in 1 .. Len(rs) |-> rs[k].lo]
<1>1. DOMAIN rs = 1 .. Len(rs) /\ Len(rs) \in Nat
  BY LenProperties DEF Listed
<1>2. \A k \in DOMAIN rs : /\ rs[k].lo \in DOMAIN l
                           /\ <<rs[k].lo, rs[k].hi>>
                                 = <<rs[k].lo, rs[k].lo + l[rs[k].lo] - 1>>
  BY <1>1 DEF Listed
<1>3. \A p \in DOMAIN l : \E k \in DOMAIN rs :
          <<rs[k].lo, rs[k].hi>> = <<p, p + l[p] - 1>>
  BY <1>1 DEF Listed
<1>4. {<<rs[k].lo, rs[k].hi>> : k \in DOMAIN rs} = {<<p, p + l[p] - 1>> : p \in DOMAIN l}
  <2> DEFINE rec(k) == <<rs[k].lo, rs[k].hi>>
             blk(p) == <<p, p + l[p] - 1>>
  <2>1. \A k \in DOMAIN rs : \E p \in DOMAIN l : rec(k) = blk(p)
    BY <1>2
  <2>2. \A p \in DOMAIN l : \E k \in DOMAIN rs : rec(k) = blk(p)
    BY <1>3
  <2> HIDE DEF rec, blk
  <2>3. {rec(k) : k \in DOMAIN rs} = {blk(p) : p \in DOMAIN l}
    BY <2>1, <2>2
  <2> QED
    BY <2>3 DEF rec, blk
<1>5. f \in Bijection(1 .. Len(rs), DOMAIN l)
  <2>1. f \in [1 .. Len(rs) -> DOMAIN l]
    BY <1>1, <1>2
  <2>2. \A j, k \in 1 .. Len(rs) : f[j] = f[k] => j = k
    BY DEF Listed
  <2>3. \A p \in DOMAIN l : \E k \in 1 .. Len(rs) : f[k] = p
    BY DEF Listed
  <2> HIDE DEF f
  <2> QED
    BY <2>1, <2>2, <2>3 DEF Bijection, Injection, Surjection, IsInjective
<1>6. ExistsBijection(1 .. Len(rs), DOMAIN l)
  BY <1>5 DEF ExistsBijection
<1>7. \A S, n : n \in Nat /\ ExistsBijection(1 .. n, S) => Cardinality(S) = n
  BY FS_CountingElements
<1> QED
  BY <1>1, <1>4, <1>6, <1>7

-----------------------------------------------------------------------------
(* The inductive invariant.                                                *)

\* What the driver can rely on in a file that read_trace accepts.
Good(ops) ==
    /\ WellFormed(ops)
    /\ Len(ops) \in Nat /\ DOMAIN ops = 1 .. Len(ops)
    /\ \A k \in 1 .. Len(ops) : ops[k].type \in {ALLOC, REALLOC, FREE}

\* After n requests of any pass: the package holds what the trace holds, and the
\* break is where the requests alone have put it.
Replay(ops, n, bl, m, l) ==
    /\ HeapConsistent(m, l)
    /\ Holding(ops, n, bl, l)
    /\ m.brk = Cost(ops, n)

\* trace->block_sizes is right for the ids that are held.
Sized(ops, n, bs) ==
    \A x \in HeldIds(ops, n) : x \in DOMAIN bs /\ bs[x] = LastSize(ops, n, x)

\* A block that is held still has the fill of its id.
Filling(ops, n, bl, m) ==
    \A x \in HeldIds(ops, n) : \A j \in 0 .. LastSize(ops, n, x) - 1 :
        m.mem[bl[x] + j] = x % 256

\* No REALLOC so far has been misread.
ReadWell(ops, n) ==
    \A k \in 1 .. n : ops[k].type = REALLOC => ops[k].index % 256 < 128

\* hwm is the high-water mark of the bytes held so far.
Peak(ops, n, hwm) ==
    /\ \E k \in 0 .. n : hwm = LiveBytes(ops, k)
    /\ \A k \in 0 .. n : LiveBytes(ops, k) <= hwm

\* The traces that the driver finds valid: it reads a fill with its top bit set as a
\* negative char, and takes a realloc of such a block for a wrong one.
Passes(ops) == FitsArena(ops) /\ ~HighFill(ops)

Judgements == [valid : {FALSE}] \cup [valid : {TRUE}, hwm : Nat, heapsize : Nat]

Judged(ops, st) ==
    /\ Good(ops)
    /\ st.valid <=> Passes(ops)
    /\ st.valid => /\ st.hwm = PeakBytes(ops)
                   /\ st.heapsize = ChunkBytes(ops)
                   /\ st.hwm <= st.heapsize

Trace == files[i].ops

SettingInv ==
    /\ files \in FileLists
    /\ i \in 1 .. Len(files) + 1
    /\ NaiveInv
    /\ phase \in {"libc", "read", "valid", "util", "speed",
                  "done", "exit", "abort", "unix_error"}
    /\ phase = "abort" => i <= Len(files) /\ read_trace(files[i]) = "abort"

ReplayInv ==
    Evaluating => /\ i <= Len(files)
                  /\ Good(Trace) /\ files[i].num_ops = Len(Trace)
                  /\ op \in 1 .. Len(Trace) + 1
                  /\ Replay(Trace, op - 1, blocks, heap, live)

ValidInv ==
    phase = "valid" => /\ Sized(Trace, op - 1, block_sizes)
                       /\ Filling(Trace, op - 1, blocks, heap)
                       /\ ReadWell(Trace, op - 1)
                       /\ Listed(ranges, live)

UtilInv ==
    phase = "util" => /\ Sized(Trace, op - 1, block_sizes)
                      /\ total_size = LiveBytes(Trace, op - 1)
                      /\ total_size = SumFunction(live)
                      /\ total_size <= heap.brk
                      /\ Peak(Trace, op - 1, max_total_size)
                      /\ max_total_size <= heap.brk

PassedInv == phase \in {"util", "speed"} => Passes(Trace)

StatsInv ==
    /\ stats \in Seq(Judgements)
    /\ phase = "libc" => Len(stats) = 0
    /\ phase \in {"read", "valid", "util"} => Len(stats) = i - 1
    /\ phase = "speed" => Len(stats) = i
    /\ phase = "done" => Len(stats) = Len(files)
    /\ \A k \in 1 .. Len(stats) : Judged(files[k].ops, stats[k])
    /\ phase # "unix_error" =>
           errors = Cardinality({k \in DOMAIN stats : ~stats[k].valid})

ReportInv ==
    phase = "done" =>
        /\ report.numcorrect = Cardinality({k \in DOMAIN stats : stats[k].valid})
        /\ \A k \in 1 .. Len(stats) : report.perfindex[k] \in Scores(stats[k])

DriverInv ==
    /\ SettingInv /\ ReplayInv /\ ValidInv /\ UtilInv /\ PassedInv
    /\ StatsInv /\ ReportInv

-----------------------------------------------------------------------------
(* One request of a trace on the package, in any pass.                     *)

\* What a request of a good trace asks for.
LEMMA RequestIs ==
    ASSUME NEW ops, Good(ops), NEW n \in 1 .. Len(ops)
    PROVE  LET x == ops[n].index
               s == ops[n].size
           IN  /\ n \in Nat \ {0} /\ n - 1 \in 0 .. Len(ops) /\ n \in 0 .. Len(ops)
               /\ n \in DOMAIN ops
               /\ ops[n].type \in {ALLOC, REALLOC, FREE}
               /\ x \in Nat
               /\ ops[n].type # FREE =>
                      /\ s \in Nat \ {0} /\ s + 31 < INT_MOD \div 2
                      /\ Cost(ops, n) = Cost(ops, n - 1) + (RoundUp(s) + 16)
               /\ ops[n].type = FREE => Cost(ops, n) = Cost(ops, n - 1)
               /\ ops[n].type = ALLOC => x \notin HeldIds(ops, n - 1)
               /\ ops[n].type # ALLOC => x \in HeldIds(ops, n - 1)
<1>1. /\ n \in Nat \ {0} /\ n - 1 \in 0 .. Len(ops) /\ n \in 0 .. Len(ops)
      /\ n \in DOMAIN ops /\ ops[n].type \in {ALLOC, REALLOC, FREE}
  BY DEF Good
<1>2. ops[n].type # FREE => Cost(ops, n) = Cost(ops, n - 1) + (RoundUp(ops[n].size) + 16)
  BY CostSteps DEF Good, Chunk, SIZEOF_HEADER
<1>3. ops[n].type = FREE => Cost(ops, n) = Cost(ops, n - 1)
  BY CostSteps DEF Good
<1> QED
  BY <1>1, <1>2, <1>3 DEF Good, WellFormed

\* An ALLOC: a block at the break, or no room for it.
LEMMA AllocRequest ==
    ASSUME NEW ops, Good(ops), NEW n \in 1 .. Len(ops), ops[n].type = ALLOC,
           NEW bl, NEW m, NEW l, Replay(ops, n - 1, bl, m, l)
    PROVE  LET s == ops[n].size
               r == mm_malloc(m, s)
               q == m.brk + 16
           IN  /\ r.ok = TRUE
               /\ Cost(ops, n) > MAX_HEAP => r.ret = NULL /\ r.heap = m
               /\ ~(Cost(ops, n) > MAX_HEAP) =>
                      /\ r.ret = q /\ q # NULL
                      /\ Replay(ops, n, With(bl, ops[n].index, q), r.heap, With(l, q, s))
                      /\ SameBytes(m, r.heap, l, DOMAIN l)
                      /\ q \notin DOMAIN l
<1> DEFINE s == ops[n].size
           x == ops[n].index
           r == mm_malloc(m, s)
           q == m.brk + 16
           c == RoundUp(s) + 16
<1>1. /\ n \in Nat \ {0} /\ s \in Nat \ {0} /\ s + 31 < INT_MOD \div 2
      /\ Cost(ops, n) = Cost(ops, n - 1) + c
      /\ x \notin HeldIds(ops, n - 1) /\ ops[n].type # FREE
  BY RequestIs DEF ALLOC, FREE
<1>2. /\ HeapConsistent(m, l) /\ Holding(ops, n - 1, bl, l)
      /\ Cost(ops, n) = m.brk + c
  BY <1>1 DEF Replay
<1> HIDE DEF s
<1>3. /\ r.ok = TRUE
      /\ m.brk + c > MAX_HEAP => r.ret = NULL /\ r.heap = m
      /\ ~(m.brk + c > MAX_HEAP) =>
             /\ r.ret = q /\ q # NULL /\ q \notin DOMAIN l
             /\ r.heap.brk = m.brk + c
             /\ HeapConsistent(r.heap, With(l, q, s))
             /\ SameBytes(m, r.heap, l, DOMAIN l)
  BY <1>1, <1>2, MallocCall
<1>4. q \notin DOMAIN l => Holding(ops, n, With(bl, x, q), With(l, q, s))
  BY <1>1, <1>2, HoldAlloc DEF s
<1> HIDE DEF r, q, c, x
<1>5. /\ r.ok = TRUE
      /\ Cost(ops, n) > MAX_HEAP => r.ret = NULL /\ r.heap = m
      /\ ~(Cost(ops, n) > MAX_HEAP) =>
             /\ r.ret = q /\ q # NULL
             /\ Replay(ops, n, With(bl, x, q), r.heap, With(l, q, s))
             /\ SameBytes(m, r.heap, l, DOMAIN l)
             /\ q \notin DOMAIN l
  BY <1>2, <1>3, <1>4 DEF Replay
<1> QED
  BY <1>5 DEF r, q, s, x

\* A REALLOC: a new block with the bytes of the old one, or no room for it.
LEMMA ReallocRequest ==
    ASSUME NEW ops, Good(ops), NEW n \in 1 .. Len(ops), ops[n].type = REALLOC,
           NEW bl, NEW m, NEW l, Replay(ops, n - 1, bl, m, l)
    PROVE  LET s == ops[n].size
               p == bl[ops[n].index]
               r == mm_realloc(m, p, s)
               q == m.brk + 16
           IN  /\ p \in DOMAIN l
               /\ r.ok = TRUE
               /\ Cost(ops, n) > MAX_HEAP => r.ret = NULL /\ r.heap = m
               /\ ~(Cost(ops, n) > MAX_HEAP) =>
                      /\ r.ret = q /\ q # NULL
                      /\ Replay(ops, n, With(bl, ops[n].index, q), r.heap,
                                With(Without(l, p), q, s))
                      /\ SameBytes(m, r.heap, l, DOMAIN l \ {p})
                      /\ \A j \in 0 .. l[p] - 1 :
                             j < s => r.heap.mem[q + j] = m.mem[p + j]
                      /\ q \notin DOMAIN l
<1> DEFINE s == ops[n].size
           x == ops[n].index
           p == bl[x]
           r == mm_realloc(m, p, s)
           q == m.brk + 16
           c == RoundUp(s) + 16
<1>1. /\ n \in Nat \ {0} /\ s \in Nat \ {0} /\ s + 31 < INT_MOD \div 2
      /\ Cost(ops, n) = Cost(ops, n - 1) + c
      /\ x \in HeldIds(ops, n - 1) /\ ops[n].type # FREE
  BY RequestIs DEF ALLOC, REALLOC, FREE
<1>2. /\ HeapConsistent(m, l) /\ Holding(ops, n - 1, bl, l)
      /\ Cost(ops, n) = m.brk + c /\ p \in DOMAIN l
  BY <1>1 DEF Replay, Holding
<1>4. q \notin DOMAIN l => Holding(ops, n, With(bl, x, q), With(Without(l, p), q, s))
  BY <1>1, <1>2, HoldRealloc
<1> HIDE DEF s, p
<1>3. /\ r.ok = TRUE
      /\ m.brk + c > MAX_HEAP => r.ret = NULL /\ r.heap = m
      /\ ~(m.brk + c > MAX_HEAP) =>
             /\ r.ret = q /\ q # NULL /\ q \notin DOMAIN l
             /\ r.heap.brk = m.brk + c
             /\ HeapConsistent(r.heap, With(Without(l, p), q, s))
             /\ SameBytes(m, r.heap, l, DOMAIN l \ {p})
             /\ \A j \in 0 .. l[p] - 1 : j < s => r.heap.mem[q + j] = m.mem[p + j]
  <2> DEFINE Done(a, z) ==
        LET e == mm_realloc(m, a, z)
        IN  /\ e.ok = TRUE
            /\ m.brk + (RoundUp(z) + 16) > MAX_HEAP => e.ret = NULL /\ e.heap = m
            /\ ~(m.brk + (RoundUp(z) + 16) > MAX_HEAP) =>
                   /\ e.ret = q /\ q # NULL /\ q \notin DOMAIN l
                   /\ e.heap.brk = m.brk + (RoundUp(z) + 16)
                   /\ HeapConsistent(e.heap, With(Without(l, a), q, z))
                   /\ SameBytes(m, e.heap, l, DOMAIN l \ {a})
                   /\ \A j \in 0 .. l[a] - 1 : j < z => e.heap.mem[q + j] = m.mem[a + j]
  <2>1. \A a \in DOMAIN l : \A z \in Nat \ {0} : z + 31 < INT_MOD \div 2 => Done(a, z)
    BY <1>2, ReallocCall
  <2> HIDE DEF Done
  <2>2. Done(p, s)
    BY <1>1, <1>2, <2>1
  <2> QED
    BY <2>2 DEF Done
<1> HIDE DEF r, q, c, x
<1>5. /\ p \in DOMAIN l
      /\ r.ok = TRUE
      /\ Cost(ops, n) > MAX_HEAP => r.ret = NULL /\ r.heap = m
      /\ ~(Cost(ops, n) > MAX_HEAP) =>
             /\ r.ret = q /\ q # NULL
             /\ Replay(ops, n, With(bl, x, q), r.heap, With(Without(l, p), q, s))
             /\ SameBytes(m, r.heap, l, DOMAIN l \ {p})
             /\ \A j \in 0 .. l[p] - 1 : j < s => r.heap.mem[q + j] = m.mem[p + j]
             /\ q \notin DOMAIN l
  BY <1>2, <1>3, <1>4 DEF Replay
<1> QED
  BY <1>5 DEF r, q, s, x, p

\* A FREE never fails.
LEMMA FreeRequest ==
    ASSUME NEW ops, Good(ops), NEW n \in 1 .. Len(ops), ops[n].type = FREE,
           NEW bl, NEW m, NEW l, Replay(ops, n - 1, bl, m, l)
    PROVE  LET p == bl[ops[n].index]
               r == mm_free(m, p)
           IN  /\ p \in DOMAIN l
               /\ r.ok = TRUE
               /\ Replay(ops, n, bl, r.heap, Without(l, p))
               /\ SameBytes(m, r.heap, l, DOMAIN l)
<1> DEFINE x == ops[n].index
           p == bl[x]
           r == mm_free(m, p)
<1>1. /\ n \in Nat \ {0} /\ Cost(ops, n) = Cost(ops, n - 1) /\ x \in HeldIds(ops, n - 1)
  BY RequestIs DEF ALLOC, FREE
<1>2. /\ HeapConsistent(m, l) /\ Holding(ops, n - 1, bl, l) /\ p \in DOMAIN l
      /\ m.brk = Cost(ops, n - 1)
  BY <1>1 DEF Replay, Holding
<1>3. Holding(ops, n, bl, Without(l, p))
  BY <1>1, <1>2, HoldFree
<1> HIDE DEF p
<1>4. /\ r.ok = TRUE /\ r.heap.brk = m.brk
      /\ HeapConsistent(r.heap, Without(l, p))
      /\ SameBytes(m, r.heap, l, DOMAIN l)
  BY <1>2, FreeCall
<1> HIDE DEF r, x
<1>5. Replay(ops, n, bl, r.heap, Without(l, p))
  BY <1>1, <1>2, <1>3, <1>4 DEF Replay
<1> QED
  BY <1>2, <1>4, <1>5 DEF r, x, p

-----------------------------------------------------------------------------
(* What eval_mm_valid and eval_mm_util keep besides the blocks.            *)

\* trace->block_sizes after a request.
LEMMA SizedStep ==
    ASSUME NEW ops, Good(ops), NEW n \in 1 .. Len(ops), NEW bs, Sized(ops, n - 1, bs)
    PROVE  /\ ops[n].type # FREE => Sized(ops, n, With(bs, ops[n].index, ops[n].size))
           /\ ops[n].type = FREE => Sized(ops, n, bs)
<1> DEFINE x == ops[n].index
           ns == With(bs, x, ops[n].size)
<1>1. n \in Nat \ {0}
  OBVIOUS
<1>2. /\ ops[n].type # FREE => /\ HeldIds(ops, n) = HeldIds(ops, n - 1) \cup {x}
                               /\ LastSize(ops, n, x) = ops[n].size
      /\ ops[n].type = FREE => HeldIds(ops, n) = HeldIds(ops, n - 1) \ {x}
      /\ \A y : y # x => LastSize(ops, n, y) = LastSize(ops, n - 1, y)
  BY <1>1, HeldStep
<1>3. /\ DOMAIN ns = DOMAIN bs \cup {x} /\ ns[x] = ops[n].size
      /\ \A y \in DOMAIN bs : y # x => ns[y] = bs[y]
  BY DEF With
<1> HIDE DEF x, ns
<1>4. ops[n].type # FREE => Sized(ops, n, ns)
  BY <1>2, <1>3 DEF Sized
<1>5. ops[n].type = FREE => Sized(ops, n, bs)
  BY <1>2 DEF Sized
<1> QED
  BY <1>4, <1>5 DEF x, ns

\* The driver fills the block q that an ALLOC or a REALLOC has given it, and no
\* other block loses its fill: not to the call, which has kept the bytes of the
\* blocks of B, nor to the fill.
LEMMA FillRequest ==
    ASSUME NEW ops, Good(ops), NEW n \in 1 .. Len(ops), ops[n].type # FREE,
           NEW bl, NEW m, NEW l, Holding(ops, n - 1, bl, l),
           Filling(ops, n - 1, bl, m),
           NEW q, NEW g, NEW k, Replay(ops, n, With(bl, ops[n].index, q), g, k),
           NEW B, SameBytes(m, g, l, B),
           \A y \in HeldIds(ops, n - 1) : y # ops[n].index => bl[y] \in B
    PROVE  LET f == Fill(g, q, ops[n].index % 256, ops[n].size)
               nb == With(bl, ops[n].index, q)
           IN  Replay(ops, n, nb, f, k) /\ Filling(ops, n, nb, f)
<1> DEFINE x == ops[n].index
           s == ops[n].size
           nb == With(bl, x, q)
           v == x % 256
           f == Fill(g, q, v, s)
<1>1. /\ n \in Nat \ {0} /\ x \in Nat /\ v \in Int
      /\ HeldIds(ops, n) = HeldIds(ops, n - 1) \cup {x}
      /\ LastSize(ops, n, x) = s
      /\ \A y : y # x => LastSize(ops, n, y) = LastSize(ops, n - 1, y)
  BY RequestIs, HeldStep
<1>2. /\ nb[x] = q /\ \A y \in HeldIds(ops, n - 1) : y # x => nb[y] = bl[y]
  BY DEF With, Holding
<1>3. /\ HeapConsistent(g, k) /\ Holding(ops, n, nb, k) /\ g.brk = Cost(ops, n)
  BY DEF Replay
<1>4. q \in DOMAIN k /\ k[q] = s
  BY <1>1, <1>2, <1>3 DEF Holding
<1> HIDE DEF v, s
<1>5. /\ f.brk = g.brk /\ HeapConsistent(f, k)
      /\ \A j \in 0 .. k[q] - 1 : f.mem[q + j] = v
      /\ SameBytes(g, f, k, DOMAIN k \ {q})
  <2>1. k[q] = s /\ q \in DOMAIN k /\ v \in Int
    BY <1>1, <1>4
  <2> QED
    BY <1>3, <2>1, FillCall
<1> HIDE DEF f, nb, x
<1>6. Replay(ops, n, nb, f, k)
  BY <1>3, <1>5 DEF Replay
<1>7. ASSUME NEW y \in HeldIds(ops, n), NEW j \in 0 .. LastSize(ops, n, y) - 1
      PROVE  f.mem[nb[y] + j] = y % 256
  <2>1. CASE y = x
    <3>1. j \in 0 .. k[q] - 1
      BY <1>1, <1>4, <2>1
    <3> QED
      BY <1>2, <1>5, <2>1, <3>1 DEF v
  <2>2. CASE y # x
    <3>1. /\ y \in HeldIds(ops, n - 1) /\ nb[y] = bl[y]
          /\ LastSize(ops, n, y) = LastSize(ops, n - 1, y)
      BY <1>1, <1>2, <2>2
    <3>2. nb[y] \in DOMAIN k /\ nb[y] # q /\ k[nb[y]] = LastSize(ops, n, y)
      BY <1>1, <1>2, <1>3, <2>2 DEF Holding
    <3>3. f.mem[nb[y] + j] = g.mem[nb[y] + j]
      BY <1>5, <3>2 DEF SameBytes
    <3>4. bl[y] \in B /\ l[bl[y]] = LastSize(ops, n - 1, y)
      BY <2>2, <3>1 DEF Holding, x
    <3>5. g.mem[bl[y] + j] = m.mem[bl[y] + j]
      BY <3>1, <3>4 DEF SameBytes
    <3>6. m.mem[bl[y] + j] = y % 256
      BY <3>1 DEF Filling
    <3> QED
      BY <3>1, <3>3, <3>5, <3>6
  <2> QED
    BY <2>1, <2>2
<1>8. Filling(ops, n, nb, f)
  BY <1>7 DEF Filling
<1> QED
  BY <1>6, <1>8 DEF f, nb, x, v, s

\* A free clears a header and no fill.
LEMMA FillFree ==
    ASSUME NEW ops, Good(ops), NEW n \in 1 .. Len(ops), ops[n].type = FREE,
           NEW bl, NEW m, NEW l, Holding(ops, n - 1, bl, l),
           Filling(ops, n - 1, bl, m), NEW g, SameBytes(m, g, l, DOMAIN l)
    PROVE  Filling(ops, n, bl, g)
<1> SUFFICES ASSUME NEW y \in HeldIds(ops, n), NEW j \in 0 .. LastSize(ops, n, y) - 1
             PROVE  g.mem[bl[y] + j] = y % 256
  BY DEF Filling
<1>1. n \in Nat \ {0}
  OBVIOUS
<1>2. y \in HeldIds(ops, n - 1) /\ LastSize(ops, n, y) = LastSize(ops, n - 1, y)
  BY <1>1, HeldStep
<1>3. bl[y] \in DOMAIN l /\ l[bl[y]] = LastSize(ops, n - 1, y)
  BY <1>2 DEF Holding
<1>4. g.mem[bl[y] + j] = m.mem[bl[y] + j]
  BY <1>2, <1>3 DEF SameBytes
<1>5. m.mem[bl[y] + j] = y % 256
  BY <1>2 DEF Filling
<1> QED
  BY <1>4, <1>5

\* The check of a REALLOC reads a correct fill as wrong exactly when its top bit
\* is set: at least one byte is compared.
LEMMA FillRead ==
    ASSUME NEW g, NEW q \in Int, NEW x \in Nat, NEW c \in Nat \ {0},
           \A j \in 0 .. c - 1 : g.mem[q + j] = x % 256
    PROVE  Preserved(g, q, c, x) <=> x % 256 < 128
<1>1. x % 256 \in 0 .. 255
  OBVIOUS
<1>2. \A j \in 0 .. c - 1 : SignedChar(g.mem[q + j]) = SignedChar(x % 256)
  OBVIOUS
<1>3. SignedChar(x % 256) = x % 256 <=> x % 256 < 128
  BY <1>1 DEF SignedChar
<1>4. 0 \in 0 .. c - 1
  OBVIOUS
<1> QED
  BY <1>2, <1>3, <1>4 DEF Preserved

\* The blocks that are out are finitely many, and so is the sum of their sizes.
LEMMA LiveFinite ==
    ASSUME NEW m, NEW l, HeapConsistent(m, l)
    PROVE  IsFiniteSet(DOMAIN l)
<1>1. /\ m.brk \in 0 .. MAX_HEAP /\ MAX_HEAP \in Nat
      /\ \A b \in DOMAIN l : b \in Int /\ l[b] \in Nat /\ b >= 16 /\ b + l[b] <= m.brk
  BY Places
<1>2. DOMAIN l \subseteq 0 .. MAX_HEAP
  BY <1>1
<1>3. IsFiniteSet(0 .. MAX_HEAP)
  BY <1>1, FS_Interval
<1> QED
  BY <1>2, <1>3, FS_Subset

\* The bytes held after a block is taken away,
LEMMA SumWithout ==
    ASSUME NEW l, IsFiniteSet(DOMAIN l), \A p \in DOMAIN l : l[p] \in Nat,
           NEW p \in DOMAIN l
    PROVE  SumFunction(Without(l, p)) = SumFunction(l) - l[p]
<1> DEFINE g == Without(l, p)
           R == DOMAIN l \ {p}
<1>1. DOMAIN g = R /\ \A q \in R : g[q] = l[q]
  BY DEF Without
<1>2. IsFiniteSet(R)
  BY FS_Subset
<1> HIDE DEF g, R
<1>3. SumFunctionOnSet(g, R) = SumFunctionOnSet(l, R)
  BY <1>1, <1>2, SumCongruence
<1>4. SumFunctionOnSet(l, DOMAIN l) = l[p] + SumFunctionOnSet(l, R)
  <2>1. \A x \in DOMAIN l : l[x] \in Int
    OBVIOUS
  <2> QED
    BY <2>1, SumRemove DEF R
<1>5. SumFunctionOnSet(l, R) \in Nat
  <2>1. \A x \in R : l[x] \in Nat
    BY DEF R
  <2> QED
    BY <1>2, <2>1, SumNat
<1>6. SumFunction(g) = SumFunction(l) - l[p]
  BY <1>1, <1>3, <1>4, <1>5 DEF SumFunction
<1> QED
  BY <1>6 DEF g

\* and after one is added.
LEMMA SumWith ==
    ASSUME NEW l, IsFiniteSet(DOMAIN l), \A p \in DOMAIN l : l[p] \in Nat,
           NEW q, q \notin DOMAIN l, NEW s \in Nat
    PROVE  SumFunction(With(l, q, s)) = SumFunction(l) + s
<1> DEFINE g == With(l, q, s)
           K == DOMAIN l \cup {q}
<1>1. /\ DOMAIN g = K /\ g[q] = s /\ K \ {q} = DOMAIN l /\ q \in K
      /\ \A p \in DOMAIN l : g[p] = l[p]
  BY DEF With
<1>2. IsFiniteSet(K)
  BY FS_AddElement
<1> HIDE DEF g, K
<1>3. \A x \in K : g[x] \in Int
  BY <1>1 DEF K
<1>4. SumFunctionOnSet(g, K) = s + SumFunctionOnSet(g, DOMAIN l)
  BY <1>1, <1>2, <1>3, SumRemove
<1>5. SumFunctionOnSet(g, DOMAIN l) = SumFunctionOnSet(l, DOMAIN l)
  BY <1>1, SumCongruence
<1>6. SumFunctionOnSet(l, DOMAIN l) \in Nat
  BY SumNat
<1>7. SumFunction(g) = SumFunction(l) + s
  BY <1>1, <1>4, <1>5, <1>6 DEF SumFunction
<1> QED
  BY <1>7 DEF g

\* eval_mm_util's total and high-water mark after a request; neither is ever more
\* than the heap, since a block is smaller than its chunk.
LEMMA PeakStep ==
    ASSUME NEW ops, Good(ops), NEW n \in 1 .. Len(ops), NEW h,
           LiveBytes(ops, n - 1) <= Cost(ops, n - 1),
           Peak(ops, n - 1, h), h <= Cost(ops, n - 1)
    PROVE  LET t == LiveBytes(ops, n)
           IN  /\ t \in Nat /\ h \in Nat
               /\ t <= Cost(ops, n) /\ h <= Cost(ops, n)
               /\ Peak(ops, n, Max({t, h})) /\ Max({t, h}) <= Cost(ops, n)
               /\ ops[n].type = FREE => Peak(ops, n, h)
<1> DEFINE t == LiveBytes(ops, n)
           o == LiveBytes(ops, n - 1)
           x == ops[n].index
           s == ops[n].size
           c == RoundUp(s) + 16
<1>1. /\ n \in Nat \ {0} /\ n - 1 \in 0 .. Len(ops) /\ n \in 0 .. Len(ops)
      /\ ops[n].type \in {ALLOC, REALLOC, FREE}
      /\ ops[n].type # FREE => s \in Nat \ {0} /\ Cost(ops, n) = Cost(ops, n - 1) + c
      /\ ops[n].type = FREE => Cost(ops, n) = Cost(ops, n - 1)
      /\ ops[n].type # ALLOC => x \in HeldIds(ops, n - 1)
  BY RequestIs
<1>2. t \in Nat /\ o \in Nat /\ \A k \in 0 .. n - 1 : LiveBytes(ops, k) \in Nat
  BY <1>1, LiveBytesSteps DEF Good
<1>3. Cost(ops, n) \in Nat /\ Cost(ops, n - 1) \in Nat
  BY <1>1, CostSteps DEF Good
<1>4. h \in Nat /\ o <= h
  BY <1>1, <1>2 DEF Peak
<1>5. ops[n].type # FREE => s <= c /\ c \in Nat
  <2> HIDE DEF s
  <2>1. ASSUME ops[n].type # FREE PROVE RoundUp(s) \in Nat /\ s <= RoundUp(s) /\ s \in Nat
    BY <1>1, <2>1, RoundUpBounds
  <2> QED
    BY <2>1
<1>6. ops[n].type # ALLOC => LastSize(ops, n - 1, x) \in Nat
  BY <1>1, HeldSize DEF Good
<1>7. /\ ops[n].type = ALLOC => t = o + s
      /\ ops[n].type = REALLOC => t = o + (s - LastSize(ops, n - 1, x))
      /\ ops[n].type = FREE => t = o - LastSize(ops, n - 1, x)
  BY LiveBytesSteps DEF Good
<1> HIDE DEF t, o, x, s, c
<1>8. t <= Cost(ops, n) /\ h <= Cost(ops, n) /\ (ops[n].type = FREE => t <= o)
  <2>1. o <= Cost(ops, n - 1) /\ h <= Cost(ops, n - 1)
    BY DEF o
  <2>2. CASE ops[n].type = ALLOC
    BY <1>1, <1>2, <1>3, <1>4, <1>5, <1>7, <2>1, <2>2 DEF ALLOC, FREE
  <2>3. CASE ops[n].type = REALLOC
    BY <1>1, <1>2, <1>3, <1>4, <1>5, <1>6, <1>7, <2>1, <2>3 DEF ALLOC, REALLOC, FREE
  <2>4. CASE ops[n].type = FREE
    BY <1>1, <1>2, <1>3, <1>4, <1>6, <1>7, <2>1, <2>4 DEF ALLOC, FREE
  <2> QED
    BY <1>1, <2>2, <2>3, <2>4
<1>9. Max({t, h}) \in {t, h} /\ t <= Max({t, h}) /\ h <= Max({t, h})
  <2> DEFINE S == {t, h}
  <2>0. S \subseteq Int /\ t \in S /\ h \in S
    BY <1>2, <1>4
  <2>1. CASE t <= h
    <3>1. Max(S) = h
      <4>1. \A y \in S : y <= h
        BY <1>2, <1>4, <2>1
      <4> HIDE DEF S
      <4> QED
        BY <2>0, <4>1, MaxIs
    <3> QED
      BY <1>2, <1>4, <2>1, <3>1
  <2>2. CASE ~(t <= h)
    <3>1. Max(S) = t
      <4>1. \A y \in S : y <= t
        BY <1>2, <1>4, <2>2
      <4> HIDE DEF S
      <4> QED
        BY <2>0, <4>1, MaxIs
    <3> QED
      BY <1>2, <1>4, <2>2, <3>1
  <2> QED
    BY <2>1, <2>2
<1> DEFINE w == Max({t, h})
<1>10. w \in Nat /\ w \in {t, h} /\ t <= w /\ h <= w
  BY <1>2, <1>4, <1>9
<1> HIDE DEF w
<1>11. Peak(ops, n, w) /\ w <= Cost(ops, n)
  <2>1. \E k \in 0 .. n : w = LiveBytes(ops, k)
    BY <1>1, <1>10 DEF Peak, t
  <2>2. \A k \in 0 .. n : LiveBytes(ops, k) <= w
    <3> SUFFICES ASSUME NEW k \in 0 .. n PROVE LiveBytes(ops, k) <= w
      OBVIOUS
    <3>1. CASE k = n
      BY <1>10, <3>1 DEF t
    <3>2. CASE k # n
      <4>1. k \in 0 .. n - 1
        BY <1>1, <3>2
      <4>2. LiveBytes(ops, k) <= h /\ LiveBytes(ops, k) \in Nat
        BY <1>2, <4>1 DEF Peak
      <4> QED
        BY <1>4, <1>10, <4>2
    <3> QED
      BY <3>1, <3>2
  <2> QED
    BY <1>8, <1>10, <2>1, <2>2 DEF Peak
<1>12. ops[n].type = FREE => Peak(ops, n, h)
  <2> SUFFICES ASSUME ops[n].type = FREE PROVE Peak(ops, n, h)
    OBVIOUS
  <2>1. w = h
    <3>1. t <= h
      BY <1>2, <1>4, <1>8
    <3> QED
      BY <1>2, <1>4, <1>10, <3>1
  <2> QED
    BY <1>11, <2>1
<1> QED
  BY <1>2, <1>4, <1>8, <1>11, <1>12 DEF t, w

-----------------------------------------------------------------------------
(* The steps of main around the passes.                                    *)

\* What read_trace says, and what the driver can rely on when it accepts.
LEMMA ReadTraceSays ==
    ASSUME NEW f
    PROVE  read_trace(f) \in {"ok", "exit", "abort"}
BY DEF read_trace

\* A file that read_trace accepts declares as many requests as it has.
LEMMA ReadTraceOk ==
    ASSUME WellFormedFiles, NEW list \in FileLists, NEW k \in 1 .. Len(list),
           read_trace(list[k]) = "ok"
    PROVE  Good(list[k].ops) /\ list[k].num_ops = Len(list[k].ops)
<1> DEFINE f == list[k]
<1>1. /\ DOMAIN list = 1 .. Len(list)
      /\ \A j \in DOMAIN list : Len(list[j].ops) \in Nat /\ DOMAIN list[j].ops = 1 .. Len(list[j].ops)
  BY MDriverAssumption
<1>2. Len(f.ops) \in Nat /\ DOMAIN f.ops = 1 .. Len(f.ops)
  BY <1>1
<1>3. WellFormed(f.ops)
  BY <1>1 DEF WellFormedFiles
<1>4. /\ \A j \in DOMAIN f.ops : f.ops[j].type \in {ALLOC, REALLOC, FREE}
      /\ f.num_ops = Len(f.ops)
  BY DEF read_trace
<1> QED
  BY <1>2, <1>3, <1>4 DEF Good

\* A judgement is added.
LEMMA AddJudgement ==
    ASSUME NEW st \in Seq(Judgements), NEW e \in Judgements
    PROVE  LET ns == Append(st, e)
               bad(t) == {k \in DOMAIN t : ~t[k].valid}
           IN  /\ ns \in Seq(Judgements)
               /\ Len(st) \in Nat /\ Len(ns) = Len(st) + 1
               /\ \A k \in 1 .. Len(st) : ns[k] = st[k]
               /\ ns[Len(st) + 1] = e
               /\ e.valid => Cardinality(bad(ns)) = Cardinality(bad(st))
               /\ ~e.valid => Cardinality(bad(ns)) = Cardinality(bad(st)) + 1
<1> DEFINE ns == Append(st, e)
           bad(t) == {k \in DOMAIN t : ~t[k].valid}
<1>1. /\ ns \in Seq(Judgements) /\ Len(ns) = Len(st) + 1
      /\ \A k \in 1 .. Len(st) : ns[k] = st[k]
      /\ ns[Len(st) + 1] = e
  BY AppendProperties
<1>2. /\ Len(st) \in Nat /\ DOMAIN st = 1 .. Len(st)
      /\ DOMAIN ns = 1 .. Len(st) + 1
  BY <1>1, LenProperties
<1> HIDE DEF ns
<1>3. e.valid => bad(ns) = bad(st)
  BY <1>1, <1>2
<1>4. ~e.valid => bad(ns) = bad(st) \cup {Len(st) + 1}
  BY <1>1, <1>2
<1>5. IsFiniteSet(bad(st)) /\ Len(st) + 1 \notin bad(st)
  <2>1. IsFiniteSet(DOMAIN st)
    BY <1>2, FS_Interval
  <2>2. bad(st) \subseteq DOMAIN st
    OBVIOUS
  <2> QED
    BY <1>2, <2>1, <2>2, FS_Subset
<1> HIDE DEF bad
<1>6. Cardinality(bad(st) \cup {Len(st) + 1}) = Cardinality(bad(st)) + 1
  BY <1>5, FS_AddElement
<1> QED
  BY <1>1, <1>2, <1>3, <1>4, <1>6 DEF ns, bad

\* main, before the first file.
LEMMA DriverStarts == DriverInit => DriverInv
<1> SUFFICES ASSUME DriverInit PROVE DriverInv
  OBVIOUS
<1>1. NaiveInv
  BY InitInv DEF DriverInit
<1>2. /\ files \in FileLists /\ phase = "libc" /\ i = 1 /\ errors = 0 /\ stats = <<>>
      /\ Len(files) \in Nat
  BY MDriverAssumption DEF DriverInit
<1>3. SettingInv
  BY <1>1, <1>2 DEF SettingInv
<1>4. StatsInv
  <2>1. stats \in Seq(Judgements) /\ Len(stats) = 0 /\ DOMAIN stats = {}
    BY <1>2
  <2>2. {k \in DOMAIN stats : ~stats[k].valid} = {}
    BY <2>1
  <2>3. Cardinality({k \in DOMAIN stats : ~stats[k].valid}) = 0
    BY <2>2, FS_EmptySet
  <2> QED
    BY <1>2, <2>1, <2>3 DEF StatsInv
<1> QED
  BY <1>2, <1>3, <1>4
     DEF DriverInv, ReplayInv, ValidInv, UtilInv, PassedInv, ReportInv, Evaluating

\* The steps that only move main on.
LEMMA MainSteps ==
    ASSUME DriverInv, EvalLibc \/ LibcFails \/ LibcDone \/ BadFile
    PROVE  DriverInv'
<1>1. /\ UNCHANGED <<heap, live, aborted, files, stats>>
      /\ phase \in {"libc", "read"}
      /\ phase' \in {"libc", "read", "unix_error", "exit", "abort"}
      /\ phase' = "libc" => phase = "libc"
      /\ phase' = "read" => phase = "libc" /\ i' = 1
      /\ phase' # "unix_error" => errors' = errors
  <2>1. CASE EvalLibc
    BY <2>1 DEF EvalLibc, package
  <2>2. CASE LibcFails
    BY <2>2 DEF LibcFails, package
  <2>3. CASE LibcDone
    BY <2>3 DEF LibcDone, package
  <2>4. CASE BadFile
    <3>1. read_trace(files[i]) \in {"exit", "abort"}
      BY <2>4, ReadTraceSays DEF BadFile
    <3> QED
      BY <2>4, <3>1 DEF BadFile, Stop, package
  <2> QED
    BY <2>1, <2>2, <2>3, <2>4
<1>2. /\ i' \in 1 .. Len(files) + 1
      /\ phase' = "abort" => i' <= Len(files) /\ read_trace(files[i']) = "abort"
  <2>1. i \in 1 .. Len(files) + 1 /\ Len(files) \in Nat
    BY MDriverAssumption DEF DriverInv, SettingInv
  <2>2. CASE EvalLibc
    BY <2>1, <2>2 DEF EvalLibc
  <2>3. CASE LibcFails
    BY <2>1, <2>3 DEF LibcFails
  <2>4. CASE LibcDone
    BY <2>1, <2>4 DEF LibcDone
  <2>5. CASE BadFile
    BY <2>1, <2>5 DEF BadFile, Stop
  <2> QED
    BY <2>2, <2>3, <2>4, <2>5
<1>3. SettingInv'
  BY <1>1, <1>2 DEF DriverInv, SettingInv, NaiveInv, AssertsHold
<1>4. StatsInv'
  BY <1>1 DEF DriverInv, StatsInv
<1> QED
  BY <1>1, <1>3, <1>4
     DEF DriverInv, ReplayInv, ValidInv, UtilInv, PassedInv, ReportInv, Evaluating

\* A pass starts: nothing is held, and the heap is empty.
LEMMA PassStarts ==
    ASSUME NaiveInv, ResetPackage, NEW ops, Good(ops), NEW bl
    PROVE  NaiveInv' /\ Replay(ops, 0, bl, heap', live') /\ heap'.brk = 0 /\ live' = Empty
<1>1. Reset
  BY DEF ResetPackage, Reset, Empty
<1>2. NaiveInv'
  BY <1>1, ResetStep
<1>3. heap'.brk = 0 /\ live' = Empty
  BY DEF ResetPackage, EmptyHeap, mem_reset_brk
<1>4. Cost(ops, 0) = 0
  BY CostSteps DEF Good
<1>5. HeapConsistent(heap', live')
  BY <1>2 DEF NaiveInv
<1> QED
  BY <1>2, <1>3, <1>4, <1>5, HoldNothing DEF Replay

\* eval_mm_valid starts.
LEMMA ReadTraceStep ==
    ASSUME WellFormedFiles, DriverInv, ReadTrace
    PROVE  DriverInv'
<1>1. /\ files \in FileLists /\ i \in 1 .. Len(files) + 1 /\ Len(files) \in Nat
      /\ NaiveInv /\ phase = "read" /\ i <= Len(files)
      /\ read_trace(files[i]) = "ok"
  BY MDriverAssumption DEF DriverInv, SettingInv, ReadTrace
<1>2. Good(Trace) /\ files[i].num_ops = Len(Trace) /\ Len(Trace) \in Nat
  BY <1>1, ReadTraceOk DEF Trace, Good
<1>3. /\ UNCHANGED <<files, i, errors, stats>> /\ phase' = "valid" /\ op' = 1
      /\ ranges' = clear_ranges /\ ResetPackage /\ Trace' = Trace
  BY DEF ReadTrace, Trace
<1>4. /\ NaiveInv' /\ Replay(Trace, 0, blocks', heap', live') /\ live' = Empty
  BY <1>1, <1>2, <1>3, PassStarts
<1>5. op' - 1 = 0 /\ op' \in 1 .. Len(Trace) + 1
  BY <1>2, <1>3
<1>6. SettingInv'
  BY <1>1, <1>3, <1>4 DEF SettingInv
<1>7. ReplayInv'
  BY <1>1, <1>2, <1>3, <1>4, <1>5 DEF ReplayInv, Trace
<1>8. ValidInv'
  <2>1. Listed(ranges', live')
    BY <1>3, <1>4, ListNothing
  <2>2. Sized(Trace', 0, block_sizes') /\ Filling(Trace', 0, blocks', heap')
    BY HeldNone DEF Sized, Filling
  <2>3. ReadWell(Trace', 0)
    BY DEF ReadWell
  <2> QED
    BY <1>5, <2>1, <2>2, <2>3 DEF ValidInv
<1>9. StatsInv'
  BY <1>1, <1>3 DEF DriverInv, StatsInv
<1> QED
  BY <1>3, <1>6, <1>7, <1>8, <1>9 DEF DriverInv, UtilInv, PassedInv, ReportInv

\* A trace that eval_mm_valid has got through passes.
LEMMA EndPasses ==
    ASSUME NEW ops, Good(ops), ReadWell(ops, Len(ops)), Cost(ops, Len(ops)) <= MAX_HEAP
    PROVE  Passes(ops)
<1>1. ChunkBytes(ops) <= MAX_HEAP
  BY CostSteps DEF Good
<1>2. ~HighFill(ops)
  <2> SUFFICES ASSUME NEW k \in DOMAIN ops, ops[k].type = REALLOC, ops[k].index % 256 >= 128
               PROVE  FALSE
    BY DEF HighFill
  <2>1. k \in 1 .. Len(ops)
    BY DEF Good
  <2>2. ops[k].index \in Nat
    BY <2>1, RequestIs
  <2>3. ops[k].index % 256 < 128
    BY <2>1 DEF ReadWell
  <2>4. ops[k].index % 256 \in Nat
    BY <2>2
  <2> QED
    BY <2>3, <2>4
<1> QED
  BY <1>1, <1>2 DEF Passes, FitsArena

\* eval_mm_util starts.
LEMMA ValidDoneStep ==
    ASSUME DriverInv, ValidDone
    PROVE  DriverInv'
<1>1. /\ NaiveInv /\ phase = "valid" /\ Evaluating /\ i <= Len(files)
      /\ Good(Trace) /\ files[i].num_ops = Len(Trace) /\ Len(Trace) \in Nat
      /\ op \in 1 .. Len(Trace) + 1 /\ op > Len(Trace)
      /\ Replay(Trace, op - 1, blocks, heap, live) /\ ReadWell(Trace, op - 1)
  BY DEF DriverInv, SettingInv, ReplayInv, ValidInv, ValidDone, AtEnd, Evaluating, Good
<1>2. op - 1 = Len(Trace)
  BY <1>1
<1>3. Passes(Trace)
  <2>1. heap.brk <= MAX_HEAP /\ heap.brk = Cost(Trace, Len(Trace))
    BY <1>1, <1>2, Places, MemLibAssumption DEF Replay
  <2> QED
    BY <1>1, <1>2, <2>1, EndPasses
<1>4. /\ UNCHANGED <<files, i, errors, stats>> /\ phase' = "util" /\ op' = 1
      /\ total_size' = 0 /\ max_total_size' = 0 /\ ResetPackage /\ Trace' = Trace
  BY DEF ValidDone, Trace
<1>5. /\ NaiveInv' /\ Replay(Trace, 0, blocks', heap', live') /\ live' = Empty /\ heap'.brk = 0
  BY <1>1, <1>4, PassStarts
<1>6. op' - 1 = 0 /\ op' \in 1 .. Len(Trace) + 1
  BY <1>1, <1>4
<1>7. SettingInv'
  BY <1>4, <1>5 DEF DriverInv, SettingInv
<1>8. ReplayInv'
  BY <1>1, <1>4, <1>5, <1>6 DEF ReplayInv, Trace
<1>9. UtilInv'
  <2>1. Sized(Trace', 0, block_sizes')
    BY HeldNone DEF Sized
  <2>2. LiveBytes(Trace', 0) = 0
    BY <1>1, <1>4, LiveBytesSteps DEF Good
  <2>3. Peak(Trace', 0, 0)
    BY <2>2 DEF Peak
  <2>4. SumFunction(live') = 0
    BY <1>5, SumEmpty DEF SumFunction, Empty
  <2> QED
    BY <1>4, <1>5, <1>6, <2>1, <2>2, <2>3, <2>4 DEF UtilInv
<1>10. StatsInv'
  BY <1>1, <1>4 DEF DriverInv, StatsInv
<1>11. PassedInv'
  BY <1>3, <1>4 DEF PassedInv
<1> QED
  BY <1>4, <1>7, <1>8, <1>9, <1>10, <1>11 DEF DriverInv, ValidInv, ReportInv

\* The high-water mark of a whole trace.
LEMMA PeakIs ==
    ASSUME NEW ops, Good(ops), NEW h, Peak(ops, Len(ops), h)
    PROVE  h = PeakBytes(ops) /\ h \in Nat
<1> DEFINE S == {LiveBytes(ops, n) : n \in 0 .. Len(ops)}
<1>1. \A n \in 0 .. Len(ops) : LiveBytes(ops, n) \in Nat
  BY LiveBytesSteps DEF Good
<1>2. S \subseteq Int /\ h \in S /\ \A y \in S : y <= h
  BY <1>1 DEF Peak
<1>3. h \in Nat
  BY <1>1 DEF Peak
<1> HIDE DEF S
<1>4. Max(S) = h
  BY <1>2, MaxIs
<1> QED
  BY <1>3, <1>4 DEF PeakBytes, S

\* The utilisation goes to the statistics, and eval_mm_speed starts.
LEMMA UtilDoneStep ==
    ASSUME DriverInv, UtilDone
    PROVE  DriverInv'
<1> DEFINE e == [valid |-> TRUE, hwm |-> max_total_size, heapsize |-> mem_heapsize(heap.brk)]
<1>1. /\ NaiveInv /\ phase = "util" /\ Evaluating /\ i <= Len(files)
      /\ i \in 1 .. Len(files) + 1
      /\ Good(Trace) /\ files[i].num_ops = Len(Trace) /\ Len(Trace) \in Nat
      /\ op \in 1 .. Len(Trace) + 1 /\ op > Len(Trace)
      /\ Replay(Trace, op - 1, blocks, heap, live)
      /\ Peak(Trace, op - 1, max_total_size) /\ max_total_size <= heap.brk
      /\ Passes(Trace)
  BY DEF DriverInv, SettingInv, ReplayInv, UtilInv, PassedInv, UtilDone, AtEnd,
         Evaluating, Good
<1>2. op - 1 = Len(Trace)
  BY <1>1
<1>3. /\ UNCHANGED <<files, i, errors>> /\ phase' = "speed" /\ op' = 1
      /\ ResetPackage /\ Trace' = Trace /\ stats' = Append(stats, e)
  BY DEF UtilDone, Trace
<1>4. /\ NaiveInv' /\ Replay(Trace, 0, blocks', heap', live')
  BY <1>1, <1>3, PassStarts
<1>5. op' - 1 = 0 /\ op' \in 1 .. Len(Trace) + 1
  BY <1>1, <1>3
<1>6. SettingInv'
  BY <1>3, <1>4 DEF DriverInv, SettingInv
<1>7. ReplayInv'
  BY <1>1, <1>3, <1>4, <1>5 DEF ReplayInv, Trace
<1>8. /\ max_total_size = PeakBytes(Trace) /\ max_total_size \in Nat
      /\ heap.brk = ChunkBytes(Trace) /\ heap.brk \in Nat
  <2>1. max_total_size = PeakBytes(Trace) /\ max_total_size \in Nat
    BY <1>1, <1>2, PeakIs
  <2>2. heap.brk = Cost(Trace, Len(Trace))
    BY <1>1, <1>2 DEF Replay
  <2> QED
    BY <1>1, <2>1, <2>2, CostSteps, CostPositive DEF Good
<1>9. e \in Judgements /\ e.valid /\ Judged(Trace, e)
  BY <1>1, <1>8 DEF Judgements, Judged, mem_heapsize
<1>10. StatsInv'
  <2>1. /\ stats \in Seq(Judgements) /\ Len(stats) = i - 1
        /\ \A k \in 1 .. Len(stats) : Judged(files[k].ops, stats[k])
        /\ errors = Cardinality({k \in DOMAIN stats : ~stats[k].valid})
    BY <1>1 DEF DriverInv, StatsInv
  <2> HIDE DEF e
  <2>2. /\ stats' \in Seq(Judgements) /\ Len(stats') = i
        /\ \A k \in 1 .. i - 1 : stats'[k] = stats[k]
        /\ stats'[i] = e
        /\ errors = Cardinality({k \in DOMAIN stats' : ~stats'[k].valid})
    <3>1. (i - 1) + 1 = i
      BY <1>1
    <3> QED
      BY <1>3, <1>9, <2>1, <3>1, AddJudgement
  <2>3. \A k \in 1 .. Len(stats') : Judged(files'[k].ops, stats'[k])
    <3> SUFFICES ASSUME NEW k \in 1 .. i PROVE Judged(files[k].ops, stats'[k])
      BY <1>3, <2>2
    <3>1. CASE k = i
      BY <1>9, <2>2, <3>1 DEF Trace
    <3>2. CASE k # i
      <4>1. k \in 1 .. i - 1
        BY <1>1, <3>2
      <4> QED
        BY <2>1, <2>2, <4>1
    <3> QED
      BY <3>1, <3>2
  <2> QED
    BY <1>3, <2>2, <2>3 DEF StatsInv
<1>11. PassedInv'
  BY <1>1, <1>3 DEF PassedInv
<1> QED
  BY <1>3, <1>6, <1>7, <1>10, <1>11 DEF DriverInv, ValidInv, UtilInv, ReportInv

\* eval_mm_speed runs again, or the trace is finished.
LEMMA SpeedEndSteps ==
    ASSUME DriverInv, SpeedAgain \/ SpeedDone
    PROVE  DriverInv'
<1>1. /\ NaiveInv /\ phase = "speed" /\ Evaluating /\ i <= Len(files)
      /\ i \in 1 .. Len(files) + 1 /\ Len(files) \in Nat
      /\ Good(Trace) /\ files[i].num_ops = Len(Trace) /\ Len(Trace) \in Nat
      /\ Passes(Trace)
  BY MDriverAssumption
     DEF DriverInv, SettingInv, ReplayInv, PassedInv, SpeedAgain, SpeedDone, AtEnd,
         Evaluating, Good
<1>2. CASE SpeedAgain
  <2>1. /\ UNCHANGED <<files, i, errors, stats, phase>> /\ op' = 1
        /\ ResetPackage /\ Trace' = Trace
    BY <1>2 DEF SpeedAgain, Trace
  <2>2. NaiveInv' /\ Replay(Trace, 0, blocks', heap', live')
    BY <1>1, <2>1, PassStarts
  <2>3. op' - 1 = 0 /\ op' \in 1 .. Len(Trace) + 1
    BY <1>1, <2>1
  <2>4. SettingInv'
    BY <2>1, <2>2 DEF DriverInv, SettingInv
  <2>5. ReplayInv'
    BY <1>1, <2>1, <2>2, <2>3 DEF ReplayInv, Trace
  <2>6. StatsInv' /\ PassedInv'
    BY <1>1, <2>1 DEF DriverInv, StatsInv, PassedInv
  <2> QED
    BY <1>1, <2>1, <2>4, <2>5, <2>6 DEF DriverInv, ValidInv, UtilInv, ReportInv
<1>3. CASE SpeedDone
  <2>1. /\ UNCHANGED <<files, errors, stats, heap, live, aborted>>
        /\ phase' = "read" /\ i' = i + 1
    BY <1>3 DEF SpeedDone, package
  <2>2. SettingInv'
    BY <1>1, <2>1 DEF DriverInv, SettingInv, NaiveInv, AssertsHold
  <2>3. StatsInv'
    BY <1>1, <2>1 DEF DriverInv, StatsInv
  <2> QED
    BY <2>1, <2>2, <2>3
       DEF DriverInv, ReplayInv, ValidInv, UtilInv, PassedInv, ReportInv, Evaluating
<1> QED
  BY <1>2, <1>3

\* The report.
LEMMA FinishStep ==
    ASSUME DriverInv, Finish
    PROVE  DriverInv'
<1>1. /\ UNCHANGED <<files, i, errors, stats, heap, live, aborted>>
      /\ phase = "read" /\ i > Len(files) /\ phase' = "done"
  BY DEF Finish, package
<1>2. /\ i \in 1 .. Len(files) + 1 /\ Len(files) \in Nat /\ stats \in Seq(Judgements)
      /\ Len(stats) = i - 1
  BY <1>1, MDriverAssumption DEF DriverInv, SettingInv, StatsInv
<1>3. DOMAIN stats = 1 .. Len(stats) /\ Len(stats) = Len(files)
  BY <1>1, <1>2, LenProperties
<1>4. SettingInv'
  BY <1>1 DEF DriverInv, SettingInv, NaiveInv, AssertsHold
<1>5. StatsInv'
  BY <1>1, <1>3 DEF DriverInv, StatsInv
<1>6. ReportInv'
  <2>1. PICK index : /\ \A k \in DOMAIN stats : index[k] \in Scores(stats[k])
                     /\ report' = [numcorrect |-> Cardinality({k \in DOMAIN stats : stats[k].valid}),
                                   perfindex  |-> index]
    BY DEF Finish
  <2>2. /\ report'.perfindex = index
        /\ report'.numcorrect = Cardinality({k \in DOMAIN stats : stats[k].valid})
    BY <2>1
  <2> QED
    BY <1>1, <1>3, <2>1, <2>2 DEF ReportInv
<1> QED
  BY <1>1, <1>4, <1>5, <1>6
     DEF DriverInv, ReplayInv, ValidInv, UtilInv, PassedInv, Evaluating

-----------------------------------------------------------------------------
(* The steps of a pass.                                                    *)

\* Where a pass stands when it has a request to serve.
LEMMA AtRequest ==
    ASSUME DriverInv, NEW ph \in {"valid", "util", "speed"}, NEW type, At(ph, type)
    PROVE  /\ phase = ph /\ Evaluating /\ NaiveInv
           /\ i \in 1 .. Len(files) + 1 /\ i <= Len(files) /\ Len(files) \in Nat
           /\ Good(Trace) /\ files[i].num_ops = Len(Trace) /\ Len(Trace) \in Nat
           /\ op \in 1 .. Len(Trace)
           /\ Request = Trace[op] /\ Trace[op].type = type
           /\ Replay(Trace, op - 1, blocks, heap, live)
BY MDriverAssumption
   DEF DriverInv, SettingInv, ReplayInv, At, Request, Trace, Evaluating, Good

\* The call that a request of the pass makes.
LEMMA CallAt ==
    ASSUME DriverInv, NEW ph \in {"valid", "util", "speed"}, NEW type, At(ph, type)
    PROVE  LET x == Trace[op].index
               s == Trace[op].size
               p == blocks[x]
               q == heap.brk + 16
               a == mm_malloc(heap, s)
               r == mm_realloc(heap, p, s)
               f == mm_free(heap, p)
           IN  /\ type = ALLOC =>
                      /\ a.ok = TRUE
                      /\ Cost(Trace, op) > MAX_HEAP => a.ret = NULL /\ a.heap = heap
                      /\ ~(Cost(Trace, op) > MAX_HEAP) =>
                             /\ a.ret = q /\ q # NULL
                             /\ Replay(Trace, op, With(blocks, x, q), a.heap, With(live, q, s))
                             /\ SameBytes(heap, a.heap, live, DOMAIN live)
                             /\ q \notin DOMAIN live
               /\ type = REALLOC =>
                      /\ p \in DOMAIN live
                      /\ r.ok = TRUE
                      /\ Cost(Trace, op) > MAX_HEAP => r.ret = NULL /\ r.heap = heap
                      /\ ~(Cost(Trace, op) > MAX_HEAP) =>
                             /\ r.ret = q /\ q # NULL
                             /\ Replay(Trace, op, With(blocks, x, q), r.heap,
                                       With(Without(live, p), q, s))
                             /\ SameBytes(heap, r.heap, live, DOMAIN live \ {p})
                             /\ \A j \in 0 .. live[p] - 1 :
                                    j < s => r.heap.mem[q + j] = heap.mem[p + j]
                             /\ q \notin DOMAIN live
               /\ type = FREE =>
                      /\ p \in DOMAIN live
                      /\ f.ok = TRUE
                      /\ Replay(Trace, op, blocks, f.heap, Without(live, p))
                      /\ SameBytes(heap, f.heap, live, DOMAIN live)
<1> DEFINE x == Trace[op].index
           s == Trace[op].size
           p == blocks[x]
           q == heap.brk + 16
           a == mm_malloc(heap, s)
           r == mm_realloc(heap, p, s)
           f == mm_free(heap, p)
<1>1. /\ Good(Trace) /\ op \in 1 .. Len(Trace) /\ Trace[op].type = type
      /\ Replay(Trace, op - 1, blocks, heap, live)
  BY AtRequest
<1>2. ASSUME type = ALLOC
      PROVE  /\ a.ok = TRUE
             /\ Cost(Trace, op) > MAX_HEAP => a.ret = NULL /\ a.heap = heap
             /\ ~(Cost(Trace, op) > MAX_HEAP) =>
                    /\ a.ret = q /\ q # NULL
                    /\ Replay(Trace, op, With(blocks, x, q), a.heap, With(live, q, s))
                    /\ SameBytes(heap, a.heap, live, DOMAIN live)
                    /\ q \notin DOMAIN live
  <2>1. Trace[op].type = ALLOC
    BY <1>1, <1>2
  <2> QED
    BY <1>1, <2>1, AllocRequest, Zenon
<1>3. ASSUME type = REALLOC
      PROVE  /\ p \in DOMAIN live
             /\ r.ok = TRUE
             /\ Cost(Trace, op) > MAX_HEAP => r.ret = NULL /\ r.heap = heap
             /\ ~(Cost(Trace, op) > MAX_HEAP) =>
                    /\ r.ret = q /\ q # NULL
                    /\ Replay(Trace, op, With(blocks, x, q), r.heap,
                              With(Without(live, p), q, s))
                    /\ SameBytes(heap, r.heap, live, DOMAIN live \ {p})
                    /\ \A j \in 0 .. live[p] - 1 :
                           j < s => r.heap.mem[q + j] = heap.mem[p + j]
                    /\ q \notin DOMAIN live
  <2>1. Trace[op].type = REALLOC
    BY <1>1, <1>3
  <2> QED
    BY <1>1, <2>1, ReallocRequest, Zenon
<1>4. ASSUME type = FREE
      PROVE  /\ p \in DOMAIN live
             /\ f.ok = TRUE
             /\ Replay(Trace, op, blocks, f.heap, Without(live, p))
             /\ SameBytes(heap, f.heap, live, DOMAIN live)
  <2>1. Trace[op].type = FREE
    BY <1>1, <1>4
  <2> QED
    BY <1>1, <2>1, FreeRequest, Zenon
<1> HIDE DEF a, r, f
<1> QED
  BY <1>2, <1>3, <1>4 DEF a, r, f

\* A call returns without a failed assert.
LEMMA CallReturns ==
    ASSUME NEW r, NEW l, NEW ph, Returned(r, l, ph), r.ok = TRUE, HeapConsistent(r.heap, l)
    PROVE  NaiveInv' /\ heap' = r.heap /\ live' = l /\ phase' = ph
BY ReturnKeepsInv DEF Returned

\* The pass goes on to the next request.
LEMMA PassContinues ==
    ASSUME DriverInv, NEW ph \in {"valid", "util", "speed"}, NEW type, At(ph, type),
           Continue, phase' = ph, NaiveInv',
           Replay(Trace, op, blocks', heap', live')
    PROVE  /\ SettingInv' /\ ReplayInv' /\ PassedInv' /\ StatsInv' /\ ReportInv'
           /\ Trace' = Trace /\ op' - 1 = op
<1>1. /\ phase = ph
      /\ i \in 1 .. Len(files) + 1 /\ i <= Len(files) /\ Len(files) \in Nat
      /\ Good(Trace) /\ files[i].num_ops = Len(Trace) /\ Len(Trace) \in Nat
      /\ op \in 1 .. Len(Trace)
  BY AtRequest
<1>2. UNCHANGED <<files, i, run, errors, stats, report>> /\ op' = op + 1
  BY DEF Continue
<1>3. Trace' = Trace /\ op' - 1 = op /\ op' \in 1 .. Len(Trace) + 1
  BY <1>1, <1>2 DEF Trace
<1>4. SettingInv'
  BY <1>1, <1>2 DEF DriverInv, SettingInv
<1>5. ReplayInv'
  BY <1>1, <1>2, <1>3 DEF ReplayInv
<1>6. PassedInv'
  BY <1>1, <1>3 DEF DriverInv, PassedInv
<1>7. StatsInv' /\ ReportInv'
  BY <1>1, <1>2 DEF DriverInv, StatsInv, ReportInv
<1> QED
  BY <1>3, <1>4, <1>5, <1>6, <1>7

\* add_range accepts the block, which the package has taken from the break.
LEMMA RangeAccepted ==
    ASSUME NEW rs, NEW l, NEW k, Listed(rs, k), DOMAIN k \subseteq DOMAIN l,
           \A p \in DOMAIN k : k[p] = l[p],
           NEW m, HeapConsistent(m, l), NEW s \in Nat \ {0},
           NEW g, HeapConsistent(g, With(k, m.brk + 16, s))
    PROVE  LET a == add_range(rs, g.brk, m.brk + 16, s)
           IN  a.ok = TRUE /\ a.ret = 1 /\ Listed(a.ranges, With(k, m.brk + 16, s))
<1> DEFINE q == m.brk + 16
           nl == With(k, q, s)
<1>1. m.brk \in 0 .. MAX_HEAP /\ m.brk % 16 = 0 /\ MAX_HEAP \in Nat
  BY Places DEF HeapConsistent, ChunksTile, is_aligned, ALIGNMENT
<1>2. q \in DOMAIN nl /\ nl[q] = s
  BY DEF With
<1> HIDE DEF nl
<1>3. q + s <= g.brk /\ g.brk \in Int
  BY <1>1, <1>2, Places DEF nl
<1>4. \A p \in DOMAIN k : p \in Int /\ k[p] \in Nat /\ p + k[p] <= m.brk
  BY Places
<1>5. m.brk \in Nat /\ m.brk + 16 + s <= g.brk
  BY <1>1, <1>3
<1> QED
  BY <1>1, <1>3, <1>4, <1>5, ListAdd

\* ALLOC in eval_mm_valid, served: the new block is above all others, so add_range
\* accepts it, and the fill stays inside it.
LEMMA ValidAllocStep ==
    ASSUME DriverInv, ValidAlloc
    PROVE  DriverInv'
<1> DEFINE x == Trace[op].index
           s == Trace[op].size
           r == mm_malloc(heap, s)
           q == heap.brk + 16
           a == add_range(ranges, r.heap.brk, q, s)
           f == Fill(r.heap, q, x % 256, s)
           nb == With(blocks, x, q)
           nl == With(live, q, s)
<1>1. At("valid", ALLOC)
  BY DEF ValidAlloc
<1>2. /\ phase = "valid" /\ NaiveInv /\ Good(Trace) /\ op \in 1 .. Len(Trace)
      /\ Request = Trace[op] /\ Trace[op].type = ALLOC /\ Trace[op].type # FREE
      /\ Replay(Trace, op - 1, blocks, heap, live)
  BY <1>1, AtRequest DEF ALLOC, FREE
<1>3. /\ s \in Nat \ {0} /\ x \in Nat /\ x \notin HeldIds(Trace, op - 1)
  BY <1>2, RequestIs
<1>4. /\ r.ok = TRUE /\ r.ret # NULL
      /\ Cost(Trace, op) > MAX_HEAP => r.ret = NULL
      /\ ~(Cost(Trace, op) > MAX_HEAP) =>
             /\ r.ret = q
             /\ Replay(Trace, op, nb, r.heap, nl)
             /\ SameBytes(heap, r.heap, live, DOMAIN live)
  <2>1. r.ret # NULL
    BY <1>2 DEF ValidAlloc
  <2>2. /\ r.ok = TRUE
        /\ Cost(Trace, op) > MAX_HEAP => r.ret = NULL /\ r.heap = heap
        /\ ~(Cost(Trace, op) > MAX_HEAP) =>
               /\ r.ret = q /\ q # NULL
               /\ Replay(Trace, op, nb, r.heap, nl)
               /\ SameBytes(heap, r.heap, live, DOMAIN live)
               /\ q \notin DOMAIN live
    BY <1>2, AllocRequest, Zenon
  <2> QED
    BY <2>1, <2>2
<1>5. /\ r.ret = q /\ Replay(Trace, op, nb, r.heap, nl)
      /\ SameBytes(heap, r.heap, live, DOMAIN live)
  BY <1>4
<1>6. /\ Listed(ranges, live) /\ Filling(Trace, op - 1, blocks, heap)
      /\ Sized(Trace, op - 1, block_sizes) /\ ReadWell(Trace, op - 1)
      /\ HeapConsistent(heap, live) /\ Holding(Trace, op - 1, blocks, live)
  BY <1>2 DEF DriverInv, ValidInv, Replay
<1>7. a.ok = TRUE /\ Listed(a.ranges, nl)
  <2>1. HeapConsistent(r.heap, nl)
    BY <1>5 DEF Replay
  <2> HIDE DEF r, s
  <2> QED
    BY <1>3, <1>6, <2>1, RangeAccepted
<1>8. Replay(Trace, op, nb, f, nl) /\ Filling(Trace, op, nb, f)
  <2>1. \A y \in HeldIds(Trace, op - 1) : y # x => blocks[y] \in DOMAIN live
    BY <1>6 DEF Holding
  <2>2. Replay(Trace, op, nb, r.heap, nl) /\ SameBytes(heap, r.heap, live, DOMAIN live)
    BY <1>5
  <2> HIDE DEF r, nl, q
  <2> QED
    BY <1>2, <1>6, <2>1, <2>2, FillRequest, Zenon
<1>9. /\ Returned([heap |-> f, ok |-> r.ok /\ a.ok], nl, "valid")
      /\ ranges' = a.ranges /\ blocks' = nb
      /\ block_sizes' = With(block_sizes, x, s) /\ Continue
  BY <1>2, <1>5 DEF ValidAlloc, Filled, Fill, Remember
<1> HIDE DEF r, a, f, nb, nl
<1>10. NaiveInv' /\ heap' = f /\ live' = nl /\ phase' = "valid"
  <2> DEFINE e == [heap |-> f, ok |-> r.ok /\ a.ok]
  <2>1. e.heap = f /\ e.ok = TRUE
    BY <1>4, <1>7
  <2>2. HeapConsistent(e.heap, nl)
    BY <1>8, <2>1 DEF Replay
  <2>3. Returned(e, nl, "valid")
    BY <1>9
  <2> HIDE DEF e
  <2> QED
    BY <2>1, <2>2, <2>3, CallReturns
<1>11. /\ SettingInv' /\ ReplayInv' /\ PassedInv' /\ StatsInv' /\ ReportInv'
       /\ Trace' = Trace /\ op' - 1 = op
  BY <1>1, <1>8, <1>9, <1>10, PassContinues
<1>12. ValidInv'
  <2>1. Sized(Trace, op, block_sizes')
    BY <1>2, <1>6, <1>9, SizedStep
  <2>2. ReadWell(Trace, op)
    BY <1>2, <1>6 DEF ReadWell, ALLOC, REALLOC
  <2> QED
    BY <1>7, <1>8, <1>9, <1>10, <1>11, <2>1, <2>2 DEF ValidInv
<1> QED
  BY <1>10, <1>11, <1>12 DEF DriverInv, UtilInv

\* eval_mm_valid gives up on a trace that does not pass.
LEMMA TraceFails ==
    ASSUME DriverInv, NEW type, At("valid", type), Invalid, phase' = "read", NaiveInv',
           ~Passes(Trace)
    PROVE  DriverInv'
<1> DEFINE e == [valid |-> FALSE]
<1>1. /\ phase = "valid"
      /\ i \in 1 .. Len(files) + 1 /\ i <= Len(files) /\ Len(files) \in Nat
      /\ Good(Trace)
  BY AtRequest
<1>2. /\ UNCHANGED files /\ i' = i + 1 /\ errors' = errors + 1 /\ stats' = Append(stats, e)
  BY DEF Invalid
<1>3. SettingInv'
  BY <1>1, <1>2 DEF DriverInv, SettingInv
<1>4. e \in Judgements /\ e.valid = FALSE /\ Judged(Trace, e)
  BY <1>1 DEF Judgements, Judged
<1>5. StatsInv'
  <2>1. /\ stats \in Seq(Judgements) /\ Len(stats) = i - 1
        /\ \A k \in 1 .. Len(stats) : Judged(files[k].ops, stats[k])
        /\ errors = Cardinality({k \in DOMAIN stats : ~stats[k].valid})
    BY <1>1 DEF DriverInv, StatsInv
  <2> HIDE DEF e
  <2>2. /\ stats' \in Seq(Judgements) /\ Len(stats') = i
        /\ \A k \in 1 .. i - 1 : stats'[k] = stats[k]
        /\ stats'[i] = e
        /\ errors' = Cardinality({k \in DOMAIN stats' : ~stats'[k].valid})
    <3>1. (i - 1) + 1 = i
      BY <1>1
    <3> QED
      BY <1>2, <1>4, <2>1, <3>1, AddJudgement
  <2>3. \A k \in 1 .. Len(stats') : Judged(files'[k].ops, stats'[k])
    <3> SUFFICES ASSUME NEW k \in 1 .. i PROVE Judged(files[k].ops, stats'[k])
      BY <1>2, <2>2
    <3>1. CASE k = i
      BY <1>4, <2>2, <3>1 DEF Trace
    <3>2. CASE k # i
      <4>1. k \in 1 .. i - 1
        BY <1>1, <3>2
      <4> QED
        BY <2>1, <2>2, <4>1
    <3> QED
      BY <3>1, <3>2
  <2>4. i' - 1 = i
    BY <1>1, <1>2
  <2> QED
    BY <2>2, <2>3, <2>4 DEF StatsInv
<1> QED
  BY <1>3, <1>5
     DEF DriverInv, ReplayInv, ValidInv, UtilInv, PassedInv, ReportInv, Evaluating

\* A request that finds no room is more than the arena can hold.
LEMMA NoRoomFails ==
    ASSUME NEW ops, Good(ops), NEW n \in 1 .. Len(ops), Cost(ops, n) > MAX_HEAP
    PROVE  ~Passes(ops)
<1>1. Cost(ops, n) \in Nat /\ Cost(ops, n) <= ChunkBytes(ops) /\ ChunkBytes(ops) \in Nat
  BY CostSteps, CostPositive DEF Good
<1> QED
  BY <1>1, MemLibAssumption DEF Passes, FitsArena

\* ALLOC in eval_mm_valid, refused: only because the arena is exhausted, and then
\* the trace does not pass.
LEMMA ValidAllocErrorStep ==
    ASSUME DriverInv, ValidAllocError
    PROVE  DriverInv'
<1> DEFINE x == Trace[op].index
           s == Trace[op].size
           r == mm_malloc(heap, s)
           q == heap.brk + 16
           a == add_range(ranges, r.heap.brk, q, s)
           nb == With(blocks, x, q)
           nl == With(live, q, s)
<1>1. At("valid", ALLOC)
  BY DEF ValidAllocError
<1>2. /\ phase = "valid" /\ NaiveInv /\ Good(Trace) /\ op \in 1 .. Len(Trace)
      /\ Request = Trace[op] /\ Trace[op].type = ALLOC
      /\ Replay(Trace, op - 1, blocks, heap, live)
  BY <1>1, AtRequest
<1>3. s \in Nat \ {0}
  BY <1>2, RequestIs DEF ALLOC, FREE
<1>4. /\ r.ok = TRUE
      /\ Cost(Trace, op) > MAX_HEAP => r.ret = NULL /\ r.heap = heap
      /\ ~(Cost(Trace, op) > MAX_HEAP) =>
             /\ r.ret = q /\ q # NULL
             /\ Replay(Trace, op, nb, r.heap, nl)
             /\ SameBytes(heap, r.heap, live, DOMAIN live)
             /\ q \notin DOMAIN live
  BY <1>2, AllocRequest, Zenon
<1>5. Cost(Trace, op) > MAX_HEAP
  <2> SUFFICES ASSUME ~(Cost(Trace, op) > MAX_HEAP) PROVE FALSE
    OBVIOUS
  <2>1. r.ret = q /\ q # NULL /\ HeapConsistent(r.heap, nl)
    BY <1>4 DEF Replay
  <2>2. a.ret = 0
    BY <1>2, <2>1 DEF ValidAllocError
  <2>3. Listed(ranges, live) /\ HeapConsistent(heap, live)
    BY <1>2 DEF DriverInv, ValidInv, Replay
  <2>4. a.ok = TRUE /\ a.ret = 1 /\ Listed(a.ranges, nl)
    <3>1. HeapConsistent(r.heap, nl)
      BY <2>1
    <3> HIDE DEF r, s
    <3> QED
      BY <1>3, <2>3, <3>1, RangeAccepted
  <2> QED
    BY <2>2, <2>4
<1>6. r.ret = NULL /\ r.heap = heap /\ r.ok = TRUE
  BY <1>4, <1>5
<1>7. /\ Invalid /\ phase' = "read" /\ heap' = heap /\ live' = live /\ aborted' = FALSE
  BY <1>2, <1>6 DEF ValidAllocError, Returned, Return
<1>8. NaiveInv'
  BY <1>2, <1>7 DEF NaiveInv, AssertsHold
<1>9. ~Passes(Trace)
  BY <1>2, <1>5, NoRoomFails
<1> QED
  BY <1>1, <1>7, <1>8, <1>9, TraceFails

\* The smaller of two sizes.
LEMMA MinOfTwo ==
    ASSUME NEW b \in Nat, NEW c \in Nat
    PROVE  /\ Min({b, c}) \in {b, c} /\ Min({b, c}) \in Nat
           /\ Min({b, c}) <= b /\ Min({b, c}) <= c
<1> DEFINE S == {b, c}
<1>1. S \subseteq Int /\ b \in S /\ c \in S
  OBVIOUS
<1>2. CASE b <= c
  <2>1. \A y \in S : b <= y
    BY <1>2
  <2> HIDE DEF S
  <2>2. Min(S) = b
    BY <1>1, <2>1, MinIs
  <2> QED
    BY <1>2, <2>2 DEF S
<1>3. CASE ~(b <= c)
  <2>1. \A y \in S : c <= y
    BY <1>3
  <2> HIDE DEF S
  <2>2. Min(S) = c
    BY <1>1, <2>1, MinIs
  <2> QED
    BY <1>3, <2>2 DEF S
<1> QED
  BY <1>2, <1>3

\* A REALLOC of eval_mm_valid for which there is room: the range list takes the
\* new block, and the check of the old bytes depends on the fill alone.
LEMMA ValidReallocFits ==
    ASSUME DriverInv, At("valid", REALLOC), ~(Cost(Trace, op) > MAX_HEAP)
    PROVE  LET x    == Trace[op].index
               s    == Trace[op].size
               p    == blocks[x]
               r    == mm_realloc(heap, p, s)
               q    == heap.brk + 16
               a    == add_range(remove_range(ranges, p), r.heap.brk, q, s)
               kept == Min({block_sizes[x], s})
               nl   == With(Without(live, p), q, s)
           IN  /\ r.ok = TRUE /\ r.ret = q /\ q # NULL
               /\ Replay(Trace, op, With(blocks, x, q), r.heap, nl)
               /\ SameBytes(heap, r.heap, live, DOMAIN live \ {p})
               /\ a.ok = TRUE /\ a.ret = 1 /\ Listed(a.ranges, nl)
               /\ Preserved(r.heap, q, kept, x) <=> x % 256 < 128
<1> DEFINE x == Trace[op].index
           s == Trace[op].size
           p == blocks[x]
           r == mm_realloc(heap, p, s)
           q == heap.brk + 16
           rs == remove_range(ranges, p)
           a == add_range(rs, r.heap.brk, q, s)
           kept == Min({block_sizes[x], s})
           k == Without(live, p)
           nl == With(k, q, s)
<1>1. /\ phase = "valid" /\ NaiveInv /\ Good(Trace) /\ op \in 1 .. Len(Trace)
      /\ Trace[op].type = REALLOC
      /\ Replay(Trace, op - 1, blocks, heap, live)
  BY AtRequest
<1>2. /\ s \in Nat \ {0} /\ x \in Nat /\ x \in HeldIds(Trace, op - 1)
      /\ op - 1 \in 0 .. Len(Trace)
  BY <1>1, RequestIs DEF ALLOC, REALLOC, FREE
<1>3. /\ p \in DOMAIN live
      /\ r.ok = TRUE
      /\ Cost(Trace, op) > MAX_HEAP => r.ret = NULL /\ r.heap = heap
      /\ ~(Cost(Trace, op) > MAX_HEAP) =>
             /\ r.ret = q /\ q # NULL
             /\ Replay(Trace, op, With(blocks, x, q), r.heap, nl)
             /\ SameBytes(heap, r.heap, live, DOMAIN live \ {p})
             /\ \A j \in 0 .. live[p] - 1 :
                    j < s => r.heap.mem[q + j] = heap.mem[p + j]
             /\ q \notin DOMAIN live
  BY <1>1, ReallocRequest, Zenon
<1>4. /\ p \in DOMAIN live /\ r.ok = TRUE /\ r.ret = q /\ q # NULL
      /\ Replay(Trace, op, With(blocks, x, q), r.heap, nl)
      /\ SameBytes(heap, r.heap, live, DOMAIN live \ {p})
      /\ \A j \in 0 .. live[p] - 1 : j < s => r.heap.mem[q + j] = heap.mem[p + j]
  BY <1>3
<1>5. /\ Listed(ranges, live) /\ HeapConsistent(heap, live)
      /\ Filling(Trace, op - 1, blocks, heap) /\ Sized(Trace, op - 1, block_sizes)
      /\ Holding(Trace, op - 1, blocks, live)
  BY <1>1 DEF DriverInv, ValidInv, Replay
<1>6. a.ok = TRUE /\ a.ret = 1 /\ Listed(a.ranges, nl)
  <2>1. Listed(rs, k)
    BY <1>4, <1>5, ListRemove
  <2>2. DOMAIN k \subseteq DOMAIN live /\ \A b \in DOMAIN k : k[b] = live[b]
    BY DEF Without
  <2>3. HeapConsistent(r.heap, nl)
    BY <1>4 DEF Replay
  <2> HIDE DEF r, s, rs, k
  <2> QED
    BY <1>2, <1>5, <2>1, <2>2, <2>3, RangeAccepted
<1>7. Preserved(r.heap, q, kept, x) <=> x % 256 < 128
  <2>1. /\ live[p] = LastSize(Trace, op - 1, x) /\ block_sizes[x] = live[p]
        /\ live[p] \in Nat \ {0}
    BY <1>1, <1>2, <1>5, HeldSize DEF Holding, Sized, Good
  <2>2. kept \in Nat \ {0} /\ kept <= live[p] /\ kept <= s
    BY <1>2, <2>1, MinOfTwo
  <2>3. q \in Int
    BY <1>5, Places
  <2> HIDE DEF r, s, kept, q
  <2>4. \A j \in 0 .. kept - 1 : r.heap.mem[q + j] = x % 256
    <3> SUFFICES ASSUME NEW j \in 0 .. kept - 1 PROVE r.heap.mem[q + j] = x % 256
      OBVIOUS
    <3>1. j \in 0 .. live[p] - 1 /\ j < s
      BY <1>2, <2>1, <2>2
    <3>2. r.heap.mem[q + j] = heap.mem[p + j]
      BY <1>4, <3>1
    <3>3. heap.mem[p + j] = x % 256
      BY <1>2, <1>5, <2>1, <3>1 DEF Filling
    <3> QED
      BY <3>2, <3>3
  <2> DEFINE g == r.heap
  <2>5. \A j \in 0 .. kept - 1 : g.mem[q + j] = x % 256
    BY <2>4
  <2> HIDE DEF g, x
  <2>6. Preserved(g, q, kept, x) <=> x % 256 < 128
    BY <1>2, <2>2, <2>3, <2>5, FillRead
  <2> QED
    BY <2>6 DEF g
<1> HIDE DEF r, a, kept
<1> QED
  BY <1>4, <1>6, <1>7 DEF r, a, kept

\* REALLOC in eval_mm_valid, served: the old block held the fill of its id, the new
\* one has it too, and reading it back through a char showed no difference.
LEMMA ValidReallocStep ==
    ASSUME DriverInv, ValidRealloc
    PROVE  DriverInv'
<1> DEFINE x == Trace[op].index
           s == Trace[op].size
           p == blocks[x]
           r == mm_realloc(heap, p, s)
           q == heap.brk + 16
           a == add_range(remove_range(ranges, p), r.heap.brk, q, s)
           kept == Min({block_sizes[x], s})
           f == Fill(r.heap, q, x % 256, s)
           nb == With(blocks, x, q)
           nl == With(Without(live, p), q, s)
<1>1. At("valid", REALLOC)
  BY DEF ValidRealloc
<1>2. /\ phase = "valid" /\ NaiveInv /\ Good(Trace) /\ op \in 1 .. Len(Trace)
      /\ Request = Trace[op] /\ Trace[op].type = REALLOC /\ Trace[op].type # FREE
      /\ Replay(Trace, op - 1, blocks, heap, live)
  BY <1>1, AtRequest DEF REALLOC, FREE
<1>3. ~(Cost(Trace, op) > MAX_HEAP)
  <2>1. r.ret # NULL
    BY <1>2 DEF ValidRealloc
  <2>2. r.ok = TRUE /\ (Cost(Trace, op) > MAX_HEAP => r.ret = NULL /\ r.heap = heap)
    BY <1>1, CallAt
  <2> QED
    BY <2>1, <2>2
<1>4. /\ r.ok = TRUE /\ r.ret = q /\ q # NULL
      /\ Replay(Trace, op, nb, r.heap, nl)
      /\ SameBytes(heap, r.heap, live, DOMAIN live \ {p})
      /\ a.ok = TRUE /\ a.ret = 1 /\ Listed(a.ranges, nl)
      /\ Preserved(r.heap, q, kept, x) <=> x % 256 < 128
  BY <1>1, <1>3, ValidReallocFits, Zenon
<1>5. /\ Filling(Trace, op - 1, blocks, heap)
      /\ Sized(Trace, op - 1, block_sizes) /\ ReadWell(Trace, op - 1)
      /\ Holding(Trace, op - 1, blocks, live)
  BY <1>2 DEF DriverInv, ValidInv, Replay
<1>6. /\ x % 256 < 128 /\ ranges' = a.ranges /\ blocks' = nb
      /\ block_sizes' = With(block_sizes, x, s) /\ Continue
  BY <1>2, <1>4 DEF ValidRealloc, Remember
<1>7. Returned([heap |-> f, ok |-> r.ok /\ a.ok], nl, "valid")
  BY <1>2, <1>4 DEF ValidRealloc, Filled, Fill
<1>8. Replay(Trace, op, nb, f, nl) /\ Filling(Trace, op, nb, f)
  <2>1. \A y \in HeldIds(Trace, op - 1) : y # x => blocks[y] \in DOMAIN live \ {p}
    BY <1>2, <1>5, RequestIs DEF Holding, ALLOC, REALLOC
  <2>2. Replay(Trace, op, nb, r.heap, nl) /\ SameBytes(heap, r.heap, live, DOMAIN live \ {p})
    BY <1>4
  <2> HIDE DEF r, nl, q
  <2> QED
    BY <1>2, <1>5, <2>1, <2>2, FillRequest, Zenon
<1> HIDE DEF r, a, f, nb, nl
<1>9. NaiveInv' /\ heap' = f /\ live' = nl /\ phase' = "valid"
  <2> DEFINE e == [heap |-> f, ok |-> r.ok /\ a.ok]
  <2>1. e.heap = f /\ e.ok = TRUE
    BY <1>4
  <2>2. HeapConsistent(e.heap, nl)
    BY <1>8, <2>1 DEF Replay
  <2>3. Returned(e, nl, "valid")
    BY <1>7
  <2> HIDE DEF e
  <2> QED
    BY <2>1, <2>2, <2>3, CallReturns
<1>10. /\ SettingInv' /\ ReplayInv' /\ PassedInv' /\ StatsInv' /\ ReportInv'
       /\ Trace' = Trace /\ op' - 1 = op
  BY <1>1, <1>6, <1>8, <1>9, PassContinues
<1>11. ValidInv'
  <2>1. Sized(Trace, op, block_sizes')
    BY <1>2, <1>5, <1>6, SizedStep
  <2>2. ReadWell(Trace, op)
    <3> SUFFICES ASSUME NEW k \in 1 .. op, Trace[k].type = REALLOC
                 PROVE  Trace[k].index % 256 < 128
      BY DEF ReadWell
    <3>1. CASE k = op
      BY <1>6, <3>1
    <3>2. CASE k # op
      <4>1. k \in 1 .. op - 1
        BY <1>2, <3>2
      <4> QED
        BY <1>5, <4>1 DEF ReadWell
    <3> QED
      BY <3>1, <3>2
  <2> QED
    BY <1>4, <1>6, <1>8, <1>9, <1>10, <2>1, <2>2 DEF ValidInv
<1> QED
  BY <1>9, <1>10, <1>11 DEF DriverInv, UtilInv

\* REALLOC in eval_mm_valid, refused: the arena is exhausted, or the fill of the id
\* reads back as a negative char. Either way the trace does not pass.
LEMMA ValidReallocErrorStep ==
    ASSUME DriverInv, ValidReallocError
    PROVE  DriverInv'
<1> DEFINE x == Trace[op].index
           s == Trace[op].size
           p == blocks[x]
           r == mm_realloc(heap, p, s)
           q == heap.brk + 16
           a == add_range(remove_range(ranges, p), r.heap.brk, q, s)
           kept == Min({block_sizes[x], s})
           nl == With(Without(live, p), q, s)
<1>1. At("valid", REALLOC)
  BY DEF ValidReallocError
<1>2. /\ phase = "valid" /\ NaiveInv /\ Good(Trace) /\ op \in 1 .. Len(Trace)
      /\ Request = Trace[op] /\ Trace[op].type = REALLOC
      /\ Replay(Trace, op - 1, blocks, heap, live)
  BY <1>1, AtRequest
<1>3. s # 0 /\ x \in Nat /\ op \in DOMAIN Trace
  BY <1>2, RequestIs DEF REALLOC, FREE
<1>4. Invalid
  BY DEF ValidReallocError
<1>5. CASE Cost(Trace, op) > MAX_HEAP
  <2>1. r.ok = TRUE /\ r.ret = NULL /\ r.heap = heap
    <3>1. r.ok = TRUE /\ (Cost(Trace, op) > MAX_HEAP => r.ret = NULL /\ r.heap = heap)
      BY <1>1, CallAt
    <3> QED
      BY <1>5, <3>1
  <2>2. phase' = "read" /\ heap' = heap /\ live' = live /\ aborted' = FALSE
    BY <1>2, <1>3, <2>1 DEF ValidReallocError, Returned, Return
  <2>3. NaiveInv'
    BY <1>2, <2>2 DEF NaiveInv, AssertsHold
  <2>4. ~Passes(Trace)
    BY <1>2, <1>5, NoRoomFails
  <2> QED
    BY <1>1, <1>4, <2>2, <2>3, <2>4, TraceFails
<1>6. CASE ~(Cost(Trace, op) > MAX_HEAP)
  <2>1. /\ r.ok = TRUE /\ r.ret = q /\ q # NULL
        /\ Replay(Trace, op, With(blocks, x, q), r.heap, nl)
        /\ SameBytes(heap, r.heap, live, DOMAIN live \ {p})
        /\ a.ok = TRUE /\ a.ret = 1 /\ Listed(a.ranges, nl)
        /\ Preserved(r.heap, q, kept, x) <=> x % 256 < 128
    BY <1>1, <1>6, ValidReallocFits, Zenon
  <2>2. ~Preserved(r.heap, q, kept, x)
    BY <1>2, <2>1 DEF ValidReallocError
  <2>3. ~Passes(Trace)
    <3>1. x % 256 >= 128
      BY <1>3, <2>1, <2>2
    <3> QED
      BY <1>2, <1>3, <3>1 DEF Passes, HighFill
  <2> DEFINE e == [heap |-> r.heap, ok |-> r.ok /\ (r.ret = NULL \/ a.ok)]
  <2>4. Returned(e, nl, "read")
    <3>1. Returned(e, IF r.ret # NULL THEN With(Without(live, p), r.ret, s)
                      ELSE IF s = 0 THEN Without(live, p) ELSE live, "read")
      BY <1>2, <2>1 DEF ValidReallocError
    <3>2. (IF r.ret # NULL THEN With(Without(live, p), r.ret, s)
           ELSE IF s = 0 THEN Without(live, p) ELSE live) = nl
      BY <2>1
    <3> HIDE DEF nl, e
    <3> QED
      BY <3>1, <3>2
  <2>5. e.ok = TRUE /\ e.heap = r.heap
    <3>1. (r.ok /\ (r.ret = NULL \/ a.ok)) = TRUE
      BY <2>1
    <3> QED
      BY <3>1
  <2>6. HeapConsistent(e.heap, nl)
    BY <2>1, <2>5 DEF Replay
  <2> HIDE DEF e, nl
  <2>7. NaiveInv' /\ phase' = "read"
    BY <2>4, <2>5, <2>6, CallReturns
  <2> QED
    BY <1>1, <1>4, <2>3, <2>7, TraceFails
<1> QED
  BY <1>5, <1>6

\* FREE in eval_mm_valid: the record of the block leaves the list with it.
LEMMA ValidFreeStep ==
    ASSUME DriverInv, ValidFree
    PROVE  DriverInv'
<1> DEFINE x == Trace[op].index
           p == blocks[x]
           r == mm_free(heap, p)
           nl == Without(live, p)
<1>1. At("valid", FREE)
  BY DEF ValidFree
<1>2. /\ phase = "valid" /\ NaiveInv /\ Good(Trace) /\ op \in 1 .. Len(Trace)
      /\ Request = Trace[op] /\ Trace[op].type = FREE
      /\ Replay(Trace, op - 1, blocks, heap, live)
  BY <1>1, AtRequest
<1>3. /\ p \in DOMAIN live
      /\ r.ok = TRUE
      /\ Replay(Trace, op, blocks, r.heap, nl)
      /\ SameBytes(heap, r.heap, live, DOMAIN live)
  BY <1>2, FreeRequest, Zenon
<1>4. /\ Listed(ranges, live) /\ Filling(Trace, op - 1, blocks, heap)
      /\ Sized(Trace, op - 1, block_sizes) /\ ReadWell(Trace, op - 1)
      /\ Holding(Trace, op - 1, blocks, live)
  BY <1>2 DEF DriverInv, ValidInv, Replay
<1>5. /\ Returned(r, nl, "valid") /\ ranges' = remove_range(ranges, p) /\ Continue
      /\ UNCHANGED <<blocks, block_sizes>>
  BY <1>2 DEF ValidFree
<1>6. Listed(ranges', nl)
  BY <1>3, <1>4, <1>5, ListRemove
<1>7. HeapConsistent(r.heap, nl)
  BY <1>3 DEF Replay
<1> HIDE DEF r, nl
<1>8. NaiveInv' /\ heap' = r.heap /\ live' = nl /\ phase' = "valid"
  BY <1>3, <1>5, <1>7, CallReturns
<1>9. /\ SettingInv' /\ ReplayInv' /\ PassedInv' /\ StatsInv' /\ ReportInv'
      /\ Trace' = Trace /\ op' - 1 = op
  BY <1>1, <1>3, <1>5, <1>8, PassContinues
<1>10. ValidInv'
  <2>1. Sized(Trace, op, block_sizes')
    BY <1>2, <1>4, <1>5, SizedStep
  <2>2. ReadWell(Trace, op)
    BY <1>2, <1>4 DEF ReadWell, FREE, REALLOC
  <2>3. Filling(Trace, op, blocks, r.heap)
    BY <1>2, <1>3, <1>4, FillFree, Zenon
  <2> QED
    BY <1>5, <1>6, <1>8, <1>9, <2>1, <2>2, <2>3 DEF ValidInv
<1> QED
  BY <1>8, <1>9, <1>10 DEF DriverInv, UtilInv

\* A trace that passes fits the arena, so that no call of it fails.
LEMMA PassingFits ==
    ASSUME NEW ops, Good(ops), Passes(ops), NEW n \in 1 .. Len(ops)
    PROVE  ~(Cost(ops, n) > MAX_HEAP)
<1>1. Cost(ops, n) \in Nat /\ Cost(ops, n) <= ChunkBytes(ops) /\ ChunkBytes(ops) \in Nat
  BY CostSteps, CostPositive DEF Good
<1> QED
  BY <1>1, MemLibAssumption DEF Passes, FitsArena

\* Where eval_mm_util's statistics stand at a request, and where they then go.
LEMMA UtilAt ==
    ASSUME DriverInv, NEW type, At("util", type)
    PROVE  /\ Sized(Trace, op - 1, block_sizes)
           /\ total_size = LiveBytes(Trace, op - 1) /\ total_size = SumFunction(live)
           /\ total_size \in Nat /\ max_total_size \in Nat
           /\ IsFiniteSet(DOMAIN live) /\ \A p \in DOMAIN live : live[p] \in Nat
           /\ ~(Cost(Trace, op) > MAX_HEAP)
           /\ LiveBytes(Trace, op) \in Nat
           /\ LiveBytes(Trace, op) <= Cost(Trace, op)
           /\ max_total_size <= Cost(Trace, op)
           /\ Peak(Trace, op, Max({LiveBytes(Trace, op), max_total_size}))
           /\ Max({LiveBytes(Trace, op), max_total_size}) <= Cost(Trace, op)
           /\ Trace[op].type = FREE => Peak(Trace, op, max_total_size)
<1>1. /\ phase = "util" /\ Good(Trace) /\ op \in 1 .. Len(Trace) /\ Trace[op].type = type
      /\ Replay(Trace, op - 1, blocks, heap, live) /\ Len(Trace) \in Nat
  BY AtRequest
<1>2. /\ Sized(Trace, op - 1, block_sizes)
      /\ total_size = LiveBytes(Trace, op - 1) /\ total_size = SumFunction(live)
      /\ LiveBytes(Trace, op - 1) <= Cost(Trace, op - 1)
      /\ Peak(Trace, op - 1, max_total_size) /\ max_total_size <= Cost(Trace, op - 1)
      /\ Passes(Trace) /\ HeapConsistent(heap, live)
  BY <1>1 DEF DriverInv, UtilInv, PassedInv, Replay
<1>3. IsFiniteSet(DOMAIN live) /\ \A p \in DOMAIN live : live[p] \in Nat
  BY <1>2, LiveFinite DEF HeapConsistent
<1>4. total_size \in Nat
  <2>1. op - 1 \in 0 .. Len(Trace)
    BY <1>1
  <2> QED
    BY <1>1, <1>2, <2>1, LiveBytesSteps DEF Good
<1>5. ~(Cost(Trace, op) > MAX_HEAP)
  BY <1>1, <1>2, PassingFits
<1>6. /\ LiveBytes(Trace, op) \in Nat /\ max_total_size \in Nat
      /\ LiveBytes(Trace, op) <= Cost(Trace, op) /\ max_total_size <= Cost(Trace, op)
      /\ Peak(Trace, op, Max({LiveBytes(Trace, op), max_total_size}))
      /\ Max({LiveBytes(Trace, op), max_total_size}) <= Cost(Trace, op)
      /\ Trace[op].type = FREE => Peak(Trace, op, max_total_size)
  BY <1>1, <1>2, PeakStep, Zenon
<1> QED
  BY <1>2, <1>3, <1>4, <1>5, <1>6

\* ALLOC in eval_mm_util: the running total and its maximum follow the trace.
LEMMA UtilAllocStep ==
    ASSUME DriverInv, UtilAlloc
    PROVE  DriverInv'
<1> DEFINE x == Trace[op].index
           s == Trace[op].size
           r == mm_malloc(heap, s)
           q == heap.brk + 16
           nb == With(blocks, x, q)
           nl == With(live, q, s)
           t == LiveBytes(Trace, op)
<1>1. At("util", ALLOC)
  BY DEF UtilAlloc
<1>2. /\ phase = "util" /\ Good(Trace) /\ op \in 1 .. Len(Trace)
      /\ Request = Trace[op] /\ Trace[op].type = ALLOC /\ Trace[op].type # FREE
  BY <1>1, AtRequest DEF ALLOC, FREE
<1>3. /\ Sized(Trace, op - 1, block_sizes)
      /\ total_size = LiveBytes(Trace, op - 1) /\ total_size = SumFunction(live)
      /\ IsFiniteSet(DOMAIN live) /\ \A p \in DOMAIN live : live[p] \in Nat
      /\ ~(Cost(Trace, op) > MAX_HEAP)
      /\ t <= Cost(Trace, op)
      /\ Peak(Trace, op, Max({t, max_total_size}))
      /\ Max({t, max_total_size}) <= Cost(Trace, op)
  BY <1>1, UtilAt
<1>4. /\ r.ok = TRUE /\ r.ret = q /\ q # NULL
      /\ Replay(Trace, op, nb, r.heap, nl)
      /\ q \notin DOMAIN live
  BY <1>1, <1>3, CallAt
<1>5. s \in Nat
  BY <1>2, RequestIs
<1>6. total_size + s = t
  BY <1>2, <1>3, LiveBytesSteps DEF Good
<1>7. SumFunction(nl) = t
  <2> HIDE DEF q, s
  <2> QED
    BY <1>3, <1>4, <1>5, <1>6, SumWith
<1>8. /\ Returned(r, nl, "util") /\ blocks' = nb
      /\ block_sizes' = With(block_sizes, x, s) /\ Account(s) /\ Continue
  BY <1>2, <1>4 DEF UtilAlloc, Remember
<1> HIDE DEF r, nb, nl, t
<1>9. NaiveInv' /\ heap' = r.heap /\ live' = nl /\ phase' = "util"
  <2>1. HeapConsistent(r.heap, nl)
    BY <1>4 DEF Replay
  <2> QED
    BY <1>4, <1>8, <2>1, CallReturns
<1>10. /\ SettingInv' /\ ReplayInv' /\ PassedInv' /\ StatsInv' /\ ReportInv'
       /\ Trace' = Trace /\ op' - 1 = op
  BY <1>1, <1>4, <1>8, <1>9, PassContinues
<1>11. UtilInv'
  <2>1. Sized(Trace, op, block_sizes')
    BY <1>2, <1>3, <1>8, SizedStep
  <2>2. total_size' = t /\ max_total_size' = Max({t, max_total_size})
    BY <1>6, <1>8 DEF Account
  <2>3. heap'.brk = Cost(Trace, op)
    BY <1>4, <1>9 DEF Replay
  <2> QED
    BY <1>3, <1>7, <1>9, <1>10, <2>1, <2>2, <2>3 DEF UtilInv, t
<1> QED
  BY <1>9, <1>10, <1>11 DEF DriverInv, ValidInv

\* REALLOC in eval_mm_util: the old size is subtracted, the new one added.
LEMMA UtilReallocStep ==
    ASSUME DriverInv, UtilRealloc
    PROVE  DriverInv'
<1> DEFINE x == Trace[op].index
           s == Trace[op].size
           p == blocks[x]
           r == mm_realloc(heap, p, s)
           q == heap.brk + 16
           nb == With(blocks, x, q)
           k == Without(live, p)
           nl == With(k, q, s)
           t == LiveBytes(Trace, op)
<1>1. At("util", REALLOC)
  BY DEF UtilRealloc
<1>2. /\ phase = "util" /\ Good(Trace) /\ op \in 1 .. Len(Trace)
      /\ Request = Trace[op] /\ Trace[op].type = REALLOC /\ Trace[op].type # FREE
      /\ Holding(Trace, op - 1, blocks, live)
  BY <1>1, AtRequest DEF REALLOC, FREE, Replay
<1>3. /\ Sized(Trace, op - 1, block_sizes)
      /\ total_size = LiveBytes(Trace, op - 1) /\ total_size = SumFunction(live)
      /\ total_size \in Nat
      /\ IsFiniteSet(DOMAIN live) /\ \A b \in DOMAIN live : live[b] \in Nat
      /\ ~(Cost(Trace, op) > MAX_HEAP)
      /\ t <= Cost(Trace, op)
      /\ Peak(Trace, op, Max({t, max_total_size}))
      /\ Max({t, max_total_size}) <= Cost(Trace, op)
  BY <1>1, UtilAt
<1>4. /\ p \in DOMAIN live /\ r.ok = TRUE /\ r.ret = q /\ q # NULL
      /\ Replay(Trace, op, nb, r.heap, nl)
      /\ q \notin DOMAIN live
  BY <1>1, <1>3, CallAt
<1>5. /\ s \in Nat /\ x \in HeldIds(Trace, op - 1)
  BY <1>2, RequestIs DEF ALLOC, REALLOC
<1>6. /\ live[p] = LastSize(Trace, op - 1, x) /\ block_sizes[x] = live[p] /\ live[p] \in Nat
  BY <1>2, <1>3, <1>4, <1>5 DEF Holding, Sized
<1>7. total_size + (s - block_sizes[x]) = t
  BY <1>2, <1>3, <1>6, LiveBytesSteps DEF Good
<1>8. SumFunction(nl) = t
  <2>1. SumFunction(k) = total_size - live[p]
    BY <1>3, <1>4, SumWithout
  <2>2. /\ IsFiniteSet(DOMAIN k) /\ \A b \in DOMAIN k : k[b] \in Nat
        /\ q \notin DOMAIN k
    BY <1>3, <1>4, FS_Subset DEF Without
  <2> HIDE DEF k, q, s
  <2>3. SumFunction(nl) = SumFunction(k) + s
    BY <1>5, <2>2, SumWith
  <2> HIDE DEF nl, p, t
  <2> QED
    BY <1>3, <1>5, <1>6, <1>7, <2>1, <2>3
<1>9. /\ Returned(r, nl, "util") /\ blocks' = nb
      /\ block_sizes' = With(block_sizes, x, s) /\ Account(s - block_sizes[x]) /\ Continue
  BY <1>2, <1>4 DEF UtilRealloc, Remember
<1> HIDE DEF r, nb, nl, t
<1>10. NaiveInv' /\ heap' = r.heap /\ live' = nl /\ phase' = "util"
  <2>1. HeapConsistent(r.heap, nl)
    BY <1>4 DEF Replay
  <2> QED
    BY <1>4, <1>9, <2>1, CallReturns
<1>11. /\ SettingInv' /\ ReplayInv' /\ PassedInv' /\ StatsInv' /\ ReportInv'
       /\ Trace' = Trace /\ op' - 1 = op
  BY <1>1, <1>4, <1>9, <1>10, PassContinues
<1>12. UtilInv'
  <2>1. Sized(Trace, op, block_sizes')
    BY <1>2, <1>3, <1>9, SizedStep
  <2>2. total_size' = t /\ max_total_size' = Max({t, max_total_size})
    BY <1>7, <1>9 DEF Account
  <2>3. heap'.brk = Cost(Trace, op)
    BY <1>4, <1>10 DEF Replay
  <2> QED
    BY <1>3, <1>8, <1>10, <1>11, <2>1, <2>2, <2>3 DEF UtilInv, t
<1> QED
  BY <1>10, <1>11, <1>12 DEF DriverInv, ValidInv

\* FREE in eval_mm_util: the size is subtracted, the maximum stays.
LEMMA UtilFreeStep ==
    ASSUME DriverInv, UtilFree
    PROVE  DriverInv'
<1> DEFINE x == Trace[op].index
           p == blocks[x]
           r == mm_free(heap, p)
           nl == Without(live, p)
           t == LiveBytes(Trace, op)
<1>1. At("util", FREE)
  BY DEF UtilFree
<1>2. /\ phase = "util" /\ Good(Trace) /\ op \in 1 .. Len(Trace)
      /\ Request = Trace[op] /\ Trace[op].type = FREE
      /\ Holding(Trace, op - 1, blocks, live)
  BY <1>1, AtRequest DEF Replay
<1>3. /\ Sized(Trace, op - 1, block_sizes)
      /\ total_size = LiveBytes(Trace, op - 1) /\ total_size = SumFunction(live)
      /\ IsFiniteSet(DOMAIN live) /\ \A b \in DOMAIN live : live[b] \in Nat
      /\ t <= Cost(Trace, op) /\ max_total_size <= Cost(Trace, op)
      /\ Peak(Trace, op, max_total_size)
  BY <1>1, <1>2, UtilAt
<1>4. /\ p \in DOMAIN live /\ r.ok = TRUE /\ Replay(Trace, op, blocks, r.heap, nl)
  BY <1>1, CallAt
<1>5. x \in HeldIds(Trace, op - 1)
  BY <1>2, RequestIs DEF ALLOC, FREE
<1>6. /\ live[p] = LastSize(Trace, op - 1, x) /\ block_sizes[x] = live[p]
  BY <1>2, <1>3, <1>4, <1>5 DEF Holding, Sized
<1>7. total_size - block_sizes[x] = t
  BY <1>2, <1>3, <1>6, LiveBytesSteps DEF Good
<1>8. SumFunction(nl) = t
  BY <1>3, <1>4, <1>6, <1>7, SumWithout
<1>9. /\ Returned(r, nl, "util") /\ UNCHANGED <<blocks, block_sizes, max_total_size>>
      /\ total_size' = total_size - block_sizes[x] /\ Continue
  BY <1>2, <1>4 DEF UtilFree, books
<1> HIDE DEF r, nl, t
<1>10. NaiveInv' /\ heap' = r.heap /\ live' = nl /\ phase' = "util"
  <2>1. HeapConsistent(r.heap, nl)
    BY <1>4 DEF Replay
  <2> QED
    BY <1>4, <1>9, <2>1, CallReturns
<1>11. /\ SettingInv' /\ ReplayInv' /\ PassedInv' /\ StatsInv' /\ ReportInv'
       /\ Trace' = Trace /\ op' - 1 = op
  BY <1>1, <1>4, <1>9, <1>10, PassContinues
<1>12. UtilInv'
  <2>1. Sized(Trace, op, block_sizes')
    BY <1>2, <1>3, <1>9, SizedStep
  <2>2. heap'.brk = Cost(Trace, op)
    BY <1>4, <1>10 DEF Replay
  <2> QED
    BY <1>3, <1>7, <1>8, <1>9, <1>10, <1>11, <2>1, <2>2 DEF UtilInv, t
<1> QED
  BY <1>10, <1>11, <1>12 DEF DriverInv, ValidInv

\* The three requests of eval_mm_speed: the replay of a trace that fits.
LEMMA SpeedSteps ==
    ASSUME DriverInv, SpeedAlloc \/ SpeedRealloc \/ SpeedFree
    PROVE  DriverInv'
<1> DEFINE x == Trace[op].index
           s == Trace[op].size
           p == blocks[x]
           q == heap.brk + 16
           nb == With(blocks, x, q)
<1>1. ASSUME NEW type, At("speed", type), NEW r, r.ok = TRUE, NEW l,
             Returned(r, l, "speed"), Continue, Replay(Trace, op, blocks', r.heap, l)
      PROVE  DriverInv'
  <2>1. HeapConsistent(r.heap, l)
    BY <1>1 DEF Replay
  <2>2. NaiveInv' /\ heap' = r.heap /\ live' = l /\ phase' = "speed"
    BY <1>1, <2>1, CallReturns
  <2>3. SettingInv' /\ ReplayInv' /\ PassedInv' /\ StatsInv' /\ ReportInv'
    BY <1>1, <2>2, PassContinues
  <2> QED
    BY <2>2, <2>3 DEF DriverInv, ValidInv, UtilInv
<1>2. ASSUME NEW type, At("speed", type)
      PROVE  Request = Trace[op] /\ ~(Cost(Trace, op) > MAX_HEAP)
  <2>1. /\ phase = "speed" /\ Good(Trace) /\ op \in 1 .. Len(Trace) /\ Request = Trace[op]
    BY <1>2, AtRequest
  <2>2. Passes(Trace)
    BY <2>1 DEF DriverInv, PassedInv
  <2> QED
    BY <2>1, <2>2, PassingFits
<1>3. CASE SpeedAlloc
  <2> DEFINE r == mm_malloc(heap, s)
             nl == With(live, q, s)
  <2>1. At("speed", ALLOC)
    BY <1>3 DEF SpeedAlloc
  <2>2. Request = Trace[op] /\ ~(Cost(Trace, op) > MAX_HEAP)
    BY <1>2, <2>1
  <2>3. r.ok = TRUE /\ r.ret = q /\ q # NULL /\ Replay(Trace, op, nb, r.heap, nl)
    BY <2>1, <2>2, CallAt
  <2>4. Returned(r, nl, "speed") /\ blocks' = nb /\ Continue
    BY <1>3, <2>2, <2>3 DEF SpeedAlloc
  <2> HIDE DEF r, nl, nb
  <2> QED
    BY <1>1, <2>1, <2>3, <2>4
<1>4. CASE SpeedRealloc
  <2> DEFINE r == mm_realloc(heap, p, s)
             nl == With(Without(live, p), q, s)
  <2>1. At("speed", REALLOC)
    BY <1>4 DEF SpeedRealloc
  <2>2. Request = Trace[op] /\ ~(Cost(Trace, op) > MAX_HEAP)
    BY <1>2, <2>1
  <2>3. r.ok = TRUE /\ r.ret = q /\ q # NULL /\ Replay(Trace, op, nb, r.heap, nl)
    BY <2>1, <2>2, CallAt
  <2>4. Returned(r, nl, "speed") /\ blocks' = nb /\ Continue
    BY <1>4, <2>2, <2>3 DEF SpeedRealloc
  <2> HIDE DEF r, nl, nb
  <2> QED
    BY <1>1, <2>1, <2>3, <2>4
<1>5. CASE SpeedFree
  <2> DEFINE r == mm_free(heap, p)
             nl == Without(live, p)
  <2>1. At("speed", FREE)
    BY <1>5 DEF SpeedFree
  <2>2. Request = Trace[op]
    BY <1>2, <2>1
  <2>3. r.ok = TRUE /\ Replay(Trace, op, blocks, r.heap, nl)
    BY <2>1, CallAt
  <2>4. Returned(r, nl, "speed") /\ blocks' = blocks /\ Continue
    BY <1>5, <2>2, <2>3 DEF SpeedFree, books
  <2> HIDE DEF r, nl
  <2> QED
    BY <1>1, <2>1, <2>3, <2>4
<1> QED
  BY <1>3, <1>4, <1>5

\* The driver's books agree with the package's blocks, and its judgements with the
\* traces, in every state: for every arena and int width, every list of files in
\* which the usable ones are well-formed, and any number of runs for speed.
THEOREM DriverInvariant ==
    ASSUME WellFormedFiles
    PROVE  DriverSpec => []DriverInv
<1>1. ASSUME DriverInv, [DriverNext]_driverVars
      PROVE  DriverInv'
  <2>1. CASE EvalLibc \/ LibcFails \/ LibcDone \/ BadFile
    BY <1>1, <2>1, MainSteps
  <2>2. CASE ReadTrace
    BY <1>1, <2>2, ReadTraceStep
  <2>3. CASE ValidAlloc \/ ValidAllocError
    BY <1>1, <2>3, ValidAllocStep, ValidAllocErrorStep
  <2>4. CASE ValidRealloc \/ ValidReallocError
    BY <1>1, <2>4, ValidReallocStep, ValidReallocErrorStep
  <2>5. CASE ValidFree \/ ValidDone
    BY <1>1, <2>5, ValidFreeStep, ValidDoneStep
  <2>6. CASE UtilAlloc \/ UtilRealloc \/ UtilFree \/ UtilDone
    BY <1>1, <2>6, UtilAllocStep, UtilReallocStep, UtilFreeStep, UtilDoneStep
  <2>7. CASE SpeedAlloc \/ SpeedRealloc \/ SpeedFree
    BY <1>1, <2>7, SpeedSteps
  <2>8. CASE SpeedAgain \/ SpeedDone
    BY <1>1, <2>8, SpeedEndSteps
  <2>9. CASE Finish
    BY <1>1, <2>9, FinishStep
  <2>10. CASE UNCHANGED driverVars
    <3>1. UNCHANGED <<heap, live, aborted, blocks, block_sizes, ranges, total_size,
                      max_total_size, files, phase, i, op, errors, stats, report>>
      BY <2>10 DEF driverVars, package, books, util
    <3>2. SettingInv' /\ StatsInv' /\ ReportInv'
      BY <1>1, <3>1 DEF DriverInv, SettingInv, StatsInv, ReportInv, NaiveInv, AssertsHold
    <3>3. ReplayInv' /\ ValidInv' /\ UtilInv' /\ PassedInv'
      BY <1>1, <3>1 DEF DriverInv, ReplayInv, ValidInv, UtilInv, PassedInv, Trace, Evaluating
    <3> QED
      BY <3>2, <3>3 DEF DriverInv
  <2> QED
    BY <1>1, <2>1, <2>2, <2>3, <2>4, <2>5, <2>6, <2>7, <2>8, <2>9, <2>10
       DEF DriverNext, DriverStep, Terminated
<1> QED
  BY <1>1, DriverStarts, PTL DEF DriverSpec

-----------------------------------------------------------------------------
(* The properties of MDriver.                                              *)

\* The driver's array of blocks names exactly the package's blocks, in every pass
\* over every trace: no pointer of an earlier pass is ever used.
THEOREM DriverBooks ==
    ASSUME WellFormedFiles
    PROVE  DriverSpec => []BooksMatchPackage
<1>1. ASSUME DriverInv PROVE BooksMatchPackage
  <2> SUFFICES ASSUME Evaluating
               PROVE  LET ids == HeldIds(files[i].ops, op - 1)
                      IN  /\ DOMAIN live = {blocks[x] : x \in ids}
                          /\ Cardinality(DOMAIN live) = Cardinality(ids)
                          /\ \A x \in ids : live[blocks[x]] = LastSize(files[i].ops, op - 1, x)
    BY DEF BooksMatchPackage
  <2> DEFINE ids == HeldIds(Trace, op - 1)
             f == [x \in ids |-> blocks[x]]
  <2>1. Holding(Trace, op - 1, blocks, live) /\ op - 1 \in Nat
    BY <1>1 DEF DriverInv, ReplayInv, Replay, Good
  <2>2. /\ DOMAIN live = {blocks[x] : x \in ids}
        /\ \A x \in ids : live[blocks[x]] = LastSize(Trace, op - 1, x)
        /\ \A x, y \in ids : blocks[x] = blocks[y] => x = y
    BY <2>1 DEF Holding
  <2> HIDE DEF ids
  <2>3. f \in Bijection(ids, DOMAIN live)
    <3>1. f \in [ids -> DOMAIN live]
      BY <2>2
    <3>2. \A x, y \in ids : f[x] = f[y] => x = y
      BY <2>2
    <3>3. \A p \in DOMAIN live : \E x \in ids : f[x] = p
      BY <2>2
    <3> HIDE DEF f
    <3> QED
      BY <3>1, <3>2, <3>3 DEF Bijection, Injection, Surjection, IsInjective
  <2>4. ExistsBijection(ids, DOMAIN live)
    BY <2>3 DEF ExistsBijection
  <2>5. IsFiniteSet(ids)
    BY <2>1, HeldFinite DEF ids
  <2>6. Cardinality(DOMAIN live) = Cardinality(ids)
    BY <2>4, <2>5, FS_Bijection
  <2> QED
    BY <2>2, <2>6 DEF ids, Trace
<1> QED
  BY <1>1, DriverInvariant, PTL

\* During eval_mm_valid the range list is the extents of the package's blocks.
THEOREM DriverRanges ==
    ASSUME WellFormedFiles
    PROVE  DriverSpec => []RangesMatchPackage
<1>1. ASSUME DriverInv PROVE RangesMatchPackage
  <2>1. phase = "valid" => Listed(ranges, live)
    BY <1>1 DEF DriverInv, ValidInv
  <2> QED
    BY <2>1, ListedExact DEF RangesMatchPackage
<1> QED
  BY <1>1, DriverInvariant, PTL

\* eval_mm_util's running total is the bytes of the blocks that are out.
THEOREM DriverTotal ==
    ASSUME WellFormedFiles
    PROVE  DriverSpec => []TotalIsLiveBytes
<1>1. ASSUME DriverInv PROVE TotalIsLiveBytes
  BY <1>1 DEF DriverInv, UtilInv, TotalIsLiveBytes
<1> QED
  BY <1>1, DriverInvariant, PTL

\* A trace that eval_mm_valid has passed never fails in eval_mm_util or
\* eval_mm_speed, and no assert of the package or of add_range fails.
THEOREM DriverReplays ==
    ASSUME WellFormedFiles
    PROVE  DriverSpec => []ReplaysNeverFail
<1>1. ASSUME DriverInv PROVE ReplaysNeverFail
  BY <1>1 DEF DriverInv, SettingInv, ReplaysNeverFail
<1> QED
  BY <1>1, DriverInvariant, PTL

\* The utilisation of a valid trace, the verdict on a trace without a high fill, and
\* the count of errors follow from the request lines of the files alone.
THEOREM DriverJudgement ==
    ASSUME WellFormedFiles
    PROVE  DriverSpec => []JudgementExact
<1>1. ASSUME DriverInv PROVE JudgementExact
  <2>1. DOMAIN stats = 1 .. Len(stats)
    BY <1>1, LenProperties DEF DriverInv, StatsInv
  <2>2. \A k \in DOMAIN stats :
            LET ops == files[k].ops
            IN  /\ stats[k].valid => /\ FitsArena(ops)
                                     /\ stats[k].hwm = PeakBytes(ops)
                                     /\ stats[k].heapsize = ChunkBytes(ops)
                                     /\ stats[k].hwm <= stats[k].heapsize
                /\ FitsArena(ops) /\ ~HighFill(ops) => stats[k].valid
    BY <1>1, <2>1 DEF DriverInv, StatsInv, Judged, Passes
  <2>3. /\ phase # "unix_error" =>
               errors = Cardinality({k \in DOMAIN stats : ~stats[k].valid})
        /\ phase = "done" => Len(stats) = Len(files)
    BY <1>1 DEF DriverInv, StatsInv
  <2> QED
    BY <2>2, <2>3 DEF JudgementExact
<1> QED
  BY <1>1, DriverInvariant, PTL

\* The verdict on every trace, from its request lines.
VerdictByRequests == \A k \in DOMAIN stats : stats[k].valid <=> Passes(files[k].ops)

\* mdriver.c finds a trace of mm-naive.c valid exactly when its chunks fit the arena
\* and it reallocates no id whose low byte is 128 or more.
THEOREM DriverVerdict ==
    ASSUME WellFormedFiles
    PROVE  DriverSpec => []VerdictByRequests
<1>1. ASSUME DriverInv PROVE VerdictByRequests
  <2>1. DOMAIN stats = 1 .. Len(stats)
    BY <1>1, LenProperties DEF DriverInv, StatsInv
  <2> QED
    BY <1>1, <2>1 DEF DriverInv, StatsInv, Judged, VerdictByRequests
<1> QED
  BY <1>1, DriverInvariant, PTL

\* A positive factor of both sides of an inequality goes.
LEMMA Cancel ==
    ASSUME NEW a \in Int, NEW b \in Int, NEW m \in Nat \ {0}, a * m <= b * m
    PROVE  a <= b
<1> SUFFICES ASSUME a > b PROVE FALSE
  OBVIOUS
<1>1. (a - b - 1) \in Nat
  OBVIOUS
<1>2. (a - b - 1) * m \in Nat
  BY <1>1
<1>3. (a - b - 1) * m = a * m - b * m - m
  OBVIOUS
<1>4. a * m \in Int /\ b * m \in Int
  OBVIOUS
<1> QED
  BY <1>2, <1>3, <1>4

\* Division rounds down.
LEMMA Quotient ==
    ASSUME NEW n \in Nat, NEW d \in Nat \ {0}
    PROVE  /\ n \div d \in Int
           /\ (n \div d) * d <= n /\ n < (n \div d + 1) * d
           /\ n % d = 0 => n = (n \div d) * d
OBVIOUS

\* What a double cut to an int can be.
LEMMA TruncatedBounds ==
    ASSUME NEW n \in Nat, NEW d \in Nat \ {0}, NEW v \in Truncated(n, d)
    PROVE  v \in Int /\ v * d <= n /\ n <= (v + 1) * d
<1> DEFINE w == n \div d
<1>1. w \in Int /\ w * d <= n /\ n < (w + 1) * d /\ (n % d = 0 => n = w * d)
  BY Quotient
<1>2. v = w \/ (v = w - 1 /\ n % d = 0)
  BY DEF Truncated
<1> HIDE DEF w
<1>3. CASE v = w
  <2>1. w * d \in Int /\ (w + 1) * d \in Int
    BY <1>1
  <2> QED
    BY <1>1, <1>3, <2>1
<1>4. CASE v = w - 1 /\ n % d = 0
  <2>1. v \in Int /\ v + 1 = w
    BY <1>1, <1>4
  <2>2. n = (v + 1) * d
    BY <1>1, <1>4, <2>1
  <2>3. (v + 1) * d = v * d + d /\ v * d \in Int
    BY <2>1
  <2> QED
    BY <2>1, <2>2, <2>3
<1> QED
  BY <1>2, <1>3, <1>4

\* The index of a trace that passed, whatever the times of both packages.
LEMMA PerfindexBounds ==
    ASSUME NEW h \in Nat, NEW c \in Nat \ {0}, NEW t \in Nat \ {0}, NEW m \in Nat \ {0},
           NEW v \in Truncated(UTIL_WEIGHT * h * m
                                  + (100 - UTIL_WEIGHT) * c * Min({t, m}), c * m)
    PROVE  v * c <= 60 * h + 40 * c /\ (v + 1) * c >= 60 * h
<1> DEFINE u == Min({t, m})
           n == 60 * h * m + 40 * c * u
           d == c * m
<1>1. u \in Nat /\ u <= m
  BY MinOfTwo
<1> HIDE DEF u
<1>2. n \in Nat /\ d \in Nat \ {0}
  <2>1. h * m \in Nat /\ c * u \in Nat /\ c * m \in Nat /\ c * m # 0
    BY <1>1
  <2>2. n = 60 * (h * m) + 40 * (c * u)
    BY <1>1
  <2> HIDE DEF n
  <2> QED
    BY <2>1, <2>2
<1>3. v \in Truncated(n, d)
  BY DEF UTIL_WEIGHT, u
<1>4. v \in Int /\ v * d <= n /\ n <= (v + 1) * d
  <2> HIDE DEF n, d
  <2> QED
    BY <1>2, <1>3, TruncatedBounds
<1>5. c * u <= c * m /\ c * u \in Nat /\ c * m \in Nat /\ h * m \in Nat
  <2>1. (m - u) \in Nat
    BY <1>1
  <2>2. c * (m - u) \in Nat
    BY <2>1
  <2>3. c * (m - u) = c * m - c * u
    BY <1>1
  <2>4. c * u \in Nat /\ c * m \in Nat /\ h * m \in Nat
    BY <1>1
  <2> QED
    BY <2>2, <2>3, <2>4
<1>6. (v * c) * m <= (60 * h + 40 * c) * m
  <2>1. (v * c) * m = v * d
    BY <1>4
  <2>2. (60 * h + 40 * c) * m = 60 * (h * m) + 40 * (c * m)
    OBVIOUS
  <2>3. n = 60 * (h * m) + 40 * (c * u)
    BY <1>1
  <2>4. v * d \in Int
    BY <1>2, <1>4
  <2> HIDE DEF n, d
  <2> QED
    BY <1>2, <1>4, <1>5, <2>1, <2>2, <2>3, <2>4
<1>7. (60 * h) * m <= ((v + 1) * c) * m
  <2>1. ((v + 1) * c) * m = (v + 1) * d
    BY <1>4
  <2>2. (60 * h) * m = 60 * (h * m)
    OBVIOUS
  <2>3. n = 60 * (h * m) + 40 * (c * u)
    BY <1>1
  <2>4. (v + 1) * d \in Int
    BY <1>2, <1>4
  <2> HIDE DEF n, d
  <2> QED
    BY <1>2, <1>4, <1>5, <2>1, <2>2, <2>3, <2>4
<1>8. v * c \in Int /\ (v + 1) * c \in Int /\ 60 * h + 40 * c \in Int /\ 60 * h \in Int
  BY <1>4
<1>9. v * c <= 60 * h + 40 * c
  BY <1>6, <1>8, Cancel
<1>10. 60 * h <= (v + 1) * c
  BY <1>7, <1>8, Cancel
<1> QED
  BY <1>8, <1>9, <1>10

\* The score of every trace lies between what its utilisation earns and 40 more,
\* whatever the times measured, and the traces that failed earn nothing.
THEOREM DriverPerfIndex ==
    ASSUME WellFormedFiles
    PROVE  DriverSpec => []PerfIndexBounded
<1>1. ASSUME DriverInv PROVE PerfIndexBounded
  <2> SUFFICES ASSUME phase = "done"
               PROVE  /\ report.numcorrect = Len(files) - errors
                      /\ \A k \in DOMAIN files :
                            LET peak == PeakBytes(files[k].ops)
                                cost == ChunkBytes(files[k].ops)
                                got  == report.perfindex[k]
                            IN  IF ~stats[k].valid THEN got = 0
                                ELSE /\ got * cost <= 60 * peak + 40 * cost
                                     /\ (got + 1) * cost >= 60 * peak
    BY DEF PerfIndexBounded
  <2>1. /\ stats \in Seq(Judgements) /\ Len(stats) = Len(files) /\ Len(files) \in Nat
        /\ DOMAIN files = 1 .. Len(files)
        /\ \A k \in 1 .. Len(stats) : Judged(files[k].ops, stats[k])
        /\ errors = Cardinality({k \in DOMAIN stats : ~stats[k].valid})
        /\ report.numcorrect = Cardinality({k \in DOMAIN stats : stats[k].valid})
        /\ \A k \in 1 .. Len(stats) : report.perfindex[k] \in Scores(stats[k])
    BY <1>1, MDriverAssumption DEF DriverInv, SettingInv, StatsInv, ReportInv
  <2>2. DOMAIN stats = 1 .. Len(files)
    BY <2>1, LenProperties
  <2>3. report.numcorrect = Len(files) - errors
    <3> DEFINE S == 1 .. Len(files)
               B == {k \in DOMAIN stats : ~stats[k].valid}
               G == {k \in DOMAIN stats : stats[k].valid}
    <3>1. IsFiniteSet(S) /\ Cardinality(S) = Len(files)
      <4>1. \A b \in Int : /\ IsFiniteSet(1 .. b)
                           /\ Cardinality(1 .. b) = IF 1 > b THEN 0 ELSE b - 1 + 1
        BY FS_Interval
      <4> QED
        BY <2>1, <4>1
    <3>2. G = S \ B /\ S \cap B = B
      BY <2>2
    <3>3. Cardinality(S \ B) = Cardinality(S) - Cardinality(S \cap B)
      BY <3>1, FS_Difference
    <3> HIDE DEF S
    <3> QED
      BY <2>1, <3>1, <3>2, <3>3
  <2>4. ASSUME NEW k \in 1 .. Len(files)
        PROVE  LET peak == PeakBytes(files[k].ops)
                   cost == ChunkBytes(files[k].ops)
                   got  == report.perfindex[k]
               IN  IF ~stats[k].valid THEN got = 0
                   ELSE /\ got * cost <= 60 * peak + 40 * cost
                        /\ (got + 1) * cost >= 60 * peak
    <3> DEFINE ops == files[k].ops
               st == stats[k]
               got == report.perfindex[k]
               peak == PeakBytes(ops)
               cost == ChunkBytes(ops)
    <3>1. Judged(ops, st) /\ got \in Scores(st) /\ st \in Judgements
      BY <2>1, ElementOfSeq
    <3>2. PICK t \in Secs, m \in Secs : got \in calculate_perfindex(st, t, m)
      BY <3>1 DEF Scores
    <3>3. t \in Nat \ {0} /\ m \in Nat \ {0}
      BY MDriverAssumption
    <3>4. CASE ~st.valid
      <4>1. got = 0
        BY <3>2, <3>4 DEF calculate_perfindex
      <4> QED
        BY <3>4, <4>1
    <3>5. CASE st.valid
      <4>1. /\ st.valid /\ st.hwm = peak /\ st.heapsize = cost /\ Good(ops)
        BY <3>1, <3>5 DEF Judged
      <4>2. st.hwm \in Nat
        BY <3>1, <4>1 DEF Judgements
      <4>3. cost \in Nat \ {0}
        BY <4>1, CostPositive DEF Good
      <4> DEFINE z == UTIL_WEIGHT * peak * m + (100 - UTIL_WEIGHT) * cost * Min({t, m})
      <4>4. got \in Truncated(z, cost * m)
        BY <3>2, <4>1 DEF calculate_perfindex
      <4> HIDE DEF got, peak, cost
      <4>5. got * cost <= 60 * peak + 40 * cost /\ (got + 1) * cost >= 60 * peak
        BY <3>3, <4>1, <4>2, <4>3, <4>4, PerfindexBounds
      <4> QED
        BY <3>5, <4>5 DEF got, peak, cost
    <3> QED
      BY <3>4, <3>5
  <2> QED
    BY <2>1, <2>3, <2>4
<1> QED
  BY <1>1, DriverInvariant, PTL

=============================================================================
