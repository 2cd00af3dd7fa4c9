------------------------------- MODULE Bloom --------------------------------
(***************************************************************************)
(* The Bloom filter of rklab/bloom.c.  A filter is its size in bits and    *)
(* the set of the positions that are set; position 0 is the leftmost bit   *)
(* of the first byte.  bloom_add and bloom_query are left to the student:  *)
(* bloom_add is modelled after bloom_add_1 of rkgrep_harness.o.            *)
(***************************************************************************)
EXTENDS RkHash, FiniteSetsExt

CONSTANTS H1PRIME, H2PRIME, BLOOM_HASH_NUM

ASSUME BloomAssumption ==
    H1PRIME \in Nat \ {0} /\ H2PRIME \in Nat \ {0} /\ BLOOM_HASH_NUM \in Nat

hash_i(i, x) == CMod(x, H1PRIME) + i * CMod(x, H2PRIME) + 1 + i * i

\* Defined for bsz % 8 = 0 only: the code asserts it.
bloom_init(bsz) == [bsz |-> bsz, bits |-> {}]

\* The bits of an element; with bsz = 0 the code divides by zero.
Positions(elm, bsz) == {CMod(hash_i(i, elm), bsz) : i \in 0 .. BLOOM_HASH_NUM - 1}

bloom_add(bf, elm) == [bf EXCEPT !.bits = @ \cup Positions(elm, bf.bsz)]

bloom_query(bf, elm) == Positions(elm, bf.bsz) \subseteq bf.bits

\* bf->buf[b] as the signed char that it is.
Byte(bf, b) ==
    LET weight == [w \in 0 .. 7 |-> 2 ^ (7 - w)]
        value == SumFunctionOnSet(weight, {w \in 0 .. 7 : 8 * b + w \in bf.bits})
    IN  IF value >= 128 THEN value - 256 ELSE value

\* The shifts are done in int: nothing is shifted out on the left, and a
\* negative byte stays negative.
bloom_bit_at_pos(bf, pos) ==
    ((Byte(bf, pos \div 8) * 2 ^ (pos % 8)) \div 2 ^ (7 - (pos % 8))) # 0

\* The hashes of the windows of m characters by their positions, rolled from the
\* first with the given h.  text[k + 1] is the byte at doc + k.
Windows(m, len, text, h) ==
    LET next(w) == [curr_hash \in Int |-> rkhash_next(curr_hash, h, text[w], text[w + m])]
        hash[w \in 0 .. Max({0, len - m})] ==
            IF w = 0 THEN rkhash_init(SubSeq(text, 1, m)) ELSE next(w)[hash[w - 1]]
    IN  hash

\* The filter of all windows of a document.
rk_create_doc_bloom(m, len, text, bloom_size) ==
    LET empty == bloom_init(bloom_size)
    IN  [empty EXCEPT !.bits = UNION {bloom_add(empty, hash).bits :
                                          hash \in Range(Windows(m, len, text, rkhash_h(m)))}]
=============================================================================
