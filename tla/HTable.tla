-------------------------------- MODULE HTable ------------------------------
(***************************************************************************)
(* threadlab/htable.c used by one thread: a hash table with chaining that  *)
(* resizes itself.  A chain is the sequence of its nodes' keys and values. *)
(***************************************************************************)
EXTENDS Integers, SequencesExt

CONSTANTS
    Keys, Vals,     \* a key is the sequence of its characters
    None,           \* the NULL of htable_lookup
    BIG_PRIME,      \* 1560007 in htable.h
    InitSizes,      \* the sizes htable_init is called with
    MAX_COLLISION   \* 10 in htable.c

\* What a char may hold here: above 127 it is negative, and so may the hash be.
ASCII == 1 .. 127

ASSUME HTableAssumption ==
    /\ Keys \subseteq Seq(ASCII)
    /\ BIG_PRIME \in Nat /\ BIG_PRIME > 127
    /\ InitSizes \subseteq Nat
    /\ MAX_COLLISION \in Nat

VARIABLES
    size,           \* ht->size; 0 when no table is initialised
    store,          \* ht->store: slot -> chain
    allow_resize,   \* ht->allow_resize
    result          \* the value the last call returned

tableVars == <<size, store, allow_resize, result>>

-----------------------------------------------------------------------------
(* Hash codes: a string's bytes read as a number, modulo BIG_PRIME.  The    *)
(* greatest product, 256 * BIG_PRIME, fits an int.                         *)

\* BIG_PRIME itself is left as it is.
madd(a, b) == IF a + b > BIG_PRIME THEN a + b - BIG_PRIME ELSE a + b

mmul(a, b) == (a * b) % BIG_PRIME

hashcode(s) ==
    LET p[i \in 0 .. Len(s)] == IF i = 0 THEN 0 ELSE madd(mmul(p[i - 1], 256), s[i])
    IN  p[Len(s)]

-----------------------------------------------------------------------------
(* Sizes.                                                                  *)

\* Mutant: the loop stops before the square root.
is_prime_BelowRoot(n) ==
    \/ n <= 3
    \/ n % 2 # 0 /\ \A d \in 3 .. n - 1 : d % 2 = 1 /\ d * d < n => n % d # 0

is_prime(n) ==
    \/ n <= 3
    \/ n % 2 # 0 /\ \A d \in 3 .. n - 1 : d % 2 = 1 => n % d # 0

\* The first n from min on that passes; one lies below 2 * min + 3.
get_prime(min) == Min({n \in min .. 2 * min + 3 : is_prime(n)})

-----------------------------------------------------------------------------
(* The table.                                                              *)

Slots(n) == 0 .. n - 1

EmptyStore(n) == [s \in Slots(n) |-> <<>>]

SlotOf(k, n) == hashcode(k) % n

Has(chain, k) == \E j \in DOMAIN chain : chain[j].key = k

\* Mutant: the slots keep their numbers, as if a slot were not taken modulo
\* the new size.
htable_resize_SameSlots(old, oldSize, newSize) ==
    [s \in Slots(newSize) |-> IF s < oldSize THEN Reverse(old[s]) ELSE <<>>]

\* A node becomes the head of its new chain.
Push(new, n, newSize) == [new EXCEPT ![SlotOf(n.key, newSize)] = <<n>> \o @]

\* The inner loop of htable_resize: a chain is walked from its head.
MoveChain(new, chain, newSize) ==
    LET after[j \in 0 .. Len(chain)] ==
            IF j = 0 THEN new ELSE Push(after[j - 1], chain[j], newSize)
    IN  after[Len(chain)]

\* The outer one: the chains, slot by slot.
htable_resize(old, oldSize, newSize) ==
    LET after[i \in 0 .. oldSize] ==
            IF i = 0 THEN EmptyStore(newSize)
            ELSE MoveChain(after[i - 1], old[i - 1], newSize)
    IN  after[oldSize]

TableInit ==
    /\ size = 0
    /\ store = EmptyStore(0)
    /\ allow_resize = FALSE
    /\ result = None

htable_init(sz, resize) ==
    /\ size = 0
    /\ size' = get_prime(sz + 1)
    /\ store' = EmptyStore(get_prime(sz + 1))
    /\ allow_resize' = resize
    /\ result' = None

\* Mutant: the chain is not searched, and the node goes to its head.
htable_insert_Blind(k, v) ==
    /\ size > 0
    /\ store' = [store EXCEPT ![SlotOf(k, size)] = <<[key |-> k, val |-> v]>> \o @]
    /\ result' = 0
    /\ UNCHANGED <<size, allow_resize>>

\* The chain is searched first; a new node goes to its end, and a chain that
\* had MAX_COLLISION nodes already makes the table resize.
htable_insert(k, v) ==
    LET slot  == SlotOf(k, size)
        added == [store EXCEPT ![slot] = Append(@, [key |-> k, val |-> v])]
    IN  /\ size > 0
        /\ IF Has(store[slot], k)
           THEN result' = 1 /\ UNCHANGED <<size, store>>
           ELSE /\ result' = 0
                /\ IF allow_resize /\ Len(store[slot]) >= MAX_COLLISION
                   THEN /\ size' = get_prime(2 * size)
                        /\ store' = htable_resize(added, size, get_prime(2 * size))
                   ELSE store' = added /\ UNCHANGED size
        /\ UNCHANGED allow_resize

htable_lookup(k) ==
    LET chain == store[SlotOf(k, size)]
    IN  /\ size > 0
        /\ result' = IF Has(chain, k)
                     THEN chain[SelectInSeq(chain, LAMBDA n : n.key = k)].val
                     ELSE None
        /\ UNCHANGED <<size, store, allow_resize>>

\* Frees every chain and the array; the table may be initialised again.
htable_destroy ==
    /\ size > 0
    /\ size' = 0
    /\ store' = EmptyStore(0)
    /\ result' = None
    /\ UNCHANGED allow_resize

TableNext ==
    \/ \E sz \in InitSizes, r \in BOOLEAN : htable_init(sz, r)
    \/ \E k \in Keys, v \in Vals : htable_insert(k, v)
    \/ \E k \in Keys : htable_lookup(k)
    \/ htable_destroy

TableSpec == TableInit /\ [][TableNext]_tableVars

-----------------------------------------------------------------------------
(* Properties.                                                             *)

Entry == [key : Keys, val : Vals]

Present == {k \in Keys : \E s \in Slots(size) : Has(store[s], k)}

ValueOf(k) ==
    LET s == CHOOSE s \in Slots(size) : Has(store[s], k)
        j == CHOOSE j \in DOMAIN store[s] : store[s][j].key = k
    IN  store[s][j].val

\* Through inserts and resizes every node stays in the chain its hash selects,
\* and no key is in the table twice, so a search of one chain finds what there
\* is to find.
WellPlaced ==
    /\ \A s \in Slots(size) : \A j \in DOMAIN store[s] :
           SlotOf(store[s][j].key, size) = s
    /\ \A s \in Slots(size) : \A j, l \in DOMAIN store[s] :
           store[s][j].key = store[s][l].key => j = l

\* "a prime larger than sz entries": the number of slots is a prime by the
\* definition of a prime.
SizeIsPrime ==
    size > 0 => size > 1 /\ \A d \in 2 .. size - 1 : size % d # 0

Contents == INSTANCE KVMap WITH map <- [k \in Present |-> ValueOf(k)]

\* The table is a map: every call returns what the map would, and no resize
\* loses, revives or changes an entry.
RefinesKVMap == Contents!Spec

=============================================================================
