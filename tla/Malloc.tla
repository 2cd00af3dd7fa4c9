------------------------------- MODULE Malloc -------------------------------
(***************************************************************************)
(* What mm.c's header comments and the driver promise of any allocator of  *)
(* the malloc lab: blocks are aligned, inside the arena and disjoint; a    *)
(* call changes the bytes of no block but the one it is about; realloc     *)
(* carries the old bytes over; a call that returns NULL changes nothing    *)
(* (a stuttering step here).                                               *)
(***************************************************************************)
EXTENDS Integers

CONSTANTS
    Arena,      \* the addresses of the arena
    Alignment

VARIABLE blocks \* payload address -> its bytes, a function on 0 .. size - 1

Extent(p, bytes) == {p + i : i \in DOMAIN bytes}

\* A block may be handed out at p: it is aligned, and shares no byte with the
\* blocks in use.
MayPlace(p, bytes, used) ==
    /\ p % Alignment = 0
    /\ Extent(p, bytes) \subseteq Arena
    /\ \A q \in DOMAIN used : Extent(p, bytes) \cap Extent(q, used[q]) = {}

Drop(p) == [q \in DOMAIN blocks \ {p} |-> blocks[q]]

\* p joins the blocks of used, which keep their bytes.
Placed(p, used) ==
    /\ p \notin DOMAIN used
    /\ DOMAIN blocks' = DOMAIN used \cup {p}
    /\ \A q \in DOMAIN used : blocks'[q] = used[q]
    /\ MayPlace(p, blocks'[p], used)

Init == blocks = [p \in {} |-> <<>>]

malloc == \E p \in Arena : Placed(p, blocks)

free(p) == blocks' = Drop(p)

\* The new block may overlap the old one (an allocator may grow in place); the
\* bytes both have are the same.
realloc(old) ==
    \E p \in Arena :
        /\ Placed(p, Drop(old))
        /\ \A i \in DOMAIN blocks[old] \cap DOMAIN blocks'[p] :
               blocks'[p][i] = blocks[old][i]

store(p) ==
    /\ DOMAIN blocks' = DOMAIN blocks
    /\ DOMAIN blocks'[p] = DOMAIN blocks[p]
    /\ \A q \in DOMAIN blocks \ {p} : blocks'[q] = blocks[q]

reset == blocks' = [p \in {} |-> <<>>]

Next ==
    \/ malloc
    \/ \E p \in DOMAIN blocks : free(p) \/ realloc(p) \/ store(p)
    \/ reset

Spec == Init /\ [][Next]_blocks

=============================================================================
