-------------------------------- MODULE KVMap -------------------------------
(***************************************************************************)
(* What htable.c promises its callers: a map that keeps the first value    *)
(* inserted under a key.                                                   *)
(***************************************************************************)
CONSTANTS Keys, Vals, None

VARIABLES
    map,        \* the present keys and their values
    result      \* what the last call returned

Init ==
    /\ map = [k \in {} |-> None]
    /\ result = None

\* htable_insert returns 1 for a key that exists, 0 otherwise.
insert(k, v) ==
    \/ k \in DOMAIN map /\ result' = 1 /\ UNCHANGED map
    \/ /\ k \notin DOMAIN map
       /\ map' = [x \in DOMAIN map \cup {k} |-> IF x = k THEN v ELSE map[x]]
       /\ result' = 0

\* htable_lookup returns the value, or NULL.
lookup(k) ==
    /\ result' = IF k \in DOMAIN map THEN map[k] ELSE None
    /\ UNCHANGED map

\* htable_destroy, or htable_init of a table that was destroyed.
clear == map' = [k \in {} |-> None] /\ result' = None

Next ==
    \/ \E k \in Keys : lookup(k) \/ \E v \in Vals : insert(k, v)
    \/ clear

Spec == Init /\ [][Next]_<<map, result>>
=============================================================================
