----------------------------- MODULE MCMDriver ------------------------------
(* MDriver for TLC: every well-formed trace of up to MaxOps requests on two *)
(* ids, alone, and every pair of a few traces picked to leave something     *)
(* behind: blocks never freed, a full arena, a file main cannot use, an id   *)
(* whose low byte, the fill of its block, has its top bit set.               *)
EXTENDS MDriver

CONSTANT MaxOps

A(x, s) == [type |-> ALLOC, index |-> x, size |-> s]
R(x, s) == [type |-> REALLOC, index |-> x, size |-> s]
F(x) == [type |-> FREE, index |-> x, size |-> 0]

\* The header that goes with the request lines.
File(ops) ==
    [num_ids |-> 1 + Max({0} \cup {IndexOf(ops[k]) : k \in DOMAIN ops}),
     num_ops |-> Len(ops),
     ops     |-> ops]

\* Allocate what is not held, free and reallocate what is.
Extend(ops) ==
    LET held == HeldIds(ops, Len(ops))
    IN  {Append(ops, A(x, s)) : x \in {0, 1} \ held, s \in Sizes}
        \cup {Append(ops, R(x, s)) : x \in held, s \in Sizes}
        \cup {Append(ops, F(x)) : x \in held}

TracesUpTo[n \in Nat] ==
    IF n = 0 THEN {<<>>}
    ELSE TracesUpTo[n - 1] \cup UNION {Extend(t) : t \in TracesUpTo[n - 1]}

Picked ==
    {File(<<A(0, 17), A(1, 1)>>),
     File(<<A(1, 17), R(1, 1), A(0, 1), F(1)>>),
     File(<<A(0, 17), R(0, 17), R(0, 17)>>),
     File(<<A(127, 1), R(127, 17), A(256, 1), R(256, 17)>>),
     File(<<A(200, 17), A(0, 1), R(200, 1), F(0)>>),
     [File(<<A(0, 1), F(0)>>) EXCEPT !.num_ids = 2],
     Missing}

MCFileLists ==
    {<<File(t)>> : t \in TracesUpTo[MaxOps] \ {<<>>}}
    \cup {<<f, g>> : f \in Picked, g \in Picked}

\* The instance meets the hypothesis of the theorems about MDriver.
ASSUME InstanceAssumption == WellFormedFiles

=============================================================================
