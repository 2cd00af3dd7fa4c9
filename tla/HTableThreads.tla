---------------------------- MODULE HTableThreads ---------------------------
(***************************************************************************)
(* threadlab/testhash.c running threads on one htable.c table that does    *)
(* not resize.  The repository's table takes no lock (adding one is the    *)
(* lab), so the threads interleave at every access to shared memory: the   *)
(* load of a chain's head, of a next pointer, and the store that links a   *)
(* new node.  A node's fields are written before it is linked, and x86     *)
(* keeps stores in order, so a linked node is seen complete.               *)
(***************************************************************************)
EXTENDS Integers, Sequences, FiniteSets

CONSTANTS
    TESTSZ,         \* number of test keys (1000000)
    num_threads,    \* 4 unless -n is given
    HashOf,         \* key index -> hashcode of testkeys[index]; keys differ
    SIZE            \* ht.size after htable_init

ASSUME ThreadsAssumption ==
    /\ TESTSZ \in Nat \ {0}
    /\ num_threads \in 1 .. TESTSZ
    /\ HashOf \in [0 .. TESTSZ - 1 -> Nat]
    /\ SIZE \in Nat \ {0}

Threads == 0 .. num_threads - 1
SlotNumbers == 0 .. SIZE - 1
KeyIndexes == 0 .. TESTSZ - 1

\* A node is named by the loop index that inserts it, which of the two calls
\* of that round it is, and the run.
NIL == <<>>

VARIABLES
    phase,      \* main: the two runs, the validation between them, the end
    ht_store,   \* slot -> first node
    next,       \* node -> next node, for the nodes that have been linked
    i,          \* thread -> loop variable
    call,       \* thread -> 1 (testkeys[i]) or 2 (testkeys[r])
    point,      \* thread -> where it is in htable_insert or htable_lookup
    prev, curr, \* thread -> the two cursors of the chain walk
    busy,       \* auxiliary: thread -> the slot its call of htable_insert is on
    contended   \* auxiliary: slots on which two inserts have overlapped

threadVars == <<phase, ht_store, next, i, call, point, prev, curr, busy, contended>>

-----------------------------------------------------------------------------
(* The work of a thread.                                                   *)

Share == TESTSZ \div num_threads
First(t) == t * Share
End(t) == IF t = num_threads - 1 THEN TESTSZ ELSE (t + 1) * Share

\* "another randomly chosen key"; the factor is BIG_PRIME.
R(t) == (((t * i[t]) % 256) * 1560007) % TESTSZ

KeyOf(t) == IF call[t] = 1 THEN i[t] ELSE R(t)

Running == phase \in {"INSERT", "MIX"}

\* The second call of a round is a lookup when run_mode is MIX.
IsLookup(t) == call[t] = 2 /\ phase = "MIX"

Node(t) == <<i[t], call[t], KeyOf(t)>>
KeyIn(n) == n[3]

SlotFor(k) == HashOf[k] % SIZE

\* Two calls of one round on the same key are two calls on different nodes.
ThreadsInit ==
    /\ phase = "INSERT"
    /\ ht_store = [s \in SlotNumbers |-> NIL]
    /\ next = [n \in {} |-> NIL]
    /\ i = [t \in Threads |-> First(t)]
    /\ call = [t \in Threads |-> 1]
    /\ point = [t \in Threads |-> "call"]
    /\ prev = [t \in Threads |-> NIL]
    /\ curr = [t \in Threads |-> NIL]
    /\ busy = [t \in Threads |-> -1]
    /\ contended = {}

\* pthread_join in main waits for this.
Joined == \A t \in Threads : i[t] = End(t)

-----------------------------------------------------------------------------
(* One call of htable_insert or htable_lookup.                             *)

MoveTo(t, label) == point' = [point EXCEPT ![t] = label]

\* Hash the key and load the head of its chain.
LoadHead(t) ==
    LET slot == SlotFor(KeyOf(t))
    IN  /\ Running
        /\ i[t] < End(t)
        /\ point[t] = "call"
        /\ prev' = [prev EXCEPT ![t] = NIL]
        /\ curr' = [curr EXCEPT ![t] = ht_store[slot]]
        /\ MoveTo(t, "walk")
        /\ busy' = [busy EXCEPT ![t] = IF IsLookup(t) THEN -1 ELSE slot]
        /\ contended' = IF ~IsLookup(t) /\ \E u \in Threads \ {t} : busy[u] = slot
                        THEN contended \cup {slot} ELSE contended
        /\ UNCHANGED <<phase, ht_store, next, i, call>>

\* Mutant: the keys are not compared.
Walk_NoKeyTest(t) ==
    /\ point[t] = "walk"
    /\ curr[t] # NIL
    /\ prev' = [prev EXCEPT ![t] = curr[t]]
    /\ curr' = [curr EXCEPT ![t] = next[curr[t]]]
    /\ UNCHANGED <<phase, ht_store, next, i, call, point, busy, contended>>

\* Mutant: the cursor is not advanced.
Walk_Stuck(t) ==
    /\ point[t] = "walk"
    /\ curr[t] # NIL
    /\ KeyIn(curr[t]) # KeyOf(t)
    /\ prev' = [prev EXCEPT ![t] = curr[t]]
    /\ UNCHANGED <<phase, ht_store, next, i, call, point, curr, busy, contended>>

\* The node is not the one: on to the next.
Walk(t) ==
    /\ point[t] = "walk"
    /\ curr[t] # NIL
    /\ KeyIn(curr[t]) # KeyOf(t)
    /\ prev' = [prev EXCEPT ![t] = curr[t]]
    /\ curr' = [curr EXCEPT ![t] = next[curr[t]]]
    /\ UNCHANGED <<phase, ht_store, next, i, call, point, busy, contended>>

\* Back in test_htable_run: the second call of the round, or the next round.
NextCall(t) ==
    /\ call' = [call EXCEPT ![t] = 3 - @]
    /\ i' = IF call[t] = 2 THEN [i EXCEPT ![t] = @ + 1] ELSE i
    /\ MoveTo(t, "call")
    /\ busy' = [busy EXCEPT ![t] = -1]
    /\ UNCHANGED <<phase, prev, curr, contended>>

\* The key exists (insert returns 1, lookup its value, which is the one that
\* went in with the key), or a lookup reaches the end of the chain.
ReturnFound(t) ==
    /\ point[t] = "walk"
    /\ \/ curr[t] # NIL /\ KeyIn(curr[t]) = KeyOf(t)
       \/ curr[t] = NIL /\ IsLookup(t)
    /\ NextCall(t)
    /\ UNCHANGED <<ht_store, next>>

\* Mutant: the new node is linked in front of the last node of the chain.
LinkNode_DropsLast(t) ==
    /\ point[t] = "walk"
    /\ curr[t] = NIL
    /\ ~IsLookup(t)
    /\ next' = [n \in DOMAIN next \cup {Node(t)} |->
                   IF n = Node(t) THEN NIL ELSE next[n]]
    /\ ht_store' = [ht_store EXCEPT ![SlotFor(KeyOf(t))] = Node(t)]
    /\ NextCall(t)

\* Mutant: the new node's next field is not written.
LinkNode_NoInit(t) ==
    /\ point[t] = "walk"
    /\ curr[t] = NIL
    /\ ~IsLookup(t)
    /\ next' = [n \in DOMAIN next |-> IF n = prev[t] THEN Node(t) ELSE next[n]]
    /\ ht_store' = IF prev[t] = NIL
                   THEN [ht_store EXCEPT ![SlotFor(KeyOf(t))] = Node(t)]
                   ELSE ht_store
    /\ NextCall(t)

\* The end of the chain as this thread saw it: the new node is stored there,
\* over whatever another thread has linked since.
LinkNode(t) ==
    /\ point[t] = "walk"
    /\ curr[t] = NIL
    /\ ~IsLookup(t)
    /\ next' = [n \in DOMAIN next \cup {Node(t)} |->
                   IF n = Node(t) THEN NIL
                   ELSE IF n = prev[t] THEN Node(t)
                   ELSE next[n]]
    /\ ht_store' = IF prev[t] = NIL
                   THEN [ht_store EXCEPT ![SlotFor(KeyOf(t))] = Node(t)]
                   ELSE ht_store
    /\ NextCall(t)

TestThreadStep(t) == LoadHead(t) \/ Walk(t) \/ ReturnFound(t) \/ LinkNode(t)

-----------------------------------------------------------------------------
(* The chains, and main.                                                   *)

\* The nodes a walk from the head of slot s visits, in order.
Chain(s) ==
    LET from[n \in DOMAIN next \cup {NIL}] ==
            IF n = NIL THEN <<>> ELSE <<n>> \o from[next[n]]
    IN  from[ht_store[s]]

InTable(k) == \E j \in DOMAIN Chain(SlotFor(k)) : KeyIn(Chain(SlotFor(k))[j]) = k

\* The validation after the first run; no thread is running.  A missing key is
\* reported by test_fatal, which exits.
Validate ==
    /\ phase = "INSERT"
    /\ Joined
    /\ IF \A k \in KeyIndexes : InTable(k)
       THEN /\ phase' = "MIX"
            /\ ht_store' = [s \in SlotNumbers |-> NIL]
            /\ next' = [n \in {} |-> NIL]
            /\ i' = [t \in Threads |-> First(t)]
            /\ contended' = {}
            /\ UNCHANGED <<call, point, prev, curr, busy>>
       ELSE /\ phase' = "FATAL"
            /\ UNCHANGED <<ht_store, next, i, call, point, prev, curr, busy, contended>>

\* The table is destroyed and the test reported as passed.
Passed ==
    /\ phase = "MIX"
    /\ Joined
    /\ phase' = "PASSED"
    /\ UNCHANGED <<ht_store, next, i, call, point, prev, curr, busy, contended>>

TestOver == phase \in {"PASSED", "FATAL"}

ThreadsNext ==
    \/ \E t \in Threads : TestThreadStep(t)
    \/ Validate
    \/ Passed
    \/ TestOver /\ UNCHANGED threadVars

\* Every thread and main get the processor again and again.
ThreadsSpec ==
    /\ ThreadsInit
    /\ [][ThreadsNext]_threadVars
    /\ \A t \in Threads : WF_threadVars(TestThreadStep(t))
    /\ WF_threadVars(Validate \/ Passed)

-----------------------------------------------------------------------------
(* Properties.                                                             *)

\* Every pointer a thread or a chain holds is NULL or a node that was linked.
ThreadsTypeOK ==
    /\ phase \in {"INSERT", "MIX", "PASSED", "FATAL"}
    /\ \A s \in SlotNumbers : ht_store[s] = NIL \/ ht_store[s] \in DOMAIN next
    /\ \A n \in DOMAIN next : next[n] = NIL \/ next[n] \in DOMAIN next
    /\ \A t \in Threads :
           /\ i[t] \in First(t) .. End(t)
           /\ curr[t] \in DOMAIN next \cup {NIL} \/ point[t] = "call"

\* Even without a lock a chain holds only nodes of its own slot, and none of
\* its keys twice: an unsynchronised insert may lose nodes, never duplicate
\* or misplace one.
ChainsSound ==
    \A s \in SlotNumbers :
        LET c == Chain(s)
        IN  /\ \A j \in DOMAIN c : SlotFor(KeyIn(c[j])) = s
            /\ \A j, l \in DOMAIN c : KeyIn(c[j]) = KeyIn(c[l]) => j = l

\* Between calls a thread's finished inserts.
Finished(t, k) == k \in First(t) .. i[t] - 1 \/ (k = i[t] /\ call[t] = 2)

\* A key is lost only where two inserts on its slot have overlapped: threads
\* whose inserts never meet on a slot need no lock.
LostOnlyByContention ==
    Running =>
        \A t \in Threads, k \in KeyIndexes :
            Finished(t, k) /\ SlotFor(k) \notin contended => InTable(k)

\* The test ends: no interleaving links a chain into a cycle that a walk would
\* follow for ever.
TestEnds == <>TestOver

=============================================================================
