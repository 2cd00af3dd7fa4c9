------------------------- MODULE HTableThreadsProofs ------------------------
(***************************************************************************)
(* The unlocked hash table of htable.c under the threads of testhash.c,    *)
(* for every number of threads and keys, every hash and table size.        *)
(***************************************************************************)
EXTENDS HTableThreads, NaturalsInduction, WellFoundedInduction, SequenceTheorems, TLAPS

-----------------------------------------------------------------------------
(* The work of a thread.                                                   *)

\* The shares of two threads have no loop index in common.
LEMMA SharesDisjoint ==
    /\ \A t \in Threads : /\ First(t) \in Nat /\ End(t) \in Nat
                          /\ First(t) <= End(t) /\ End(t) <= TESTSZ
    /\ \A t, u \in Threads : t < u => End(t) <= First(u)
<1>1. TESTSZ \in Nat \ {0} /\ num_threads \in Nat \ {0} /\ num_threads <= TESTSZ
  BY ThreadsAssumption
<1>2. Share \in Nat /\ num_threads * Share <= TESTSZ
  BY <1>1 DEF Share
<1> HIDE DEF Share
<1>3. ASSUME NEW a \in Nat, NEW b \in Nat, a <= b
      PROVE  a * Share <= b * Share /\ a * Share \in Nat
  BY <1>2, <1>3
<1>4. ASSUME NEW t \in Threads
      PROVE  /\ t \in Nat /\ t + 1 \in Nat /\ t + 1 <= num_threads
             /\ t * Share \in Nat /\ (t + 1) * Share \in Nat
             /\ t * Share <= (t + 1) * Share /\ (t + 1) * Share <= TESTSZ
  <2>1. t \in Nat /\ t + 1 \in Nat /\ t + 1 <= num_threads
    BY <1>1 DEF Threads
  <2>2. (t + 1) * Share <= num_threads * Share /\ (t + 1) * Share \in Nat
    BY <1>1, <1>3, <2>1
  <2>3. t * Share <= (t + 1) * Share /\ t * Share \in Nat
    BY <1>3, <2>1
  <2> QED
    BY <1>1, <1>2, <2>1, <2>2, <2>3
<1>5. ASSUME NEW t \in Threads
      PROVE  /\ First(t) \in Nat /\ End(t) \in Nat
             /\ First(t) <= End(t) /\ End(t) <= TESTSZ
  BY <1>1, <1>4 DEF First, End
<1>6. ASSUME NEW t \in Threads, NEW u \in Threads, t < u
      PROVE  End(t) <= First(u)
  <2>1. t # num_threads - 1 /\ t + 1 <= u /\ u \in Nat
    BY <1>1, <1>6 DEF Threads
  <2>2. (t + 1) * Share <= u * Share
    BY <1>3, <1>4, <2>1
  <2> QED
    BY <2>1, <2>2 DEF First, End
<1> QED
  BY <1>5, <1>6

Nodes == KeyIndexes \X {1, 2} \X KeyIndexes

\* A node is not the NULL pointer.
LEMMA NilIsNoNode == NIL \notin Nodes
BY DEF NIL, Nodes

\* Hash and slot of a key.
LEMMA SlotType ==
    ASSUME NEW k \in KeyIndexes
    PROVE  SlotFor(k) \in SlotNumbers
<1>1. HashOf[k] \in Nat /\ SIZE \in Nat \ {0}
  BY ThreadsAssumption DEF KeyIndexes
<1> QED
  BY <1>1 DEF SlotFor, SlotNumbers

-----------------------------------------------------------------------------
(* The invariant.                                                          *)

SlotOfNode(n) == SlotFor(KeyIn(n))

TypeInv ==
    /\ phase \in {"INSERT", "MIX", "PASSED", "FATAL"}
    /\ DOMAIN next \subseteq Nodes
    /\ next \in [DOMAIN next -> DOMAIN next \cup {NIL}]
    /\ ht_store \in [SlotNumbers -> DOMAIN next \cup {NIL}]
    /\ i \in [Threads -> Int] /\ \A t \in Threads : i[t] \in First(t) .. End(t)
    /\ call \in [Threads -> {1, 2}]
    /\ point \in [Threads -> {"call", "walk"}]
    /\ DOMAIN prev = Threads /\ DOMAIN curr = Threads
    /\ busy \in [Threads -> SlotNumbers \cup {-1}]

\* A thread in a call has a round to do; a thread that is done is between calls.
RoundInv ==
    \A t \in Threads :
        /\ point[t] = "walk" => i[t] < End(t) /\ Running
        /\ i[t] = End(t) => call[t] = 1

\* Every node was linked by a call that is over, so the node of a call that is
\* not over is new.
FreshInv ==
    \A n \in DOMAIN next, t \in Threads :
        n[1] \in First(t) .. End(t) - 1 =>
            n[1] < i[t] \/ (n[1] = i[t] /\ n[2] < call[t])

\* The cursors of a call are nodes of the chain's slot.
CursorInv ==
    \A t \in Threads :
        point[t] = "walk" =>
            /\ prev[t] # NIL =>
                   prev[t] \in DOMAIN next /\ SlotOfNode(prev[t]) = SlotFor(KeyOf(t))
            /\ curr[t] # NIL =>
                   curr[t] \in DOMAIN next /\ SlotOfNode(curr[t]) = SlotFor(KeyOf(t))

\* A pointer leads to a node of the same slot.
SlotInv ==
    /\ \A s \in SlotNumbers : ht_store[s] # NIL => SlotOfNode(ht_store[s]) = s
    /\ \A n \in DOMAIN next : next[n] # NIL => SlotOfNode(next[n]) = SlotOfNode(n)

\* seen[n] are the keys that stood before n in its chain when it was linked,
\* depth[n] is how many; a node stays behind them, and a walk that looks at n has
\* compared its key with all of them.
Behind(seen, depth, bound) ==
    /\ bound \in Nat
    /\ DOMAIN seen = DOMAIN next
    /\ \A n \in DOMAIN next : depth[n] \in 0 .. bound /\ KeyIn(n) \notin seen[n]
    /\ \A s \in SlotNumbers : ht_store[s] # NIL => seen[ht_store[s]] = {} /\ depth[ht_store[s]] = 0
    /\ \A n \in DOMAIN next :
           next[n] # NIL => /\ seen[next[n]] = seen[n] \cup {KeyIn(n)}
                            /\ depth[next[n]] = depth[n] + 1
    /\ \A t \in Threads :
           point[t] = "walk" =>
               /\ prev[t] # NIL => KeyOf(t) \notin seen[prev[t]] \cup {KeyIn(prev[t])}
               /\ curr[t] # NIL => KeyOf(t) \notin seen[curr[t]]

BehindInv == \E seen, depth, bound : Behind(seen, depth, bound)

\* An insert holds its slot from its first load to its last store.
BusyInv ==
    \A t \in Threads :
        busy[t] = IF point[t] = "walk" /\ ~IsLookup(t) THEN SlotFor(KeyOf(t)) ELSE -1

\* Two inserts on one slot have made it contended.
AloneInv ==
    \A t, u \in Threads :
        t # u /\ busy[t] # -1 /\ busy[t] = busy[u] => busy[t] \in contended

\* On any other slot the cursors of an insert are up to date, ...
EndInv ==
    \A t \in Threads :
        busy[t] # -1 /\ busy[t] \notin contended =>
            curr[t] = IF prev[t] = NIL THEN ht_store[busy[t]] ELSE next[prev[t]]

\* ... and every node is the first of its chain or has one before it.
PredecessorInv ==
    \A n \in DOMAIN next :
        SlotOfNode(n) \notin contended =>
            \/ ht_store[SlotOfNode(n)] = n
            \/ \E m \in DOMAIN next : next[m] = n

\* A finished insert has left a node of its key, its own or another's.
DoneInv ==
    \A t \in Threads, k \in KeyIndexes :
        Finished(t, k) => \E n \in DOMAIN next : KeyIn(n) = k

ThreadsInv ==
    /\ TypeInv /\ RoundInv /\ FreshInv /\ CursorInv /\ SlotInv /\ BehindInv
    /\ BusyInv /\ AloneInv /\ EndInv /\ PredecessorInv /\ DoneInv

-----------------------------------------------------------------------------
(* One step of a thread.                                                   *)

\* The key of a call and the node it would link.
LEMMA CallType ==
    ASSUME TypeInv, NEW t \in Threads, i[t] < End(t)
    PROVE  /\ KeyOf(t) \in KeyIndexes /\ SlotFor(KeyOf(t)) \in SlotNumbers
           /\ Node(t) \in Nodes /\ Node(t)[1] = i[t] /\ Node(t)[2] = call[t]
           /\ KeyIn(Node(t)) = KeyOf(t) /\ Node(t) # NIL
<1>1. i[t] \in KeyIndexes /\ i[t] \in Int /\ call[t] \in {1, 2}
  <2>1. i[t] \in First(t) .. End(t) /\ call[t] \in {1, 2}
    BY DEF TypeInv
  <2> QED
    BY <2>1, SharesDisjoint, ThreadsAssumption DEF KeyIndexes
<1>2. R(t) \in KeyIndexes
  <2>1. (t * i[t]) \in Int
    BY <1>1, ThreadsAssumption DEF Threads
  <2>2. ((t * i[t]) % 256) * 1560007 \in Int
    BY <2>1
  <2> QED
    BY <2>2, ThreadsAssumption DEF R, KeyIndexes
<1>3. KeyOf(t) \in KeyIndexes
  BY <1>1, <1>2 DEF KeyOf
<1>4. Node(t) \in Nodes
  BY <1>1, <1>3 DEF Node, Nodes
<1>5. Node(t)[1] = i[t] /\ Node(t)[2] = call[t] /\ KeyIn(Node(t)) = KeyOf(t)
  BY DEF Node, KeyIn
<1> QED
  BY <1>3, <1>4, <1>5, SlotType, NilIsNoNode

\* A step that leaves the table, the rounds and every thread but t alone.
OnlyCursors(t) ==
    /\ UNCHANGED <<phase, ht_store, next, i, call>>
    /\ \A u \in Threads \ {t} :
           /\ prev'[u] = prev[u] /\ curr'[u] = curr[u]
           /\ point'[u] = point[u] /\ busy'[u] = busy[u]
    /\ \A u \in Threads : KeyOf(u)' = KeyOf(u) /\ (IsLookup(u)' <=> IsLookup(u))
    /\ Running' <=> Running

\* The load of a chain's head.
LEMMA LoadHeadStep ==
    ASSUME ThreadsInv, NEW t \in Threads, LoadHead(t)
    PROVE  ThreadsInv'
<1> USE DEF ThreadsInv
<1> DEFINE slot == SlotFor(KeyOf(t))
<1>1. /\ Running /\ i[t] < End(t) /\ point[t] = "call"
      /\ prev' = [prev EXCEPT ![t] = NIL] /\ curr' = [curr EXCEPT ![t] = ht_store[slot]]
      /\ point' = [point EXCEPT ![t] = "walk"]
      /\ busy' = [busy EXCEPT ![t] = IF IsLookup(t) THEN -1 ELSE slot]
      /\ contended' = IF ~IsLookup(t) /\ \E u \in Threads \ {t} : busy[u] = slot
                      THEN contended \cup {slot} ELSE contended
      /\ UNCHANGED <<phase, ht_store, next, i, call>>
  BY DEF LoadHead, MoveTo
<1>2. /\ prev'[t] = NIL /\ curr'[t] = ht_store[slot] /\ point'[t] = "walk"
      /\ busy'[t] = IF IsLookup(t) THEN -1 ELSE slot
  BY <1>1 DEF TypeInv
<1>3. OnlyCursors(t)
  BY <1>1 DEF TypeInv, OnlyCursors, KeyOf, R, IsLookup, Running
<1>4. slot \in SlotNumbers
  BY <1>1, CallType
<1>5. contended \subseteq contended' /\ contended' \subseteq contended \cup {slot}
  BY <1>1
<1>6. \A u \in Threads \ {t} : busy[u] = slot /\ ~IsLookup(t) => slot \in contended'
  BY <1>1
<1> USE <1>3 DEF OnlyCursors
<1>7. TypeInv'
  BY <1>1, <1>4 DEF TypeInv
<1> HIDE DEF slot
<1>8. RoundInv'
  BY <1>1 DEF RoundInv
<1>9. FreshInv'
  BY DEF FreshInv
<1>10. SlotInv'
  BY DEF SlotInv, SlotOfNode
<1>11. CursorInv'
  <2>1. ht_store[slot] # NIL =>
          ht_store[slot] \in DOMAIN next /\ SlotOfNode(ht_store[slot]) = slot
    BY <1>4 DEF TypeInv, SlotInv
  <2>2. ASSUME NEW u \in Threads, point'[u] = "walk"
        PROVE  /\ prev'[u] # NIL => /\ prev'[u] \in DOMAIN next'
                                    /\ SlotOfNode(prev'[u]) = SlotFor(KeyOf(u)')
               /\ curr'[u] # NIL => /\ curr'[u] \in DOMAIN next'
                                    /\ SlotOfNode(curr'[u]) = SlotFor(KeyOf(u)')
    <3>1. CASE u = t
      BY <1>2, <2>1, <3>1 DEF slot
    <3>2. CASE u # t
      BY <2>2, <3>2 DEF CursorInv
    <3> QED
      BY <3>1, <3>2
  <2> QED
    BY <2>2 DEF CursorInv, SlotOfNode
<1>12. BehindInv'
  <2>1. PICK seen, depth, bound : Behind(seen, depth, bound)
    BY DEF BehindInv
  <2>2. curr'[t] # NIL => seen[curr'[t]] = {}
    BY <1>2, <1>4, <2>1 DEF Behind
  <2>3. ASSUME NEW u \in Threads, point'[u] = "walk"
        PROVE  /\ prev'[u] # NIL =>
                    KeyOf(u)' \notin seen[prev'[u]] \cup {KeyIn(prev'[u])}
               /\ curr'[u] # NIL => KeyOf(u)' \notin seen[curr'[u]]
    <3>1. CASE u = t
      BY <1>2, <2>2, <3>1
    <3>2. CASE u # t
      BY <2>1, <2>3, <3>2 DEF Behind
    <3> QED
      BY <3>1, <3>2
  <2>4. Behind(seen, depth, bound)'
    BY <2>1, <2>3 DEF Behind, KeyIn
  <2> QED
    BY <2>4 DEF BehindInv
<1>13. BusyInv'
  <2>1. ASSUME NEW u \in Threads
        PROVE  busy'[u] = IF point'[u] = "walk" /\ ~IsLookup(u)'
                          THEN SlotFor(KeyOf(u)') ELSE -1
    <3>1. CASE u = t
      BY <1>2, <3>1 DEF slot
    <3>2. CASE u # t
      BY <3>2 DEF BusyInv
    <3> QED
      BY <3>1, <3>2
  <2> QED
    BY <2>1 DEF BusyInv, SlotFor
<1>14. AloneInv'
  <2>1. ASSUME NEW u \in Threads, NEW v \in Threads, u # v, busy'[u] # -1,
               busy'[u] = busy'[v]
        PROVE  busy'[u] \in contended'
    <3>1. CASE u = t
      BY <1>2, <1>6, <2>1, <3>1
    <3>2. CASE v = t
      BY <1>2, <1>6, <2>1, <3>2
    <3>3. CASE u # t /\ v # t
      BY <1>5, <2>1, <3>3 DEF AloneInv
    <3> QED
      BY <3>1, <3>2, <3>3
  <2> QED
    BY <2>1 DEF AloneInv
<1>15. EndInv'
  <2>1. ASSUME NEW u \in Threads, busy'[u] # -1, busy'[u] \notin contended'
        PROVE  curr'[u] = IF prev'[u] = NIL THEN ht_store'[busy'[u]] ELSE next'[prev'[u]]
    <3>1. CASE u = t
      BY <1>2, <2>1, <3>1
    <3>2. CASE u # t
      BY <1>5, <2>1, <3>2 DEF EndInv
    <3> QED
      BY <3>1, <3>2
  <2> QED
    BY <2>1 DEF EndInv
<1>16. PredecessorInv'
  BY <1>5 DEF PredecessorInv, SlotOfNode
<1>17. DoneInv'
  BY DEF DoneInv, Finished, KeyIn
<1> QED
  BY <1>7, <1>8, <1>9, <1>10, <1>11, <1>12, <1>13, <1>14, <1>15, <1>16, <1>17

\* A step along the chain.
LEMMA WalkStep ==
    ASSUME ThreadsInv, NEW t \in Threads, Walk(t)
    PROVE  ThreadsInv'
<1> USE DEF ThreadsInv
<1>1. /\ point[t] = "walk" /\ curr[t] # NIL /\ KeyIn(curr[t]) # KeyOf(t)
      /\ prev' = [prev EXCEPT ![t] = curr[t]]
      /\ curr' = [curr EXCEPT ![t] = next[curr[t]]]
      /\ UNCHANGED <<phase, ht_store, next, i, call, point, busy, contended>>
  BY DEF Walk
<1>2. prev'[t] = curr[t] /\ curr'[t] = next[curr[t]]
  BY <1>1 DEF TypeInv
<1>3. OnlyCursors(t)
  BY <1>1 DEF TypeInv, OnlyCursors, KeyOf, R, IsLookup, Running
<1>4. curr[t] \in DOMAIN next /\ SlotOfNode(curr[t]) = SlotFor(KeyOf(t))
      /\ (next[curr[t]] # NIL => next[curr[t]] \in DOMAIN next)
  BY <1>1 DEF CursorInv, TypeInv
<1> USE <1>3 DEF OnlyCursors
<1>5. TypeInv' /\ RoundInv' /\ FreshInv' /\ SlotInv'
  BY <1>1 DEF TypeInv, RoundInv, FreshInv, SlotInv, SlotOfNode
<1>6. AloneInv' /\ PredecessorInv' /\ DoneInv'
  BY <1>1 DEF AloneInv, PredecessorInv, DoneInv, Finished, KeyIn, SlotOfNode
<1>7. BusyInv'
  <2>1. ASSUME NEW u \in Threads
        PROVE  busy'[u] = IF point'[u] = "walk" /\ ~IsLookup(u)'
                          THEN SlotFor(KeyOf(u)') ELSE -1
    BY <1>1 DEF BusyInv
  <2> QED
    BY <2>1 DEF BusyInv, SlotFor
<1>8. CursorInv'
  <2>1. next[curr[t]] # NIL => SlotOfNode(next[curr[t]]) = SlotFor(KeyOf(t))
    BY <1>4 DEF SlotInv
  <2>2. ASSUME NEW u \in Threads, point'[u] = "walk"
        PROVE  /\ prev'[u] # NIL => /\ prev'[u] \in DOMAIN next'
                                    /\ SlotOfNode(prev'[u]) = SlotFor(KeyOf(u)')
               /\ curr'[u] # NIL => /\ curr'[u] \in DOMAIN next'
                                    /\ SlotOfNode(curr'[u]) = SlotFor(KeyOf(u)')
    <3>1. CASE u = t
      BY <1>2, <1>4, <2>1, <3>1
    <3>2. CASE u # t
      BY <2>2, <3>2 DEF CursorInv
    <3> QED
      BY <3>1, <3>2
  <2> QED
    BY <2>2 DEF CursorInv, SlotOfNode
<1>9. BehindInv'
  <2>1. PICK seen, depth, bound : Behind(seen, depth, bound)
    BY DEF BehindInv
  <2>2. /\ KeyOf(t) \notin seen[curr[t]] \cup {KeyIn(curr[t])}
        /\ next[curr[t]] # NIL => seen[next[curr[t]]] = seen[curr[t]] \cup {KeyIn(curr[t])}
    BY <1>1, <1>4, <2>1 DEF Behind
  <2>3. ASSUME NEW u \in Threads, point'[u] = "walk"
        PROVE  /\ prev'[u] # NIL =>
                    KeyOf(u)' \notin seen[prev'[u]] \cup {KeyIn(prev'[u])}
               /\ curr'[u] # NIL => KeyOf(u)' \notin seen[curr'[u]]
    <3>1. CASE u = t
      BY <1>2, <2>2, <3>1
    <3>2. CASE u # t
      BY <2>1, <2>3, <3>2 DEF Behind
    <3> QED
      BY <3>1, <3>2
  <2>4. Behind(seen, depth, bound)'
    BY <2>1, <2>3 DEF Behind, KeyIn
  <2> QED
    BY <2>4 DEF BehindInv
<1>10. EndInv'
  <2>1. ASSUME NEW u \in Threads, busy'[u] # -1, busy'[u] \notin contended'
        PROVE  curr'[u] = IF prev'[u] = NIL THEN ht_store'[busy'[u]] ELSE next'[prev'[u]]
    <3>1. CASE u = t
      BY <1>1, <1>2, <3>1
    <3>2. CASE u # t
      BY <1>1, <2>1, <3>2 DEF EndInv
    <3> QED
      BY <3>1, <3>2
  <2> QED
    BY <2>1 DEF EndInv
<1> QED
  BY <1>5, <1>6, <1>7, <1>8, <1>9, <1>10

\* What the return from a call does: the next call of the round, or of the next
\* round, and nothing to the other threads.
Returns(t) ==
    /\ call'[t] = 3 - call[t]
    /\ i'[t] = IF call[t] = 2 THEN i[t] + 1 ELSE i[t]
    /\ point'[t] = "call" /\ busy'[t] = -1
    /\ UNCHANGED <<phase, prev, curr, contended>>
    /\ \A u \in Threads \ {t} :
           /\ call'[u] = call[u] /\ i'[u] = i[u]
           /\ point'[u] = point[u] /\ busy'[u] = busy[u]
           /\ KeyOf(u)' = KeyOf(u) /\ (IsLookup(u)' <=> IsLookup(u))
    /\ Running' <=> Running

\* A call that returns keeps the parts of the invariant about the rounds.
LEMMA NextCallStep ==
    ASSUME ThreadsInv, NEW t \in Threads, point[t] = "walk", NextCall(t)
    PROVE  /\ Returns(t)
           /\ i' \in [Threads -> Int] /\ \A u \in Threads : i'[u] \in First(u) .. End(u)
           /\ call' \in [Threads -> {1, 2}]
           /\ point' \in [Threads -> {"call", "walk"}]
           /\ busy' \in [Threads -> SlotNumbers \cup {-1}]
           /\ RoundInv' /\ BusyInv' /\ AloneInv'
<1> USE DEF ThreadsInv
<1>1. /\ call' = [call EXCEPT ![t] = 3 - @]
      /\ i' = IF call[t] = 2 THEN [i EXCEPT ![t] = @ + 1] ELSE i
      /\ point' = [point EXCEPT ![t] = "call"]
      /\ busy' = [busy EXCEPT ![t] = -1]
      /\ UNCHANGED <<phase, prev, curr, contended>>
  BY DEF NextCall, MoveTo
<1>2. Returns(t)
  BY <1>1 DEF TypeInv, Returns, KeyOf, R, IsLookup, Running
<1>3. /\ i[t] < End(t) /\ call[t] \in {1, 2} /\ i[t] \in First(t) .. End(t)
      /\ First(t) \in Nat /\ End(t) \in Nat /\ i[t] \in Int
  BY SharesDisjoint DEF RoundInv, TypeInv
<1>4. call' \in [Threads -> {1, 2}] /\ point' \in [Threads -> {"call", "walk"}]
      /\ busy' \in [Threads -> SlotNumbers \cup {-1}] /\ i' \in [Threads -> Int]
  BY <1>1, <1>3 DEF TypeInv
<1>5. ASSUME NEW u \in Threads
      PROVE  i'[u] \in First(u) .. End(u)
  <2>1. CASE u = t
    BY <1>2, <1>3, <2>1 DEF Returns
  <2>2. CASE u # t
    BY <1>2, <2>2 DEF Returns, TypeInv
  <2> QED
    BY <2>1, <2>2
<1>6. RoundInv'
  <2>1. ASSUME NEW u \in Threads
        PROVE  /\ point'[u] = "walk" => i'[u] < End(u) /\ Running'
               /\ i'[u] = End(u) => call'[u] = 1
    <3>1. CASE u = t
      BY <1>2, <1>3, <3>1 DEF Returns
    <3>2. CASE u # t
      BY <1>2, <3>2 DEF Returns, RoundInv
    <3> QED
      BY <3>1, <3>2
  <2> QED
    BY <2>1 DEF RoundInv, End, Share
<1>7. BusyInv'
  <2>1. ASSUME NEW u \in Threads
        PROVE  busy'[u] = IF point'[u] = "walk" /\ ~IsLookup(u)'
                          THEN SlotFor(KeyOf(u)') ELSE -1
    <3>1. CASE u = t
      BY <1>2, <3>1 DEF Returns
    <3>2. CASE u # t
      BY <1>2, <3>2 DEF Returns, BusyInv
    <3> QED
      BY <3>1, <3>2
  <2> QED
    BY <2>1 DEF BusyInv, SlotFor
<1>8. AloneInv'
  <2>1. ASSUME NEW u \in Threads, NEW v \in Threads, u # v, busy'[u] # -1,
               busy'[u] = busy'[v]
        PROVE  busy'[u] \in contended'
    <3>1. u # t /\ v # t
      BY <1>2, <2>1 DEF Returns
    <3> QED
      BY <1>2, <2>1, <3>1 DEF Returns, AloneInv
  <2> QED
    BY <2>1 DEF AloneInv
<1> QED
  BY <1>2, <1>4, <1>5, <1>6, <1>7, <1>8

\* The keys of finished inserts after a return.
LEMMA ReturnFinishes ==
    ASSUME ThreadsInv, NEW t \in Threads, point[t] = "walk", Returns(t),
           NEW u \in Threads, NEW k \in KeyIndexes, Finished(u, k)'
    PROVE  Finished(u, k) \/ (u = t /\ call[t] = 1 /\ k = KeyOf(t))
<1>1. /\ i[t] \in Int /\ call[t] \in {1, 2} /\ i[t] \in First(t) .. End(t)
      /\ First(t) \in Nat
  BY SharesDisjoint DEF ThreadsInv, TypeInv
<1>2. k \in Int
  BY ThreadsAssumption DEF KeyIndexes
<1>3. k \in First(u) .. i'[u] - 1 \/ (k = i'[u] /\ call'[u] = 2)
  BY DEF Finished, First, Share
<1>4. CASE u # t
  BY <1>3, <1>4 DEF Returns, Finished
<1>5. CASE u = t /\ call[t] = 1
  <2>1. k \in First(t) .. i[t] - 1 \/ k = i[t]
    BY <1>3, <1>5 DEF Returns
  <2> QED
    BY <1>5, <2>1 DEF Finished, KeyOf
<1>6. CASE u = t /\ call[t] = 2
  <2>0. call'[t] # 2 /\ i'[t] = i[t] + 1
    BY <1>6 DEF Returns
  <2>1. k \in First(t) .. (i[t] + 1) - 1
    BY <1>3, <1>6, <2>0
  <2> QED
    BY <1>1, <1>2, <1>6, <2>1 DEF Finished
<1> QED
  BY <1>1, <1>4, <1>5, <1>6

\* The nodes linked before are those of calls that are over, now too.
LEMMA ReturnKeepsFresh ==
    ASSUME ThreadsInv, NEW t \in Threads, point[t] = "walk", Returns(t)
    PROVE  \A n \in DOMAIN next, u \in Threads :
               n[1] \in First(u) .. End(u) - 1 =>
                   n[1] < i'[u] \/ (n[1] = i'[u] /\ n[2] < call'[u])
<1> SUFFICES ASSUME NEW n \in DOMAIN next, NEW u \in Threads,
                    n[1] \in First(u) .. End(u) - 1
             PROVE  n[1] < i'[u] \/ (n[1] = i'[u] /\ n[2] < call'[u])
  OBVIOUS
<1>1. /\ i[t] \in Int /\ call[t] \in {1, 2} /\ n[1] \in Int /\ n[2] \in {1, 2}
  BY ThreadsAssumption DEF ThreadsInv, TypeInv, Nodes, KeyIndexes
<1>2. n[1] < i[u] \/ (n[1] = i[u] /\ n[2] < call[u])
  BY DEF ThreadsInv, FreshInv
<1>3. CASE u # t
  BY <1>2, <1>3 DEF Returns
<1>4. CASE u = t
  BY <1>1, <1>2, <1>4 DEF Returns
<1> QED
  BY <1>3, <1>4

\* A call that found its key returns.
LEMMA ReturnFoundStep ==
    ASSUME ThreadsInv, NEW t \in Threads, ReturnFound(t)
    PROVE  ThreadsInv'
<1> USE DEF ThreadsInv
<1>1. /\ point[t] = "walk" /\ NextCall(t) /\ UNCHANGED <<ht_store, next>>
      /\ \/ curr[t] # NIL /\ KeyIn(curr[t]) = KeyOf(t)
         \/ curr[t] = NIL /\ IsLookup(t)
  BY DEF ReturnFound
<1>2. /\ Returns(t)
      /\ i' \in [Threads -> Int] /\ \A u \in Threads : i'[u] \in First(u) .. End(u)
      /\ call' \in [Threads -> {1, 2}]
      /\ point' \in [Threads -> {"call", "walk"}]
      /\ busy' \in [Threads -> SlotNumbers \cup {-1}]
      /\ RoundInv' /\ BusyInv' /\ AloneInv'
  BY <1>1, NextCallStep
<1>3. TypeInv'
  BY <1>1, <1>2 DEF TypeInv, Returns, First, End, Share
<1>4. FreshInv'
  <2>1. \A n \in DOMAIN next, u \in Threads :
            n[1] \in First(u) .. End(u) - 1 =>
                n[1] < i'[u] \/ (n[1] = i'[u] /\ n[2] < call'[u])
    BY <1>1, <1>2, ReturnKeepsFresh
  <2> QED
    BY <1>1, <2>1 DEF FreshInv, First, End, Share
<1>5. SlotInv'
  BY <1>1 DEF SlotInv, SlotOfNode
<1>6. CursorInv'
  <2>1. ASSUME NEW u \in Threads, point'[u] = "walk"
        PROVE  /\ prev'[u] # NIL => /\ prev'[u] \in DOMAIN next'
                                    /\ SlotOfNode(prev'[u]) = SlotFor(KeyOf(u)')
               /\ curr'[u] # NIL => /\ curr'[u] \in DOMAIN next'
                                    /\ SlotOfNode(curr'[u]) = SlotFor(KeyOf(u)')
    <3>1. u # t
      BY <1>2, <2>1 DEF Returns
    <3> QED
      BY <1>1, <1>2, <2>1, <3>1 DEF Returns, CursorInv
  <2> QED
    BY <2>1 DEF CursorInv, SlotOfNode
<1>7. BehindInv'
  <2>1. PICK seen, depth, bound : Behind(seen, depth, bound)
    BY DEF BehindInv
  <2>2. ASSUME NEW u \in Threads, point'[u] = "walk"
        PROVE  /\ prev'[u] # NIL =>
                    KeyOf(u)' \notin seen[prev'[u]] \cup {KeyIn(prev'[u])}
               /\ curr'[u] # NIL => KeyOf(u)' \notin seen[curr'[u]]
    <3>1. u # t
      BY <1>2, <2>2 DEF Returns
    <3> QED
      BY <1>2, <2>1, <2>2, <3>1 DEF Returns, Behind
  <2>3. Behind(seen, depth, bound)'
    BY <1>1, <2>1, <2>2 DEF Behind, KeyIn
  <2> QED
    BY <2>3 DEF BehindInv
<1>8. EndInv'
  <2>1. ASSUME NEW u \in Threads, busy'[u] # -1, busy'[u] \notin contended'
        PROVE  curr'[u] = IF prev'[u] = NIL THEN ht_store'[busy'[u]] ELSE next'[prev'[u]]
    <3>1. u # t
      BY <1>2, <2>1 DEF Returns
    <3> QED
      BY <1>1, <1>2, <2>1, <3>1 DEF Returns, EndInv
  <2> QED
    BY <2>1 DEF EndInv
<1>9. PredecessorInv'
  BY <1>1, <1>2 DEF PredecessorInv, SlotOfNode, Returns
<1>10. DoneInv'
  <2>1. ASSUME NEW u \in Threads, NEW k \in KeyIndexes, Finished(u, k)'
        PROVE  \E n \in DOMAIN next : KeyIn(n) = k
    <3>1. CASE Finished(u, k)
      BY <3>1 DEF DoneInv
    <3>2. CASE u = t /\ call[t] = 1 /\ k = KeyOf(t)
      <4>1. curr[t] # NIL /\ KeyIn(curr[t]) = KeyOf(t)
        BY <1>1, <3>2 DEF IsLookup
      <4>2. curr[t] \in DOMAIN next
        BY <1>1, <4>1 DEF CursorInv
      <4> QED
        BY <3>2, <4>1, <4>2
    <3> QED
      BY <1>1, <1>2, <2>1, <3>1, <3>2, ReturnFinishes
  <2> QED
    BY <1>1, <2>1 DEF DoneInv, KeyIn
<1> QED
  BY <1>2, <1>3, <1>4, <1>5, <1>6, <1>7, <1>8, <1>9, <1>10

\* The new node is linked behind the end of the chain its thread saw.
LEMMA LinkNodeStep ==
    ASSUME ThreadsInv, NEW t \in Threads, LinkNode(t)
    PROVE  ThreadsInv'
<1> USE DEF ThreadsInv
<1> DEFINE new == Node(t)
           slot == SlotFor(KeyOf(t))
<1>1. /\ point[t] = "walk" /\ curr[t] = NIL /\ ~IsLookup(t) /\ NextCall(t)
      /\ next' = [n \in DOMAIN next \cup {new} |->
                     IF n = new THEN NIL ELSE IF n = prev[t] THEN new ELSE next[n]]
      /\ ht_store' = IF prev[t] = NIL THEN [ht_store EXCEPT ![slot] = new] ELSE ht_store
  BY DEF LinkNode
<1>2. /\ Returns(t)
      /\ i' \in [Threads -> Int] /\ \A u \in Threads : i'[u] \in First(u) .. End(u)
      /\ call' \in [Threads -> {1, 2}]
      /\ point' \in [Threads -> {"call", "walk"}]
      /\ busy' \in [Threads -> SlotNumbers \cup {-1}]
      /\ RoundInv' /\ BusyInv' /\ AloneInv'
  BY <1>1, NextCallStep
<1>3. /\ KeyOf(t) \in KeyIndexes /\ slot \in SlotNumbers
      /\ new \in Nodes /\ new[1] = i[t] /\ new[2] = call[t]
      /\ KeyIn(new) = KeyOf(t) /\ new # NIL
      /\ i[t] < End(t)
  BY <1>1, CallType DEF RoundInv
<1>4. /\ i[t] \in First(t) .. End(t) - 1 /\ i[t] \in Int /\ call[t] \in {1, 2}
  BY <1>3, SharesDisjoint DEF TypeInv
<1> HIDE DEF new
<1>5. new \notin DOMAIN next
  <2> SUFFICES ASSUME new \in DOMAIN next PROVE FALSE
    OBVIOUS
  <2>1. i[t] < i[t] \/ (i[t] = i[t] /\ call[t] < call[t])
    BY <1>3, <1>4 DEF FreshInv
  <2> QED
    BY <1>4, <2>1
<1>6. prev[t] # NIL => prev[t] \in DOMAIN next /\ SlotOfNode(prev[t]) = slot
  BY <1>1 DEF CursorInv
<1> HIDE DEF slot
<1>7. /\ DOMAIN next' = DOMAIN next \cup {new} /\ next'[new] = NIL
      /\ prev[t] # NIL => next'[prev[t]] = new
      /\ \A n \in DOMAIN next : n # prev[t] => next'[n] = next[n]
      /\ NIL \notin DOMAIN next
  BY <1>1, <1>5, <1>6, NilIsNoNode DEF TypeInv
<1>8. /\ prev[t] = NIL => ht_store'[slot] = new
      /\ \A s \in SlotNumbers : s # slot \/ prev[t] # NIL => ht_store'[s] = ht_store[s]
  BY <1>1, <1>3 DEF TypeInv
<1>9. busy[t] = slot /\ slot # -1
  BY <1>1, <1>3, ThreadsAssumption DEF BusyInv, slot, SlotNumbers
<1>10. TypeInv'
  <2>1. next' \in [DOMAIN next' -> DOMAIN next' \cup {NIL}]
    BY <1>1, <1>7 DEF TypeInv
  <2>2. ht_store' \in [SlotNumbers -> DOMAIN next' \cup {NIL}]
    BY <1>1, <1>3, <1>7 DEF TypeInv
  <2>3. DOMAIN next' \subseteq Nodes
    BY <1>3, <1>7 DEF TypeInv
  <2>4. DOMAIN prev' = Threads /\ DOMAIN curr' = Threads
        /\ phase' \in {"INSERT", "MIX", "PASSED", "FATAL"}
    BY <1>2 DEF TypeInv, Returns
  <2> QED
    BY <1>2, <2>1, <2>2, <2>3, <2>4 DEF TypeInv, First, End, Share
<1>11. FreshInv'
  <2>1. ASSUME NEW n \in DOMAIN next', NEW u \in Threads,
               n[1] \in First(u) .. End(u) - 1
        PROVE  n[1] < i'[u] \/ (n[1] = i'[u] /\ n[2] < call'[u])
    <3>1. CASE n \in DOMAIN next
      BY <1>1, <1>2, <2>1, <3>1, ReturnKeepsFresh
    <3>2. CASE n = new
      <4>1. u = t
        <5>1. ~(t < u)
          <6>1. /\ End(t) \in Nat /\ First(u) \in Nat
                /\ t < u => End(t) <= First(u)
            BY SharesDisjoint
          <6> QED
            BY <1>3, <1>4, <2>1, <3>2, <6>1
        <5>2. ~(u < t)
          <6>1. /\ End(u) \in Nat /\ First(t) \in Nat
                /\ u < t => End(u) <= First(t)
            BY SharesDisjoint
          <6> QED
            BY <1>3, <1>4, <2>1, <3>2, <6>1
        <5> QED
          BY <5>1, <5>2, ThreadsAssumption DEF Threads
      <4> QED
        BY <1>2, <1>3, <1>4, <3>2, <4>1 DEF Returns
    <3> QED
      BY <1>7, <3>1, <3>2
  <2> QED
    BY <2>1 DEF FreshInv, First, End, Share
<1>12. SlotInv'
  <2>1. SlotOfNode(new) = slot
    BY <1>3 DEF SlotOfNode, slot
  <2>2. ASSUME NEW s \in SlotNumbers, ht_store'[s] # NIL PROVE SlotOfNode(ht_store'[s]) = s
    BY <1>8, <2>1, <2>2 DEF SlotInv
  <2>3. ASSUME NEW n \in DOMAIN next', next'[n] # NIL
        PROVE  SlotOfNode(next'[n]) = SlotOfNode(n)
    <3>1. CASE n = prev[t] /\ n \in DOMAIN next
      BY <1>6, <1>7, <2>1, <3>1
    <3>2. CASE n # prev[t] /\ n \in DOMAIN next
      BY <1>7, <2>3, <3>2 DEF SlotInv
    <3> QED
      BY <1>7, <2>3, <3>1, <3>2
  <2> QED
    BY <2>2, <2>3 DEF SlotInv, SlotOfNode
<1>13. CursorInv'
  <2>1. ASSUME NEW u \in Threads, point'[u] = "walk"
        PROVE  /\ prev'[u] # NIL => /\ prev'[u] \in DOMAIN next'
                                    /\ SlotOfNode(prev'[u]) = SlotFor(KeyOf(u)')
               /\ curr'[u] # NIL => /\ curr'[u] \in DOMAIN next'
                                    /\ SlotOfNode(curr'[u]) = SlotFor(KeyOf(u)')
    <3>1. u # t
      BY <1>2, <2>1 DEF Returns
    <3> QED
      BY <1>2, <1>7, <2>1, <3>1 DEF Returns, CursorInv
  <2> QED
    BY <2>1 DEF CursorInv, SlotOfNode
<1>14. BehindInv'
  <2>1. PICK seen, depth, bound : Behind(seen, depth, bound)
    BY DEF BehindInv
  <2> DEFINE before == IF prev[t] = NIL THEN {} ELSE seen[prev[t]] \cup {KeyIn(prev[t])}
             level == IF prev[t] = NIL THEN 0 ELSE depth[prev[t]] + 1
             seen1 == [n \in DOMAIN next \cup {new} |-> IF n = new THEN before ELSE seen[n]]
             depth1 == [n \in DOMAIN next \cup {new} |-> IF n = new THEN level ELSE depth[n]]
  <2>2. /\ seen1[new] = before /\ depth1[new] = level
        /\ \A n \in DOMAIN next : seen1[n] = seen[n] /\ depth1[n] = depth[n]
        /\ DOMAIN seen1 = DOMAIN next'
    BY <1>5, <1>7
  <2>3. level \in 0 .. bound + 1 /\ bound + 1 \in Nat
        /\ \A n \in DOMAIN next : depth[n] \in 0 .. bound + 1
    BY <1>6, <2>1 DEF Behind
  <2>4. KeyIn(new) \notin before
    BY <1>1, <1>3, <2>1 DEF Behind
  <2> HIDE DEF seen1, depth1
  <2>5. ASSUME NEW n \in DOMAIN next'
        PROVE  depth1[n] \in 0 .. bound + 1 /\ KeyIn(n) \notin seen1[n]
    <3>1. CASE n = new
      BY <2>2, <2>3, <2>4, <3>1
    <3>2. CASE n \in DOMAIN next
      BY <2>1, <2>2, <2>3, <3>2 DEF Behind
    <3> QED
      BY <1>7, <3>1, <3>2
  <2>6. ASSUME NEW s \in SlotNumbers, ht_store'[s] # NIL
        PROVE  seen1[ht_store'[s]] = {} /\ depth1[ht_store'[s]] = 0
    <3>1. CASE s = slot /\ prev[t] = NIL
      BY <1>8, <2>2, <3>1
    <3>2. CASE ~(s = slot /\ prev[t] = NIL)
      <4>1. ht_store'[s] = ht_store[s] /\ ht_store[s] \in DOMAIN next
        BY <1>8, <2>6, <3>2 DEF TypeInv
      <4> QED
        BY <2>1, <2>2, <2>6, <4>1 DEF Behind
    <3> QED
      BY <3>1, <3>2
  <2>7. ASSUME NEW n \in DOMAIN next', next'[n] # NIL
        PROVE  /\ seen1[next'[n]] = seen1[n] \cup {KeyIn(n)}
               /\ depth1[next'[n]] = depth1[n] + 1
    <3>1. CASE n = prev[t] /\ n \in DOMAIN next
      BY <1>7, <2>2, <3>1
    <3>2. CASE n # prev[t] /\ n \in DOMAIN next
      <4>1. next'[n] = next[n] /\ next[n] # NIL /\ next[n] \in DOMAIN next
        BY <1>7, <2>7, <3>2 DEF TypeInv
      <4> QED
        BY <2>1, <2>2, <3>2, <4>1 DEF Behind
    <3> QED
      BY <1>7, <2>7, <3>1, <3>2
  <2>8. ASSUME NEW u \in Threads, point'[u] = "walk"
        PROVE  /\ prev'[u] # NIL =>
                    KeyOf(u)' \notin seen1[prev'[u]] \cup {KeyIn(prev'[u])}
               /\ curr'[u] # NIL => KeyOf(u)' \notin seen1[curr'[u]]
    <3>1. u # t /\ point[u] = "walk" /\ prev'[u] = prev[u] /\ curr'[u] = curr[u]
          /\ KeyOf(u)' = KeyOf(u)
      BY <1>2, <2>8 DEF Returns
    <3>2. /\ prev[u] # NIL => prev[u] \in DOMAIN next
          /\ curr[u] # NIL => curr[u] \in DOMAIN next
      BY <3>1 DEF CursorInv
    <3> QED
      BY <2>1, <2>2, <3>1, <3>2 DEF Behind
  <2>9. PICK seen2, depth2, bound2 :
            seen2 = seen1 /\ depth2 = depth1 /\ bound2 = bound + 1
    OBVIOUS
  <2>10. Behind(seen2, depth2, bound2)'
    BY <2>2, <2>3, <2>5, <2>6, <2>7, <2>8, <2>9 DEF Behind, KeyIn
  <2> QED
    BY <2>10 DEF BehindInv
<1>15. EndInv'
  <2>1. ASSUME NEW u \in Threads, busy'[u] # -1, busy'[u] \notin contended'
        PROVE  curr'[u] = IF prev'[u] = NIL THEN ht_store'[busy'[u]] ELSE next'[prev'[u]]
    <3>1. /\ u # t /\ busy'[u] = busy[u] /\ contended' = contended
          /\ prev'[u] = prev[u] /\ curr'[u] = curr[u] /\ point'[u] = point[u]
      BY <1>2, <2>1 DEF Returns
    <3>2. busy[u] # slot
      BY <1>9, <2>1, <3>1 DEF AloneInv
    <3>3. point[u] = "walk" /\ busy[u] = SlotFor(KeyOf(u))
      BY <2>1, <3>1 DEF BusyInv
    <3>4. busy[u] \in SlotNumbers /\ ht_store'[busy[u]] = ht_store[busy[u]]
      <4>1. busy[u] \in SlotNumbers
        BY <2>1, <3>1 DEF TypeInv
      <4> QED
        BY <1>8, <3>2, <4>1
    <3>5. prev[u] # NIL => next'[prev[u]] = next[prev[u]]
      <4>1. prev[u] # NIL => prev[u] \in DOMAIN next /\ SlotOfNode(prev[u]) = busy[u]
        BY <3>3 DEF CursorInv
      <4>2. prev[u] # NIL => prev[u] # prev[t]
        BY <1>6, <3>2, <4>1
      <4> QED
        BY <1>7, <4>1, <4>2
    <3>6. curr[u] = IF prev[u] = NIL THEN ht_store[busy[u]] ELSE next[prev[u]]
      BY <2>1, <3>1 DEF EndInv
    <3> QED
      BY <3>1, <3>4, <3>5, <3>6
  <2> QED
    BY <2>1 DEF EndInv
<1>16. PredecessorInv'
  <2>1. ASSUME NEW n \in DOMAIN next', SlotOfNode(n) \notin contended'
        PROVE  \/ ht_store'[SlotOfNode(n)] = n
               \/ \E m \in DOMAIN next' : next'[m] = n
    <3>1. contended' = contended
      BY <1>2 DEF Returns
    <3>2. CASE n = new
      <4>1. SlotOfNode(new) = slot
        BY <1>3 DEF SlotOfNode, slot
      <4> QED
        BY <1>6, <1>7, <1>8, <3>2, <4>1
    <3>3. CASE n \in DOMAIN next
      <4>0. n # NIL
        BY <1>7, <3>3
      <4>1. CASE ht_store[SlotOfNode(n)] = n
        <5>1. SlotOfNode(n) \in SlotNumbers
          <6>1. KeyIn(n) \in KeyIndexes
            BY <3>3 DEF TypeInv, Nodes, KeyIn
          <6> QED
            BY <6>1, SlotType DEF SlotOfNode
        <5>2. ~(SlotOfNode(n) = slot /\ prev[t] = NIL)
          <6> SUFFICES ASSUME SlotOfNode(n) = slot, prev[t] = NIL PROVE FALSE
            OBVIOUS
          <6>1. slot \notin contended
            BY <2>1, <3>1
          <6>2. curr[t] = ht_store[slot]
            BY <1>9, <6>1 DEF EndInv
          <6> QED
            BY <1>1, <4>0, <4>1, <6>2
        <5> QED
          BY <1>8, <4>1, <5>1, <5>2
      <4>2. ASSUME NEW m \in DOMAIN next, next[m] = n
            PROVE  \E x \in DOMAIN next' : next'[x] = n
        <5>1. m # prev[t]
          <6> SUFFICES ASSUME m = prev[t] PROVE FALSE
            OBVIOUS
          <6>1. prev[t] # NIL
            BY <1>7
          <6>2. SlotOfNode(n) = slot
            BY <1>6, <4>0, <4>2, <6>1 DEF SlotInv
          <6>3. slot \notin contended
            BY <2>1, <3>1, <6>2
          <6>4. curr[t] = next[prev[t]]
            BY <1>9, <6>1, <6>3 DEF EndInv
          <6> QED
            BY <1>1, <4>0, <4>2, <6>4
        <5> QED
          BY <1>7, <4>2, <5>1
      <4> QED
        BY <2>1, <3>1, <3>3, <4>1, <4>2 DEF PredecessorInv
    <3> QED
      BY <1>7, <3>2, <3>3
  <2> QED
    BY <2>1 DEF PredecessorInv, SlotOfNode
<1>17. DoneInv'
  <2>1. ASSUME NEW u \in Threads, NEW k \in KeyIndexes, Finished(u, k)'
        PROVE  \E n \in DOMAIN next' : KeyIn(n) = k
    <3>1. CASE Finished(u, k)
      BY <1>7, <3>1 DEF DoneInv
    <3>2. CASE u = t /\ call[t] = 1 /\ k = KeyOf(t)
      BY <1>3, <1>7, <3>2
    <3> QED
      BY <1>1, <1>2, <2>1, <3>1, <3>2, ReturnFinishes
  <2> QED
    BY <2>1 DEF DoneInv, KeyIn
<1> QED
  BY <1>2, <1>10, <1>11, <1>12, <1>13, <1>14, <1>15, <1>16, <1>17

-----------------------------------------------------------------------------
(* An empty table, and main.                                               *)

\* With an empty table and every thread between two calls of its first round,
\* the invariant holds; ThreadsInit makes it so, and Validate again.
AtStart ==
    /\ phase \in {"INSERT", "MIX", "PASSED", "FATAL"}
    /\ ht_store = [s \in SlotNumbers |-> NIL]
    /\ next = [n \in {} |-> NIL]
    /\ i = [t \in Threads |-> First(t)]
    /\ call \in [Threads -> {1, 2}] /\ \A t \in Threads : call[t] = 1
    /\ point \in [Threads -> {"call", "walk"}] /\ \A t \in Threads : point[t] = "call"
    /\ DOMAIN prev = Threads /\ DOMAIN curr = Threads
    /\ busy \in [Threads -> SlotNumbers \cup {-1}] /\ \A t \in Threads : busy[t] = -1

\* The invariant holds where the threads are created,
LEMMA StartHolds == AtStart => ThreadsInv
<1> SUFFICES ASSUME AtStart PROVE ThreadsInv
  OBVIOUS
<1> USE DEF AtStart
<1>1. DOMAIN next = {} /\ \A s \in SlotNumbers : ht_store[s] = NIL
  OBVIOUS
<1>2. \A t \in Threads : /\ i[t] = First(t) /\ First(t) \in Nat /\ End(t) \in Nat
                         /\ First(t) <= End(t)
  BY SharesDisjoint
<1>3. TypeInv
  <2>1. next \in [DOMAIN next -> DOMAIN next \cup {NIL}] /\ DOMAIN next \subseteq Nodes
    BY <1>1
  <2>2. ht_store \in [SlotNumbers -> DOMAIN next \cup {NIL}]
    OBVIOUS
  <2>3. i \in [Threads -> Int] /\ \A t \in Threads : i[t] \in First(t) .. End(t)
    BY <1>2
  <2> QED
    BY <2>1, <2>2, <2>3 DEF TypeInv
<1>4. RoundInv /\ FreshInv /\ CursorInv /\ SlotInv
  BY <1>1 DEF RoundInv, FreshInv, CursorInv, SlotInv
<1>5. BusyInv /\ AloneInv /\ EndInv /\ PredecessorInv
  BY <1>1 DEF BusyInv, AloneInv, EndInv, PredecessorInv
<1>6. DoneInv
  <2>1. \A t \in Threads, k \in KeyIndexes : ~Finished(t, k)
    BY <1>2 DEF Finished
  <2> QED
    BY <2>1 DEF DoneInv
<1>7. Behind([n \in {} |-> {}], [n \in {} |-> 0], 0)
  BY <1>1 DEF Behind
<1> QED
  BY <1>3, <1>4, <1>5, <1>6, <1>7 DEF ThreadsInv, BehindInv

\* also as the result of a step.
LEMMA StartHoldsNext == AtStart' => ThreadsInv'
BY StartHolds, PTL

\* No thread is in a call when main has joined them all.
LEMMA JoinedIdle ==
    ASSUME ThreadsInv, Joined
    PROVE  \A t \in Threads : point[t] = "call" /\ busy[t] = -1 /\ call[t] = 1
<1> SUFFICES ASSUME NEW t \in Threads
             PROVE  point[t] = "call" /\ busy[t] = -1 /\ call[t] = 1
  OBVIOUS
<1>1. i[t] = End(t) /\ End(t) \in Nat
  BY SharesDisjoint DEF Joined
<1>2. point[t] \in {"call", "walk"} /\ point[t] # "walk" /\ call[t] = 1
  BY <1>1 DEF ThreadsInv, TypeInv, RoundInv
<1> QED
  BY <1>2 DEF ThreadsInv, BusyInv

\* A new phase while no thread is in a call changes nothing else.
LEMMA PhaseStep ==
    ASSUME ThreadsInv, Joined, phase' \in {"PASSED", "FATAL"},
           UNCHANGED <<ht_store, next, i, call, point, prev, curr, busy, contended>>
    PROVE  ThreadsInv'
<1> USE DEF ThreadsInv
<1>1. \A t \in Threads : point[t] = "call" /\ busy[t] = -1 /\ call[t] = 1
  BY JoinedIdle
<1>2. TypeInv' /\ RoundInv' /\ FreshInv' /\ SlotInv'
  BY <1>1 DEF TypeInv, RoundInv, FreshInv, SlotInv, SlotOfNode, First, End, Share
<1>3. CursorInv' /\ BusyInv' /\ EndInv'
  BY <1>1 DEF CursorInv, BusyInv, EndInv
<1>4. AloneInv' /\ PredecessorInv' /\ DoneInv'
  BY DEF AloneInv, PredecessorInv, SlotOfNode, DoneInv, Finished, KeyIn
<1>5. BehindInv'
  <2>1. PICK seen, depth, bound : Behind(seen, depth, bound)
    BY DEF BehindInv
  <2>2. Behind(seen, depth, bound)'
    BY <1>1, <2>1 DEF Behind, KeyIn
  <2> QED
    BY <2>2 DEF BehindInv
<1> QED
  BY <1>2, <1>3, <1>4, <1>5

\* The validation between the two runs.
LEMMA ValidateStep ==
    ASSUME ThreadsInv, Validate
    PROVE  ThreadsInv'
<1>1. Joined /\ phase' \in {"MIX", "FATAL"}
  BY DEF Validate
<1>2. CASE phase' = "FATAL"
  BY <1>1, <1>2, PhaseStep DEF Validate
<1>3. CASE phase' = "MIX"
  <2>1. \A t \in Threads : point[t] = "call" /\ busy[t] = -1 /\ call[t] = 1
    BY <1>1, JoinedIdle
  <2>2. /\ ht_store' = [s \in SlotNumbers |-> NIL] /\ next' = [n \in {} |-> NIL]
        /\ i' = [t \in Threads |-> First(t)]
        /\ UNCHANGED <<call, point, prev, curr, busy>>
    BY <1>3 DEF Validate
  <2>3. AtStart'
    BY <1>3, <2>1, <2>2 DEF AtStart, ThreadsInv, TypeInv, First, Share
  <2> QED
    BY <2>3, StartHoldsNext
<1> QED
  BY <1>1, <1>2, <1>3

\* testhash starts with the invariant.
LEMMA ThreadsInitHolds == ThreadsInit => ThreadsInv
<1>1. ThreadsInit => AtStart
  BY DEF ThreadsInit, AtStart
<1> QED
  BY <1>1, StartHolds

\* A step in which nothing changes.
LEMMA StutterStep ==
    ASSUME ThreadsInv, UNCHANGED threadVars
    PROVE  ThreadsInv'
<1> USE DEF ThreadsInv, threadVars
<1>1. TypeInv' /\ RoundInv' /\ FreshInv' /\ SlotInv'
  BY DEF TypeInv, RoundInv, FreshInv, SlotInv, SlotOfNode, First, End, Share, Running
<1>2. CursorInv' /\ EndInv'
  BY DEF CursorInv, EndInv, SlotOfNode, SlotFor, KeyOf, R
<1>3. BusyInv'
  BY DEF BusyInv, IsLookup, SlotFor, KeyOf, R
<1>4. AloneInv' /\ PredecessorInv' /\ DoneInv'
  BY DEF AloneInv, PredecessorInv, SlotOfNode, DoneInv, Finished, KeyIn
<1>5. BehindInv'
  <2>1. PICK seen, depth, bound : Behind(seen, depth, bound)
    BY DEF BehindInv
  <2>2. Behind(seen, depth, bound)'
    BY <2>1 DEF Behind, KeyIn, KeyOf, R
  <2> QED
    BY <2>2 DEF BehindInv
<1> QED
  BY <1>1, <1>2, <1>3, <1>4, <1>5

\* Whatever the interleaving of the threads' loads and stores, the invariant
\* holds: for every number of threads, keys and slots, and every hash.
THEOREM ThreadsInvariant == ThreadsSpec => []ThreadsInv
<1>1. ThreadsInv /\ [ThreadsNext]_threadVars => ThreadsInv'
  <2> SUFFICES ASSUME ThreadsInv, [ThreadsNext]_threadVars
               PROVE  ThreadsInv'
    OBVIOUS
  <2>1. ASSUME NEW t \in Threads, TestThreadStep(t) PROVE ThreadsInv'
    BY <2>1, LoadHeadStep, WalkStep, ReturnFoundStep, LinkNodeStep DEF TestThreadStep
  <2>2. CASE Validate
    BY <2>2, ValidateStep
  <2>3. CASE Passed
    BY <2>3, PhaseStep DEF Passed
  <2>4. CASE UNCHANGED threadVars
    BY <2>4, StutterStep
  <2> QED
    BY <2>1, <2>2, <2>3, <2>4 DEF ThreadsNext
<1> QED
  BY <1>1, ThreadsInitHolds, PTL DEF ThreadsSpec

\* Every pointer a thread or a chain holds is NULL or a node that was linked,
\* and every thread stays in its share of the keys.
THEOREM ThreadsPointersOK == ThreadsSpec => []ThreadsTypeOK
<1>1. ThreadsInv => ThreadsTypeOK
  <2> SUFFICES ASSUME ThreadsInv PROVE ThreadsTypeOK
    OBVIOUS
  <2>1. \A t \in Threads : point[t] \in {"call", "walk"}
    BY DEF ThreadsInv, TypeInv
  <2> QED
    BY <2>1 DEF ThreadsInv, TypeInv, CursorInv, ThreadsTypeOK
<1> QED
  BY <1>1, ThreadsInvariant, PTL

-----------------------------------------------------------------------------
(* Chains.                                                                 *)

\* A nonempty set of naturals has a least element.
LEMMA LeastOf ==
    ASSUME NEW S, S \subseteq Nat, S # {}
    PROVE  \E x \in S : \A y \in S : x <= y
<1>1. PICK x \in S : \A y \in S : ~(<<y, x>> \in OpToRel(<, Nat))
  BY NatLessThanWellFounded, WFMin
<1>2. \A y \in S : ~(y < x)
  BY <1>1, Zenon DEF OpToRel
<1>3. \A y \in S : x <= y
  BY <1>2
<1> QED
  BY <1>3

\* What holds of 1 and of j whenever it holds of j - 1 holds of 1 .. k.
LEMMA IndexInduction ==
    ASSUME NEW k \in Nat, NEW S,
           \A j \in 1 .. k : (j = 1 \/ j - 1 \in S) => j \in S
    PROVE  1 .. k \subseteq S
<1> DEFINE Bad == {j \in 1 .. k : j \notin S}
<1> SUFFICES ASSUME Bad # {} PROVE FALSE
  OBVIOUS
<1>1. Bad \subseteq Nat
  OBVIOUS
<1>2. PICK x \in Bad : \A y \in Bad : x <= y
  BY <1>1, LeastOf
<1>3. x \in 1 .. k /\ x \notin S /\ x # 1
  BY <1>2
<1>4. x - 1 \in 1 .. k /\ x - 1 \notin Bad
  BY <1>2, <1>3
<1> QED
  BY <1>3, <1>4

\* What holds of every node without a successor, and of a node whenever it holds
\* of its successor, holds of every node: no chain runs in a circle.
LEMMA NodeInduction ==
    ASSUME ThreadsInv, NEW S,
           \A n \in DOMAIN next : (next[n] = NIL \/ next[n] \in S) => n \in S
    PROVE  DOMAIN next \subseteq S
<1>1. PICK seen, depth, bound : Behind(seen, depth, bound)
  BY DEF ThreadsInv, BehindInv
<1> DEFINE Bad == {n \in DOMAIN next : n \notin S}
           Left == {bound - depth[n] : n \in Bad}
<1> SUFFICES ASSUME Bad # {} PROVE FALSE
  OBVIOUS
<1>2. \A n \in DOMAIN next : depth[n] \in 0 .. bound /\ bound \in Nat
  BY <1>1 DEF Behind
<1>3. Left \subseteq Nat /\ Left # {}
  BY <1>2
<1>4. PICK x \in Left : \A y \in Left : x <= y
  BY <1>3, LeastOf
<1>5. PICK n \in Bad : x = bound - depth[n]
  BY <1>4
<1>6. next[n] # NIL /\ next[n] \in DOMAIN next /\ next[n] \notin S
  BY <1>5 DEF ThreadsInv, TypeInv
<1>7. depth[next[n]] = depth[n] + 1
  BY <1>1, <1>5, <1>6 DEF Behind
<1>8. bound - depth[next[n]] \in Left
  BY <1>6
<1>9. x <= bound - depth[next[n]]
  BY <1>4, <1>8
<1> QED
  BY <1>2, <1>5, <1>6, <1>7, <1>9

\* c lists the nodes from n to the end of its chain.
IsPath(n, c) ==
    /\ c \in Seq(DOMAIN next)
    /\ Len(c) >= 1
    /\ c[1] = n
    /\ \A j \in 1 .. Len(c) - 1 : next[c[j]] = c[j + 1]
    /\ next[c[Len(c)]] = NIL

\* The last node of a chain, and a node in front of a chain.
LEMMA LastPath ==
    ASSUME NEW n \in DOMAIN next, next[n] = NIL
    PROVE  IsPath(n, <<n>>)
<1>1. <<n>> \in Seq(DOMAIN next) /\ Len(<<n>>) = 1 /\ <<n>>[1] = n
  OBVIOUS
<1> QED
  BY <1>1 DEF IsPath

\* A path from the next node makes one from the node.
LEMMA FrontPath ==
    ASSUME NEW n \in DOMAIN next, NEW c, IsPath(next[n], c)
    PROVE  IsPath(n, <<n>> \o c)
<1> DEFINE d == <<n>> \o c
<1>1. c \in Seq(DOMAIN next) /\ Len(c) \in Nat /\ Len(c) >= 1
  BY LenProperties DEF IsPath
<1>2. <<n>> \in Seq(DOMAIN next) /\ Len(<<n>>) = 1 /\ <<n>>[1] = n
  OBVIOUS
<1>3. d \in Seq(DOMAIN next) /\ Len(d) = 1 + Len(c)
  BY <1>1, <1>2, ConcatProperties
<1>4. d[1] = n /\ \A j \in 1 .. Len(c) : d[j + 1] = c[j]
  BY <1>1, <1>2, <1>3, ConcatProperties
<1> HIDE DEF d
<1>5. ASSUME NEW j \in 1 .. Len(d) - 1
      PROVE  next[d[j]] = d[j + 1]
  <2>1. CASE j = 1
    <3>1. d[2] = c[1]
      BY <1>1, <1>4
    <3> QED
      BY <1>4, <2>1, <3>1 DEF IsPath
  <2>2. CASE j # 1
    <3>1. j - 1 \in 1 .. Len(c) - 1 /\ j - 1 \in 1 .. Len(c) /\ j \in 1 .. Len(c)
      BY <1>1, <1>3, <2>2
    <3>2. d[j] = c[j - 1] /\ d[j + 1] = c[j]
      <4>1. d[(j - 1) + 1] = c[j - 1] /\ (j - 1) + 1 = j
        BY <1>4, <3>1
      <4> QED
        BY <1>4, <3>1, <4>1
    <3>3. next[c[j - 1]] = c[(j - 1) + 1] /\ (j - 1) + 1 = j
      BY <3>1 DEF IsPath
    <3> QED
      BY <3>2, <3>3
  <2> QED
    BY <2>1, <2>2
<1>6. next[d[Len(d)]] = NIL
  <2>1. d[Len(c) + 1] = c[Len(c)]
    BY <1>1, <1>4
  <2> QED
    BY <1>1, <1>3, <2>1 DEF IsPath
<1>7. Len(d) >= 1
  BY <1>1, <1>3
<1> QED
  BY <1>3, <1>4, <1>5, <1>6, <1>7 DEF IsPath, d

\* Every node has one path, and only one.
LEMMA PathExists ==
    ASSUME ThreadsInv
    PROVE  \A n \in DOMAIN next : \E c : IsPath(n, c)
<1> DEFINE S == {n \in DOMAIN next : \E c : IsPath(n, c)}
<1>1. ASSUME NEW n \in DOMAIN next, next[n] = NIL \/ next[n] \in S
      PROVE  n \in S
  BY <1>1, LastPath, FrontPath
<1>2. DOMAIN next \subseteq S
  BY <1>1, NodeInduction
<1> QED
  BY <1>2

\* Two paths from one node agree.
LEMMA PathsAgree ==
    ASSUME ThreadsInv, NEW n, NEW c, NEW d, IsPath(n, c), IsPath(n, d)
    PROVE  c = d
<1>1. /\ c \in Seq(DOMAIN next) /\ Len(c) \in Nat /\ Len(c) >= 1
      /\ d \in Seq(DOMAIN next) /\ Len(d) \in Nat /\ Len(d) >= 1
      /\ \A j \in 1 .. Len(c) : c[j] \in DOMAIN next
      /\ \A j \in 1 .. Len(d) : d[j] \in DOMAIN next
  BY LenProperties, ElementOfSeq DEF IsPath
<1>2. NIL \notin DOMAIN next
  BY NilIsNoNode DEF ThreadsInv, TypeInv
<1> DEFINE S == {j \in 1 .. Len(c) : j <= Len(d) /\ c[j] = d[j]}
<1>3. ASSUME NEW j \in 1 .. Len(c), j = 1 \/ j - 1 \in S
      PROVE  j \in S
  <2>1. CASE j = 1
    BY <1>1, <2>1 DEF IsPath
  <2>2. CASE j # 1
    <3>1. j - 1 \in 1 .. Len(c) /\ j - 1 <= Len(d) /\ c[j - 1] = d[j - 1]
          /\ j - 1 \in 1 .. Len(c) - 1 /\ (j - 1) + 1 = j
      BY <1>1, <1>3, <2>2
    <3>2. next[c[j - 1]] = c[j]
      BY <3>1 DEF IsPath
    <3>3. j - 1 # Len(d)
      BY <1>1, <1>2, <3>1, <3>2 DEF IsPath
    <3>4. j - 1 \in 1 .. Len(d) - 1
      BY <1>1, <3>1, <3>3
    <3>5. next[d[j - 1]] = d[j]
      BY <3>1, <3>4 DEF IsPath
    <3> QED
      BY <1>1, <3>1, <3>2, <3>4, <3>5
  <2> QED
    BY <2>1, <2>2
<1>4. 1 .. Len(c) \subseteq S
  BY <1>1, <1>3, IndexInduction
<1>5. Len(c) <= Len(d) /\ \A j \in 1 .. Len(c) : c[j] = d[j]
  BY <1>1, <1>4
<1>6. Len(c) = Len(d)
  <2> SUFFICES ASSUME Len(c) # Len(d) PROVE FALSE
    OBVIOUS
  <2>1. Len(c) \in 1 .. Len(d) - 1 /\ Len(c) + 1 \in 1 .. Len(d) /\ Len(c) \in 1 .. Len(c)
    BY <1>1, <1>5
  <2>2. next[d[Len(c)]] = d[Len(c) + 1]
    BY <2>1 DEF IsPath
  <2>3. next[c[Len(c)]] = NIL
    BY DEF IsPath
  <2> QED
    BY <1>1, <1>2, <1>5, <2>1, <2>2, <2>3
<1> QED
  BY <1>1, <1>5, <1>6, SeqEqual

\* f follows the next pointers from every node.
Follows(f) ==
    f = [n \in DOMAIN next \cup {NIL} |-> IF n = NIL THEN <<>> ELSE <<n>> \o f[next[n]]]

\* The walk of Chain is well defined, and lists the path from the head.
LEMMA ChainIsPath ==
    ASSUME ThreadsInv, NEW s \in SlotNumbers
    PROVE  /\ ht_store[s] = NIL => Chain(s) = <<>>
           /\ ht_store[s] # NIL => IsPath(ht_store[s], Chain(s))
<1>1. NIL \notin DOMAIN next /\ ht_store[s] \in DOMAIN next \cup {NIL}
      /\ \A n \in DOMAIN next : next[n] \in DOMAIN next \cup {NIL}
  BY NilIsNoNode DEF ThreadsInv, TypeInv
<1> DEFINE path(n) == CHOOSE c : IsPath(n, c)
           f == [n \in DOMAIN next \cup {NIL} |-> IF n = NIL THEN <<>> ELSE path(n)]
<1>2. \A n \in DOMAIN next : IsPath(n, path(n))
  BY PathExists
<1> HIDE DEF path
<1>3. ASSUME NEW n \in DOMAIN next PROVE f[n] = <<n>> \o f[next[n]]
  <2>1. f[n] = path(n)
    BY <1>1
  <2>2. CASE next[n] = NIL
    <3>1. f[next[n]] = <<>> /\ <<n>> \o <<>> = <<n>>
      BY <2>2
    <3>2. path(n) = <<n>>
      BY <1>2, <2>2, LastPath, PathsAgree
    <3> QED
      BY <2>1, <3>1, <3>2
  <2>3. CASE next[n] # NIL
    <3>1. f[next[n]] = path(next[n]) /\ IsPath(next[n], path(next[n]))
      BY <1>1, <1>2, <2>3
    <3>2. IsPath(n, <<n>> \o path(next[n]))
      BY <3>1, FrontPath
    <3>3. path(n) = <<n>> \o path(next[n])
      BY <1>2, <3>2, PathsAgree
    <3> QED
      BY <2>1, <3>1, <3>3
  <2> QED
    BY <2>2, <2>3
<1>4. Follows(f)
  BY <1>1, <1>3 DEF Follows
<1> DEFINE g == CHOOSE h : Follows(h)
<1>5. Follows(g)
  BY <1>4
<1>6. Chain(s) = g[ht_store[s]]
  BY DEF Chain, Follows
<1> HIDE DEF f, g
<1>7. g[NIL] = <<>> /\ \A n \in DOMAIN next : g[n] = <<n>> \o g[next[n]]
  BY <1>1, <1>5 DEF Follows
<1> DEFINE S == {n \in DOMAIN next : IsPath(n, g[n])}
<1>8. ASSUME NEW n \in DOMAIN next, next[n] = NIL \/ next[n] \in S
      PROVE  n \in S
  <2>1. CASE next[n] = NIL
    <3>1. g[n] = <<n>>
      <4>1. g[n] = <<n>> \o g[NIL] /\ g[NIL] = <<>>
        BY <1>7, <2>1
      <4>2. <<n>> \o <<>> = <<n>>
        OBVIOUS
      <4> QED
        BY <4>1, <4>2
    <3> QED
      BY <2>1, <3>1, LastPath
  <2>2. CASE next[n] \in S
    BY <1>7, <2>2, FrontPath
  <2> QED
    BY <1>8, <2>1, <2>2
<1>9. DOMAIN next \subseteq S
  BY <1>8, NodeInduction
<1> QED
  BY <1>1, <1>6, <1>7, <1>9

\* The chain of a slot: its nodes, and the step from one to the next.
LEMMA ChainNodes ==
    ASSUME ThreadsInv, NEW s \in SlotNumbers, NEW c, c = Chain(s)
    PROVE  /\ c \in Seq(DOMAIN next) /\ Len(c) \in Nat
           /\ DOMAIN c = 1 .. Len(c)
           /\ \A j \in 1 .. Len(c) : c[j] \in DOMAIN next
           /\ ht_store[s] # NIL => Len(c) >= 1 /\ c[1] = ht_store[s]
           /\ Len(c) >= 1 => ht_store[s] # NIL
           /\ \A j \in 1 .. Len(c) : next[c[j]] # NIL =>
                  j + 1 \in 1 .. Len(c) /\ next[c[j]] = c[j + 1]
           /\ \A j \in 1 .. Len(c) : j # 1 =>
                  /\ j - 1 \in 1 .. Len(c)
                  /\ next[c[j - 1]] = c[j] /\ next[c[j - 1]] # NIL
<1>1. NIL \notin DOMAIN next
  BY NilIsNoNode DEF ThreadsInv, TypeInv
<1>2. CASE ht_store[s] = NIL
  <2>1. c = <<>>
    BY <1>2, ChainIsPath
  <2>2. c \in Seq(DOMAIN next) /\ Len(c) = 0 /\ DOMAIN c = 1 .. Len(c)
    BY <2>1
  <2> QED
    BY <1>2, <2>2
<1>3. CASE ht_store[s] # NIL
  <2>1. IsPath(ht_store[s], c)
    BY <1>3, ChainIsPath
  <2>2. /\ c \in Seq(DOMAIN next) /\ Len(c) \in Nat /\ DOMAIN c = 1 .. Len(c)
        /\ Len(c) >= 1 /\ c[1] = ht_store[s] /\ next[c[Len(c)]] = NIL
    BY <2>1, LenProperties DEF IsPath
  <2>3. \A j \in 1 .. Len(c) : c[j] \in DOMAIN next
    BY <2>2, ElementOfSeq
  <2>4. \A j \in 1 .. Len(c) - 1 : next[c[j]] = c[j + 1]
    BY <2>1 DEF IsPath
  <2>5. ASSUME NEW j \in 1 .. Len(c), next[c[j]] # NIL
        PROVE  j + 1 \in 1 .. Len(c) /\ next[c[j]] = c[j + 1]
    <3>1. j # Len(c)
      BY <2>2, <2>5
    <3>2. j \in 1 .. Len(c) - 1 /\ j + 1 \in 1 .. Len(c)
      <4>1. Len(c) \in Nat
        BY <2>2
      <4> QED
        BY <3>1, <4>1
    <3> QED
      BY <2>4, <3>2
  <2>6. ASSUME NEW j \in 1 .. Len(c), j # 1
        PROVE  /\ j - 1 \in 1 .. Len(c)
               /\ next[c[j - 1]] = c[j] /\ next[c[j - 1]] # NIL
    <3>1. j - 1 \in 1 .. Len(c) - 1 /\ j - 1 \in 1 .. Len(c) /\ (j - 1) + 1 = j
      BY <2>2, <2>6
    <3>2. next[c[j - 1]] = c[(j - 1) + 1]
      BY <2>4, <3>1
    <3> QED
      BY <1>1, <2>3, <3>1, <3>2
  <2> QED
    BY <1>3, <2>2, <2>3, <2>5, <2>6
<1> QED
  BY <1>2, <1>3

\* A chain holds nodes of its own slot only, ...
LEMMA ChainInSlot ==
    ASSUME ThreadsInv, NEW s \in SlotNumbers, NEW c, c = Chain(s)
    PROVE  \A j \in 1 .. Len(c) : SlotOfNode(c[j]) = s
<1> DEFINE S == {j \in 1 .. Len(c) : SlotOfNode(c[j]) = s}
<1>1. Len(c) \in Nat
  BY ChainNodes
<1>2. ASSUME NEW j \in 1 .. Len(c), j = 1 \/ j - 1 \in S
      PROVE  j \in S
  <2>1. CASE j = 1
    <3>1. ht_store[s] # NIL /\ c[1] = ht_store[s]
      BY <1>1, <2>1, ChainNodes
    <3> QED
      BY <2>1, <3>1 DEF ThreadsInv, SlotInv
  <2>2. CASE j # 1
    <3>1. c[j - 1] \in DOMAIN next /\ next[c[j - 1]] = c[j] /\ next[c[j - 1]] # NIL
      BY <2>2, ChainNodes
    <3>2. SlotOfNode(c[j - 1]) = s
      BY <1>2, <2>2
    <3>3. SlotOfNode(next[c[j - 1]]) = SlotOfNode(c[j - 1])
      BY <3>1 DEF ThreadsInv, SlotInv
    <3> QED
      BY <3>1, <3>2, <3>3
  <2> QED
    BY <2>1, <2>2
<1>3. 1 .. Len(c) \subseteq S
  BY <1>1, <1>2, IndexInduction
<1> QED
  BY <1>3

\* ... and a key of one of its nodes is among those seen by every later one.
LEMMA ChainKeysDiffer ==
    ASSUME ThreadsInv, NEW s \in SlotNumbers, NEW c, c = Chain(s),
           NEW j \in 1 .. Len(c), NEW l \in 1 .. Len(c), j < l
    PROVE  KeyIn(c[j]) # KeyIn(c[l])
<1>1. PICK seen, depth, bound : Behind(seen, depth, bound)
  BY DEF ThreadsInv, BehindInv
<1> DEFINE S == {m \in 1 .. Len(c) : m <= j \/ KeyIn(c[j]) \in seen[c[m]]}
<1>2. Len(c) \in Nat
  BY ChainNodes
<1>3. ASSUME NEW m \in 1 .. Len(c), m = 1 \/ m - 1 \in S
      PROVE  m \in S
  <2> SUFFICES ASSUME m > j PROVE KeyIn(c[j]) \in seen[c[m]]
    BY <1>2
  <2>1. m # 1 /\ m - 1 \in S
    BY <1>2, <1>3
  <2>2. c[m - 1] \in DOMAIN next /\ next[c[m - 1]] = c[m] /\ next[c[m - 1]] # NIL
    BY <2>1, ChainNodes
  <2>3. seen[c[m]] = seen[c[m - 1]] \cup {KeyIn(c[m - 1])}
    BY <1>1, <2>2 DEF Behind
  <2>4. m - 1 = j \/ KeyIn(c[j]) \in seen[c[m - 1]]
    BY <1>2, <2>1
  <2> QED
    BY <2>3, <2>4
<1>4. 1 .. Len(c) \subseteq S
  BY <1>2, <1>3, IndexInduction
<1>5. KeyIn(c[j]) \in seen[c[l]]
  BY <1>2, <1>4
<1>6. c[l] \in DOMAIN next
  BY ChainNodes
<1> QED
  BY <1>1, <1>5, <1>6 DEF Behind

\* A chain holds only nodes of its own slot and no key twice, however the
\* unlocked inserts of htable_insert interleave.
THEOREM ThreadsChainsSound == ThreadsSpec => []ChainsSound
<1>1. ThreadsInv => ChainsSound
  <2> SUFFICES ASSUME ThreadsInv, NEW s \in SlotNumbers, NEW c, c = Chain(s)
               PROVE  /\ \A j \in DOMAIN c : SlotFor(KeyIn(c[j])) = s
                      /\ \A j, l \in DOMAIN c : KeyIn(c[j]) = KeyIn(c[l]) => j = l
    BY DEF ChainsSound
  <2>1. DOMAIN c = 1 .. Len(c) /\ Len(c) \in Nat
    BY ChainNodes
  <2>2. \A j \in DOMAIN c : SlotFor(KeyIn(c[j])) = s
    BY <2>1, ChainInSlot DEF SlotOfNode
  <2>3. ASSUME NEW j \in DOMAIN c, NEW l \in DOMAIN c, KeyIn(c[j]) = KeyIn(c[l])
        PROVE  j = l
    <3>1. j \in 1 .. Len(c) /\ l \in 1 .. Len(c)
      BY <2>1
    <3>2. ~(j < l) /\ ~(l < j)
      BY <2>3, <3>1, ChainKeysDiffer
    <3> QED
      BY <3>1, <3>2
  <2> QED
    BY <2>2, <2>3
<1> QED
  BY <1>1, ThreadsInvariant, PTL

\* On a slot no two inserts have met on, every node that was ever linked is
\* still in the chain.
LEMMA NothingLost ==
    ASSUME ThreadsInv, NEW s \in SlotNumbers, s \notin contended, NEW c, c = Chain(s)
    PROVE  \A n \in DOMAIN next : SlotOfNode(n) = s => \E j \in 1 .. Len(c) : c[j] = n
<1>1. PICK seen, depth, bound : Behind(seen, depth, bound)
  BY DEF ThreadsInv, BehindInv
<1>2. \A n \in DOMAIN next : depth[n] \in Nat
  BY <1>1 DEF Behind
<1> DEFINE Bad == {n \in DOMAIN next : SlotOfNode(n) = s /\ ~\E j \in 1 .. Len(c) : c[j] = n}
           Depths == {depth[n] : n \in Bad}
<1> SUFFICES ASSUME Bad # {} PROVE FALSE
  OBVIOUS
<1>3. Depths \subseteq Nat /\ Depths # {}
  BY <1>2
<1>4. PICK x \in Depths : \A y \in Depths : x <= y
  BY <1>3, LeastOf
<1>5. PICK n \in Bad : x = depth[n]
  BY <1>4
<1>6. n \in DOMAIN next /\ SlotOfNode(n) = s /\ n # NIL /\ Len(c) \in Nat
  BY <1>5, NilIsNoNode, ChainNodes DEF ThreadsInv, TypeInv
<1>7. ht_store[s] # n
  <2> SUFFICES ASSUME ht_store[s] = n PROVE FALSE
    OBVIOUS
  <2>1. 1 \in 1 .. Len(c) /\ c[1] = n
    BY <1>6, ChainNodes
  <2> QED
    BY <1>5, <2>1
<1>8. PICK m \in DOMAIN next : next[m] = n
  BY <1>6, <1>7 DEF ThreadsInv, PredecessorInv
<1>9. SlotOfNode(m) = s /\ depth[n] = depth[m] + 1
  BY <1>1, <1>6, <1>8 DEF ThreadsInv, SlotInv, Behind
<1>10. m \notin Bad
  <2> SUFFICES ASSUME m \in Bad PROVE FALSE
    OBVIOUS
  <2>1. depth[m] \in Depths
    OBVIOUS
  <2>2. x <= depth[m]
    BY <1>4, <2>1
  <2> QED
    BY <1>2, <1>5, <1>8, <1>9, <2>2
<1>11. PICK j \in 1 .. Len(c) : c[j] = m
  BY <1>8, <1>9, <1>10
<1>12. j + 1 \in 1 .. Len(c) /\ c[j + 1] = n
  BY <1>6, <1>8, <1>11, ChainNodes
<1> QED
  BY <1>5, <1>12

\* A key whose insert has returned is in the table unless two inserts have
\* overlapped on its slot.
THEOREM ThreadsLostOnlyByContention == ThreadsSpec => []LostOnlyByContention
<1>1. ThreadsInv => LostOnlyByContention
  <2> SUFFICES ASSUME ThreadsInv, NEW t \in Threads, NEW k \in KeyIndexes,
                      Finished(t, k), SlotFor(k) \notin contended,
                      NEW c, c = Chain(SlotFor(k))
               PROVE  \E j \in DOMAIN c : KeyIn(c[j]) = k
    BY DEF LostOnlyByContention, InTable
  <2>1. PICK n \in DOMAIN next : KeyIn(n) = k
    BY DEF ThreadsInv, DoneInv
  <2>2. SlotFor(k) \in SlotNumbers /\ SlotOfNode(n) = SlotFor(k)
    BY <2>1, SlotType DEF SlotOfNode
  <2>3. PICK j \in 1 .. Len(c) : c[j] = n
    BY <2>2, NothingLost
  <2>4. DOMAIN c = 1 .. Len(c)
    BY <2>2, ChainNodes
  <2> QED
    BY <2>1, <2>3, <2>4
<1> QED
  BY <1>1, ThreadsInvariant, PTL

=============================================================================
