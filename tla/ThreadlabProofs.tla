-------------------------- MODULE ThreadlabProofs ---------------------------
(***************************************************************************)
(* Two parts of threadlab that do not meet: htable.c used by one thread,   *)
(* and the judge of testrwlock.c.                                          *)
(*                                                                         *)
(* The table, for every set of ASCII keys, every initial size and every    *)
(* MAX_COLLISION: nodes are where a search looks for them, and the table   *)
(* is a map.                                                               *)
(*                                                                         *)
(* The judge is right for any number of competing readers and any clock.   *)
(* Its invariant says, for each place of the master, what the basic test   *)
(* has already ruled out, where the threads can be, and what their flags   *)
(* can hold.                                                               *)
(***************************************************************************)
EXTENDS HTable, TestRwlock, Collections

\* The search of get_prime ends: a theorem of number theory (between n and 2n
\* there is a prime), which is not proved here.
PrimesFound == \A min \in Nat \ {0} : \E n \in min .. 2 * min + 3 : is_prime(n)

-----------------------------------------------------------------------------
(* Hash codes and slots.                                                   *)

\* The loop of hashcode, character by character.
HashTable(s, p) ==
    p = [i \in 0 .. Len(s) |-> IF i = 0 THEN 0 ELSE madd(mmul(p[i - 1], 256), s[i])]

\* hashcode in terms of it.
LEMMA HashcodeIs ==
    ASSUME NEW s
    PROVE  hashcode(s) = (CHOOSE p : HashTable(s, p))[Len(s)]
BY DEF hashcode, HashTable

\* The hash code of an ASCII string is not negative.
LEMMA HashcodeType ==
    ASSUME NEW s \in Seq(ASCII)
    PROVE  hashcode(s) \in Nat
<1> DEFINE N == Len(s)
           turn == [x \in (1 .. N) \X Nat |-> madd(mmul(x[2], 256), s[x[1]])]
<1>1. N \in Nat /\ DOMAIN s = 1 .. N /\ \A i \in 1 .. N : s[i] \in Nat
  <2>1. N \in Nat /\ DOMAIN s = 1 .. N
    BY LenProperties
  <2>2. \A i \in 1 .. N : s[i] \in ASCII
    BY <2>1, ElementOfSeq
  <2>3. ASCII \subseteq Nat
    BY DEF ASCII
  <2> QED
    BY <2>1, <2>2, <2>3
<1>2. \A i \in 1 .. N : \A v \in Nat : madd(mmul(v, 256), s[i]) \in Nat
  <2> SUFFICES ASSUME NEW i \in 1 .. N, NEW v \in Nat
               PROVE  madd(mmul(v, 256), s[i]) \in Nat
    OBVIOUS
  <2>1. mmul(v, 256) \in Nat
    BY HTableAssumption DEF mmul
  <2> QED
    BY <1>1, <2>1, HTableAssumption DEF madd
<1>3. turn \in [(1 .. N) \X Nat -> Nat]
  BY <1>2
<1>4. \A i \in 1 .. N : \A v \in Nat : turn[<<i, v>>] = madd(mmul(v, 256), s[i])
  OBVIOUS
<1> HIDE DEF turn
<1>5. PICK g \in [0 .. N -> Nat] : Recursion(g, N, 0, turn)
  <2> HIDE DEF N
  <2> QED
    BY <1>1, <1>3, RecursionExists
<1>6. HashTable(s, g)
  <2>1. ASSUME NEW i \in 1 .. N
        PROVE  g[i - 1] \in Nat /\ g[i] = madd(mmul(g[i - 1], 256), s[i])
    <3>1. i - 1 \in 0 .. N
      BY <1>1
    <3>2. g[i - 1] \in Nat
      BY <3>1
    <3>3. g[i] = turn[<<i, g[i - 1]>>]
      BY <1>5 DEF Recursion
    <3> QED
      BY <1>4, <3>2, <3>3, Zenon
  <2>2. g[0] = 0 /\ \A i \in 0 .. N : i = 0 \/ i \in 1 .. N
    BY <1>1, <1>5 DEF Recursion
  <2> QED
    BY <1>5, <2>1, <2>2 DEF HashTable
<1> DEFINE p == CHOOSE p : HashTable(s, p)
<1>7. HashTable(s, p)
  BY <1>6
<1> HIDE DEF p
<1>8. \A i \in 0 .. N : p[i] = IF i = 0 THEN 0 ELSE madd(mmul(p[i - 1], 256), s[i])
  BY <1>7, Zenon DEF HashTable
<1> DEFINE G == {i \in 0 .. N : p[i] \in Nat}
<1>9. 0 \in G
  BY <1>1, <1>8
<1>10. ASSUME NEW i \in 1 .. N, i - 1 \in G PROVE i \in G
  <2>1. i \in 0 .. N /\ i # 0 /\ p[i - 1] \in Nat
    BY <1>1, <1>10
  <2>2. p[i] = madd(mmul(p[i - 1], 256), s[i])
    BY <1>8, <2>1, Zenon
  <2>3. madd(mmul(p[i - 1], 256), s[i]) \in Nat
    BY <1>2, <2>1, Zenon
  <2> QED
    BY <2>1, <2>2, <2>3
<1> HIDE DEF G
<1>11. 0 .. N \subseteq G
  <2> HIDE DEF N
  <2> QED
    BY <1>1, <1>9, <1>10, IntervalInduction
<1>12. N \in G
  BY <1>1, <1>11
<1> QED
  BY <1>12, HashcodeIs DEF G, p

\* A key has a slot in every table.
LEMMA SlotType ==
    ASSUME NEW k \in Keys, NEW n \in Nat \ {0}
    PROVE  SlotOf(k, n) \in Slots(n)
<1>1. hashcode(k) \in Nat
  BY HTableAssumption, HashcodeType
<1> QED
  BY <1>1 DEF SlotOf, Slots

-----------------------------------------------------------------------------
(* Chains.                                                                 *)

\* The nodes of a table.
Nodes(st) == {e \in Entry : \E s \in DOMAIN st : \E j \in DOMAIN st[s] : st[s][j] = e}

\* No key is in a chain twice.
KeysDiffer(chain) == \A j, l \in DOMAIN chain : chain[j].key = chain[l].key => j = l

\* A table of n slots in which a search finds what there is to find.
Sound(n) ==
    {st \in [Slots(n) -> Seq(Entry)] :
        \A s \in Slots(n) : /\ \A j \in DOMAIN st[s] : SlotOf(st[s][j].key, n) = s
                            /\ KeysDiffer(st[s])}

\* An empty table is one.
LEMMA EmptySound ==
    ASSUME NEW n
    PROVE  /\ EmptyStore(n) \in Sound(n) /\ EmptyStore(n) \in [Slots(n) -> Seq(Entry)]
           /\ Nodes(EmptyStore(n)) = {}
<1> DEFINE st == EmptyStore(n)
<1>1. DOMAIN st = Slots(n) /\ \A s \in Slots(n) : st[s] = <<>>
  BY DEF EmptyStore
<1>2. <<>> \in Seq(Entry) /\ DOMAIN << >> = {}
  OBVIOUS
<1>3. st \in [Slots(n) -> Seq(Entry)]
  BY <1>2 DEF EmptyStore
<1> HIDE DEF st
<1> QED
  BY <1>1, <1>2, <1>3 DEF Sound, Nodes, KeysDiffer, st

\* The elements of a chain.
LEMMA ChainIs ==
    ASSUME NEW n, NEW st \in [Slots(n) -> Seq(Entry)], NEW s \in Slots(n)
    PROVE  /\ st[s] \in Seq(Entry) /\ Len(st[s]) \in Nat /\ DOMAIN st[s] = 1 .. Len(st[s])
           /\ \A j \in DOMAIN st[s] : st[s][j] \in Entry /\ st[s][j] \in Nodes(st)
<1>1. st[s] \in Seq(Entry)
  OBVIOUS
<1>2. Len(st[s]) \in Nat /\ DOMAIN st[s] = 1 .. Len(st[s])
      /\ \A j \in 1 .. Len(st[s]) : st[s][j] \in Entry
  BY <1>1, LenProperties, ElementOfSeq
<1> QED
  BY <1>1, <1>2 DEF Nodes

\* The nodes of chain c are those of b and e.
Joined(c, b, e) ==
    /\ \A j \in DOMAIN c : c[j] = e \/ \E l \in DOMAIN b : c[j] = b[l]
    /\ \A l \in DOMAIN b : \E j \in DOMAIN c : c[j] = b[l]
    /\ \E j \in DOMAIN c : c[j] = e

\* Table new has chain c at slot s, and is otherwise st.
Replaced(new, n, st, s, c) ==
    /\ new \in [Slots(n) -> Seq(Entry)]
    /\ new[s] = c
    /\ \A r \in Slots(n) : r # s => new[r] = st[r]

\* A chain in which a node was added, at one end or the other, in its table.
LEMMA JoinSound ==
    ASSUME NEW n \in Nat \ {0}, NEW st \in Sound(n), NEW e \in Entry,
           NEW c \in Seq(Entry), NEW s, s = SlotOf(e.key, n), KeysDiffer(c),
           Joined(c, st[s], e), NEW new, Replaced(new, n, st, s, c)
    PROVE  new \in Sound(n) /\ Nodes(new) = Nodes(st) \cup {e}
<1>1. s \in Slots(n) /\ e.key \in Keys
  BY SlotType DEF Entry
<1>2. /\ st \in [Slots(n) -> Seq(Entry)]
      /\ \A r \in Slots(n) : /\ \A j \in DOMAIN st[r] : SlotOf(st[r][j].key, n) = r
                             /\ KeysDiffer(st[r])
  BY DEF Sound
<1>3. /\ new \in [Slots(n) -> Seq(Entry)] /\ new[s] = c
      /\ \A r \in Slots(n) : r # s => new[r] = st[r]
  BY DEF Replaced
<1>4. ASSUME NEW j \in DOMAIN c PROVE SlotOf(c[j].key, n) = s
  BY <1>1, <1>2 DEF Joined
<1>5. new \in Sound(n)
  BY <1>2, <1>3, <1>4 DEF Sound
<1>6. DOMAIN new = Slots(n) /\ DOMAIN st = Slots(n)
  BY <1>2, <1>3
<1>7. Nodes(new) \subseteq Nodes(st) \cup {e}
  <2> SUFFICES ASSUME NEW d \in Entry, NEW r \in Slots(n), NEW j \in DOMAIN new[r],
                      new[r][j] = d, d # e
               PROVE  d \in Nodes(st)
    BY <1>6 DEF Nodes
  <2>1. CASE r = s
    <3>1. \E l \in DOMAIN st[s] : d = st[s][l]
      BY <1>3, <2>1 DEF Joined
    <3> QED
      BY <1>1, <1>6, <3>1 DEF Nodes
  <2>2. CASE r # s
    BY <1>3, <1>6, <2>2 DEF Nodes
  <2> QED
    BY <2>1, <2>2
<1>8. Nodes(st) \subseteq Nodes(new)
  <2> SUFFICES ASSUME NEW d \in Entry, NEW r \in Slots(n), NEW j \in DOMAIN st[r],
                      st[r][j] = d
               PROVE  d \in Nodes(new)
    BY <1>6 DEF Nodes
  <2>1. CASE r = s
    <3>1. \E l \in DOMAIN c : c[l] = d
      BY <2>1 DEF Joined
    <3> QED
      BY <1>1, <1>3, <1>6, <3>1 DEF Nodes
  <2>2. CASE r # s
    BY <1>3, <1>6, <2>2 DEF Nodes
  <2> QED
    BY <2>1, <2>2
<1>9. e \in Nodes(new)
  BY <1>1, <1>3, <1>6 DEF Nodes, Joined
<1> QED
  BY <1>5, <1>7, <1>8, <1>9

\* Whatever is pushed on a table, it stays a table.
LEMMA PushType ==
    ASSUME NEW n, NEW st \in [Slots(n) -> Seq(Entry)], NEW e \in Entry
    PROVE  Push(st, e, n) \in [Slots(n) -> Seq(Entry)]
<1>1. \A c \in Seq(Entry) : <<e>> \o c \in Seq(Entry)
  OBVIOUS
<1> QED
  BY <1>1 DEF Push

\* A node whose key the table has not is pushed on its chain.
LEMMA PushSound ==
    ASSUME NEW n \in Nat \ {0}, NEW st \in Sound(n), NEW e \in Entry,
           \A d \in Nodes(st) : d.key # e.key
    PROVE  Push(st, e, n) \in Sound(n) /\ Nodes(Push(st, e, n)) = Nodes(st) \cup {e}
<1> DEFINE s == SlotOf(e.key, n)
           b == st[s]
           c == <<e>> \o b
<1>1. s \in Slots(n) /\ st \in [Slots(n) -> Seq(Entry)] /\ KeysDiffer(b)
  BY SlotType DEF Entry, Sound
<1>2. /\ b \in Seq(Entry) /\ Len(b) \in Nat /\ DOMAIN b = 1 .. Len(b)
      /\ \A j \in DOMAIN b : b[j] \in Entry /\ b[j] \in Nodes(st)
  BY <1>1, ChainIs
<1> HIDE DEF b, s
<1>3. c \in Seq(Entry) /\ Len(c) = Len(b) + 1 /\ c[1] = e
      /\ \A j \in 1 .. Len(b) : c[j + 1] = b[j]
  BY <1>2
<1>4. DOMAIN c = 1 .. Len(b) + 1
  BY <1>3, LenProperties
<1> HIDE DEF c
<1>5. \A j \in DOMAIN c : j = 1 \/ (j - 1 \in DOMAIN b /\ c[j] = b[j - 1])
  BY <1>2, <1>3, <1>4
<1>6. KeysDiffer(c)
  <2> SUFFICES ASSUME NEW j \in DOMAIN c, NEW l \in DOMAIN c, c[j].key = c[l].key
               PROVE  j = l
    BY DEF KeysDiffer
  <2>1. \A i \in DOMAIN c : i # 1 => c[i].key # e.key
    BY <1>2, <1>5
  <2>2. j # 1 /\ l # 1 => j - 1 = l - 1
    BY <1>1, <1>5 DEF KeysDiffer
  <2>3. j \in Int /\ l \in Int
    BY <1>2, <1>4
  <2> QED
    BY <1>3, <2>1, <2>2, <2>3
<1>7. Joined(c, b, e)
  <2>1. \A l \in DOMAIN b : l + 1 \in DOMAIN c /\ c[l + 1] = b[l]
    BY <1>2, <1>3, <1>4
  <2>2. 1 \in DOMAIN c
    BY <1>2, <1>4
  <2> QED
    BY <1>3, <1>5, <2>1, <2>2 DEF Joined
<1>8. Push(st, e, n) = [st EXCEPT ![s] = c]
  BY DEF Push, s, c, b
<1> DEFINE new == [st EXCEPT ![s] = c]
<1>9. new \in Sound(n) /\ Nodes(new) = Nodes(st) \cup {e}
  <2>1. s = SlotOf(e.key, n)
    BY DEF s
  <2>2. Joined(c, st[s], e) /\ c \in Seq(Entry)
    BY <1>3, <1>7 DEF b
  <2>3. Replaced(new, n, st, s, c)
    BY <1>1, <1>3 DEF Replaced
  <2> HIDE DEF new
  <2> QED
    BY <1>6, <2>1, <2>2, <2>3, JoinSound
<1> QED
  BY <1>8, <1>9

\* The same for htable_insert, which adds a node at the end.
LEMMA AppendSound ==
    ASSUME NEW n \in Nat \ {0}, NEW st \in Sound(n), NEW e \in Entry,
           \A d \in Nodes(st) : d.key # e.key,
           NEW s, s = SlotOf(e.key, n), NEW new, Replaced(new, n, st, s, Append(st[s], e))
    PROVE  new \in Sound(n) /\ Nodes(new) = Nodes(st) \cup {e}
<1> DEFINE b == st[s]
           c == Append(b, e)
<1>1. s \in Slots(n) /\ st \in [Slots(n) -> Seq(Entry)] /\ KeysDiffer(b)
  BY SlotType DEF Entry, Sound
<1>2. /\ b \in Seq(Entry) /\ Len(b) \in Nat /\ DOMAIN b = 1 .. Len(b)
      /\ \A j \in DOMAIN b : b[j] \in Entry /\ b[j] \in Nodes(st)
  BY <1>1, ChainIs
<1> HIDE DEF b
<1>3. c \in Seq(Entry) /\ Len(c) = Len(b) + 1 /\ c[Len(b) + 1] = e
      /\ \A j \in 1 .. Len(b) : c[j] = b[j]
  BY <1>2
<1>4. DOMAIN c = 1 .. Len(b) + 1
  BY <1>3, LenProperties
<1> HIDE DEF c
<1>5. \A j \in DOMAIN c : j = Len(b) + 1 \/ (j \in DOMAIN b /\ c[j] = b[j])
  BY <1>2, <1>3, <1>4
<1>6. KeysDiffer(c)
  <2> SUFFICES ASSUME NEW j \in DOMAIN c, NEW l \in DOMAIN c, c[j].key = c[l].key
               PROVE  j = l
    BY DEF KeysDiffer
  <2>1. \A i \in DOMAIN c : i # Len(b) + 1 => c[i].key # e.key
    BY <1>2, <1>5
  <2>2. j # Len(b) + 1 /\ l # Len(b) + 1 => j = l
    BY <1>1, <1>5 DEF KeysDiffer
  <2> QED
    BY <1>3, <2>1, <2>2
<1>7. Joined(c, b, e)
  <2>1. \A l \in DOMAIN b : l \in DOMAIN c /\ c[l] = b[l]
    BY <1>2, <1>3, <1>4
  <2>2. Len(b) + 1 \in DOMAIN c
    BY <1>2, <1>4
  <2> QED
    BY <1>3, <1>5, <2>1, <2>2 DEF Joined
<1>8. Joined(c, st[s], e) /\ c \in Seq(Entry)
  BY <1>3, <1>7 DEF b
<1>9. Replaced(new, n, st, s, c)
  BY DEF b, c
<1> QED
  BY <1>6, <1>8, <1>9, JoinSound

-----------------------------------------------------------------------------
(* Resizing.                                                               *)

\* The inner loop of htable_resize, node by node.
ChainTable(st, c, n, f) ==
    f = [j \in 0 .. Len(c) |-> IF j = 0 THEN st ELSE Push(f[j - 1], c[j], n)]

\* MoveChain in terms of it.
LEMMA MoveChainIs ==
    ASSUME NEW st, NEW c, NEW n
    PROVE  MoveChain(st, c, n) = (CHOOSE f : ChainTable(st, c, n, f))[Len(c)]
BY DEF MoveChain, ChainTable

\* The inner loop is well defined.
LEMMA ChainLoop ==
    ASSUME NEW n, NEW st \in [Slots(n) -> Seq(Entry)], NEW c \in Seq(Entry)
    PROVE  \E f : /\ MoveChain(st, c, n) = f[Len(c)] /\ f[0] = st
                  /\ \A j \in 1 .. Len(c) : f[j] = Push(f[j - 1], c[j], n)
<1> DEFINE V == [Slots(n) -> Seq(Entry)]
           N == Len(c)
           turn == [x \in (1 .. N) \X V |-> Push(x[2], c[x[1]], n)]
<1>1. N \in Nat /\ DOMAIN c = 1 .. N /\ \A j \in 1 .. N : c[j] \in Entry
  BY LenProperties, ElementOfSeq
<1>2. \A j \in 1 .. N : \A v \in V : Push(v, c[j], n) \in V
  BY <1>1, PushType
<1>3. turn \in [(1 .. N) \X V -> V]
  BY <1>2
<1>4. \A j \in 1 .. N : \A v \in V : turn[<<j, v>>] = Push(v, c[j], n)
  OBVIOUS
<1>s. st \in V
  OBVIOUS
<1> HIDE DEF turn, V, N
<1>5. PICK g \in [0 .. N -> V] : Recursion(g, N, st, turn)
  BY <1>1, <1>3, <1>s, RecursionExists
<1>6. ChainTable(st, c, n, g)
  <2>1. ASSUME NEW j \in 1 .. N PROVE g[j] = Push(g[j - 1], c[j], n)
    <3>1. j - 1 \in 0 .. N
      BY <1>1
    <3>2. g[j - 1] \in V
      BY <3>1
    <3>3. g[j] = turn[<<j, g[j - 1]>>]
      BY <1>5 DEF Recursion
    <3> QED
      BY <1>4, <3>2, <3>3, Zenon
  <2>2. g[0] = st /\ \A j \in 0 .. N : j = 0 \/ j \in 1 .. N
    BY <1>1, <1>5 DEF Recursion
  <2> QED
    BY <1>5, <2>1, <2>2 DEF ChainTable, N
<1> DEFINE f == CHOOSE f : ChainTable(st, c, n, f)
<1>7. ChainTable(st, c, n, f)
  BY <1>6
<1>8. MoveChain(st, c, n) = f[N]
  BY MoveChainIs DEF N
<1> HIDE DEF f
<1>9. \A j \in 0 .. N : f[j] = IF j = 0 THEN st ELSE Push(f[j - 1], c[j], n)
  BY <1>7, Zenon DEF ChainTable, N
<1>10. f[0] = st /\ \A j \in 1 .. N : f[j] = Push(f[j - 1], c[j], n)
  BY <1>1, <1>9
<1> QED
  BY <1>8, <1>10 DEF N

\* What is pushed stays a table, whatever the chain.
LEMMA MoveChainType ==
    ASSUME NEW n, NEW st \in [Slots(n) -> Seq(Entry)], NEW c \in Seq(Entry)
    PROVE  MoveChain(st, c, n) \in [Slots(n) -> Seq(Entry)]
<1> DEFINE V == [Slots(n) -> Seq(Entry)]
           N == Len(c)
<1>1. N \in Nat /\ DOMAIN c = 1 .. N /\ \A j \in 1 .. N : c[j] \in Entry
  BY LenProperties, ElementOfSeq
<1>2. PICK f : /\ MoveChain(st, c, n) = f[N] /\ f[0] = st
               /\ \A j \in 1 .. N : f[j] = Push(f[j - 1], c[j], n)
  BY ChainLoop
<1> DEFINE G == {j \in 0 .. N : f[j] \in V}
<1>3. 0 \in G
  BY <1>1, <1>2
<1>4. ASSUME NEW j \in 1 .. N, j - 1 \in G PROVE j \in G
  <2>1. f[j - 1] \in V /\ c[j] \in Entry /\ f[j] = Push(f[j - 1], c[j], n) /\ j \in 0 .. N
    BY <1>1, <1>2, <1>4
  <2>2. f[j] \in V
    BY <2>1, PushType
  <2> QED
    BY <2>1, <2>2
<1> HIDE DEF G, N, V
<1>5. 0 .. N \subseteq G
  BY <1>1, <1>3, <1>4, IntervalInduction
<1>6. f[N] \in V
  BY <1>1, <1>5 DEF G
<1> QED
  BY <1>2, <1>6 DEF V

\* A chain whose keys differ, and are not in the table, is moved to it node for node.
LEMMA MoveChainSound ==
    ASSUME NEW n \in Nat \ {0}, NEW st \in Sound(n), NEW c \in Seq(Entry), KeysDiffer(c),
           \A j \in DOMAIN c : \A d \in Nodes(st) : d.key # c[j].key
    PROVE  /\ MoveChain(st, c, n) \in Sound(n)
           /\ Nodes(MoveChain(st, c, n)) = Nodes(st) \cup {c[j] : j \in DOMAIN c}
<1> DEFINE N == Len(c)
           First(j) == {c[i] : i \in 1 .. j}
<1>1. N \in Nat /\ DOMAIN c = 1 .. N /\ \A j \in 1 .. N : c[j] \in Entry
  BY LenProperties, ElementOfSeq
<1>s. st \in [Slots(n) -> Seq(Entry)]
  BY DEF Sound
<1>2. PICK f : /\ MoveChain(st, c, n) = f[N] /\ f[0] = st
               /\ \A j \in 1 .. N : f[j] = Push(f[j - 1], c[j], n)
  BY <1>s, ChainLoop
<1> DEFINE G == {j \in 0 .. N : f[j] \in Sound(n) /\ Nodes(f[j]) = Nodes(st) \cup First(j)}
<1>3. 0 \in G
  <2>1. First(0) = {}
    OBVIOUS
  <2> QED
    BY <1>1, <1>2, <2>1
<1>4. ASSUME NEW j \in 1 .. N, j - 1 \in G PROVE j \in G
  <2>1. /\ f[j - 1] \in Sound(n) /\ Nodes(f[j - 1]) = Nodes(st) \cup First(j - 1)
        /\ c[j] \in Entry /\ f[j] = Push(f[j - 1], c[j], n) /\ j \in 0 .. N /\ j \in DOMAIN c
    BY <1>1, <1>2, <1>4
  <2>2. ASSUME NEW d \in Nodes(f[j - 1]) PROVE d.key # c[j].key
    <3>1. CASE d \in Nodes(st)
      BY <2>1, <3>1
    <3>2. CASE d \in First(j - 1)
      <4>1. PICK i \in 1 .. j - 1 : d = c[i]
        BY <3>2
      <4>2. i \in DOMAIN c /\ i # j
        BY <1>1
      <4> QED
        BY <2>1, <4>1, <4>2 DEF KeysDiffer
    <3> QED
      BY <2>1, <3>1, <3>2
  <2>3. f[j] \in Sound(n) /\ Nodes(f[j]) = Nodes(f[j - 1]) \cup {c[j]}
    <3> DEFINE g == f[j - 1]
               e == c[j]
    <3>1. g \in Sound(n) /\ e \in Entry /\ f[j] = Push(g, e, n)
          /\ \A d \in Nodes(g) : d.key # e.key
      BY <2>1, <2>2
    <3> HIDE DEF g, e
    <3>2. f[j] \in Sound(n) /\ Nodes(f[j]) = Nodes(g) \cup {e}
      BY <3>1, PushSound
    <3> QED
      BY <3>2 DEF g, e
  <2>4. 1 .. j = (1 .. j - 1) \cup {j}
    BY <1>1
  <2>5. First(j) = First(j - 1) \cup {c[j]}
    BY <2>4
  <2> HIDE DEF First
  <2> QED
    BY <2>1, <2>3, <2>5
<1> HIDE DEF G, N
<1>5. 0 .. N \subseteq G
  BY <1>1, <1>3, <1>4, IntervalInduction
<1>6. f[N] \in Sound(n) /\ Nodes(f[N]) = Nodes(st) \cup First(N)
  BY <1>1, <1>5 DEF G
<1> QED
  BY <1>1, <1>2, <1>6

\* The outer loop of htable_resize, slot by slot.
StoreTable(old, m, n, f) ==
    f = [i \in 0 .. m |-> IF i = 0 THEN EmptyStore(n)
                          ELSE MoveChain(f[i - 1], old[i - 1], n)]

\* htable_resize in terms of it.
LEMMA ResizeIs ==
    ASSUME NEW old, NEW m, NEW n
    PROVE  htable_resize(old, m, n) = (CHOOSE f : StoreTable(old, m, n, f))[m]
BY DEF htable_resize, StoreTable

\* The outer loop is well defined.
LEMMA StoreLoop ==
    ASSUME NEW m \in Nat, NEW n, NEW old \in [Slots(m) -> Seq(Entry)]
    PROVE  \E f : /\ htable_resize(old, m, n) = f[m] /\ f[0] = EmptyStore(n)
                  /\ \A i \in 1 .. m : f[i] = MoveChain(f[i - 1], old[i - 1], n)
<1> DEFINE V == [Slots(n) -> Seq(Entry)]
           turn == [x \in (1 .. m) \X V |-> MoveChain(x[2], old[x[1] - 1], n)]
<1>1. \A i \in 1 .. m : old[i - 1] \in Seq(Entry)
  BY DEF Slots
<1>2. \A i \in 1 .. m : \A v \in V : MoveChain(v, old[i - 1], n) \in V
  BY <1>1, MoveChainType
<1>3. turn \in [(1 .. m) \X V -> V]
  BY <1>2
<1>4. \A i \in 1 .. m : \A v \in V : turn[<<i, v>>] = MoveChain(v, old[i - 1], n)
  OBVIOUS
<1>s. EmptyStore(n) \in V
  BY EmptySound
<1> HIDE DEF turn, V
<1>5. PICK g \in [0 .. m -> V] : Recursion(g, m, EmptyStore(n), turn)
  BY <1>3, <1>s, RecursionExists
<1>6. StoreTable(old, m, n, g)
  <2>1. ASSUME NEW i \in 1 .. m PROVE g[i] = MoveChain(g[i - 1], old[i - 1], n)
    <3>1. i - 1 \in 0 .. m
      OBVIOUS
    <3>2. g[i - 1] \in V
      BY <3>1
    <3>3. g[i] = turn[<<i, g[i - 1]>>]
      BY <1>5 DEF Recursion
    <3> QED
      BY <1>4, <3>2, <3>3, Zenon
  <2>2. g[0] = EmptyStore(n) /\ \A i \in 0 .. m : i = 0 \/ i \in 1 .. m
    BY <1>5 DEF Recursion
  <2> QED
    BY <1>5, <2>1, <2>2 DEF StoreTable
<1> DEFINE f == CHOOSE f : StoreTable(old, m, n, f)
<1>7. StoreTable(old, m, n, f)
  BY <1>6
<1>8. htable_resize(old, m, n) = f[m]
  BY ResizeIs
<1> HIDE DEF f
<1>9. \A i \in 0 .. m : f[i] = IF i = 0 THEN EmptyStore(n)
                               ELSE MoveChain(f[i - 1], old[i - 1], n)
  BY <1>7, Zenon DEF StoreTable
<1>10. f[0] = EmptyStore(n) /\ \A i \in 1 .. m : f[i] = MoveChain(f[i - 1], old[i - 1], n)
  BY <1>9
<1> QED
  BY <1>8, <1>10

\* A resize puts every node, and no other, where its key is looked for in the new
\* table: chains of different slots have different keys, so nothing meets its like.
LEMMA ResizeSound ==
    ASSUME NEW m \in Nat, NEW n \in Nat \ {0}, NEW old \in Sound(m)
    PROVE  /\ htable_resize(old, m, n) \in Sound(n)
           /\ Nodes(htable_resize(old, m, n)) = Nodes(old)
<1> DEFINE Upto(i) == {e \in Entry : \E s \in Slots(i) : \E j \in DOMAIN old[s] : old[s][j] = e}
<1>1. /\ old \in [Slots(m) -> Seq(Entry)] /\ DOMAIN old = Slots(m)
      /\ \A s \in Slots(m) : /\ \A j \in DOMAIN old[s] : SlotOf(old[s][j].key, m) = s
                             /\ KeysDiffer(old[s])
  BY DEF Sound
<1>2. PICK f : /\ htable_resize(old, m, n) = f[m] /\ f[0] = EmptyStore(n)
               /\ \A i \in 1 .. m : f[i] = MoveChain(f[i - 1], old[i - 1], n)
  BY <1>1, StoreLoop
<1> DEFINE G == {i \in 0 .. m : f[i] \in Sound(n) /\ Nodes(f[i]) = Upto(i)}
<1>3. 0 \in G
  <2>1. Upto(0) = {}
    BY DEF Slots
  <2> QED
    BY <1>2, <2>1, EmptySound
<1>4. ASSUME NEW i \in 1 .. m, i - 1 \in G PROVE i \in G
  <2> DEFINE g == f[i - 1]
             c == old[i - 1]
             E == {c[j] : j \in DOMAIN c}
  <2>1. /\ g \in Sound(n) /\ Nodes(g) = Upto(i - 1) /\ f[i] = MoveChain(g, c, n)
        /\ i \in 0 .. m /\ i - 1 \in Slots(m) /\ i - 1 \in Nat
    BY <1>2, <1>4 DEF Slots
  <2>2. c \in Seq(Entry) /\ KeysDiffer(c) /\ \A j \in DOMAIN c : c[j] \in Entry
    BY <1>1, <2>1, ChainIs
  <2>3. ASSUME NEW j \in DOMAIN c, NEW d \in Nodes(g) PROVE d.key # c[j].key
    <3>1. PICK s \in Slots(i - 1) : \E l \in DOMAIN old[s] : old[s][l] = d
      BY <2>1
    <3>2. s \in Slots(m) /\ s # i - 1
      BY <2>1 DEF Slots
    <3>3. SlotOf(d.key, m) = s /\ SlotOf(c[j].key, m) = i - 1
      BY <1>1, <2>1, <3>1, <3>2
    <3> QED
      BY <3>2, <3>3
  <2>4. Slots(i) = Slots(i - 1) \cup {i - 1}
    BY <2>1 DEF Slots
  <2>5. Upto(i) = Upto(i - 1) \cup E
    <3>1. \A e \in Entry : e \in E <=> \E j \in DOMAIN old[i - 1] : old[i - 1][j] = e
      OBVIOUS
    <3>2. E \subseteq Entry
      BY <2>2
    <3> HIDE DEF E, c
    <3> QED
      BY <2>4, <3>1, <3>2
  <2> HIDE DEF g, c
  <2>6. f[i] \in Sound(n) /\ Nodes(f[i]) = Nodes(g) \cup E
    BY <2>1, <2>2, <2>3, MoveChainSound
  <2> HIDE DEF E, Upto
  <2>7. f[i] \in Sound(n) /\ Nodes(f[i]) = Upto(i)
    BY <2>1, <2>5, <2>6
  <2> QED
    BY <2>1, <2>7
<1> HIDE DEF G
<1>5. 0 .. m \subseteq G
  BY <1>3, <1>4, IntervalInduction
<1>6. f[m] \in Sound(n) /\ Nodes(f[m]) = Upto(m)
  BY <1>5 DEF G
<1>7. Upto(m) = Nodes(old)
  BY <1>1 DEF Nodes
<1> QED
  BY <1>2, <1>6, <1>7

-----------------------------------------------------------------------------
(* Sizes.                                                                  *)

\* get_prime returns the first number that passes is_prime.
LEMMA GetPrimeIs ==
    ASSUME PrimesFound, NEW min \in Nat \ {0}
    PROVE  get_prime(min) \in Nat /\ get_prime(min) >= min /\ is_prime(get_prime(min))
<1> DEFINE S == {n \in min .. 2 * min + 3 : is_prime(n)}
<1>1. S \subseteq Nat /\ S # {}
  BY DEF PrimesFound
<1>2. \E x \in S : \A y \in S : x <= y
  BY <1>1, LeastNat
<1>3. get_prime(min) \in S
  BY <1>2 DEF get_prime, Min
<1> QED
  BY <1>3

\* What passes is_prime, 1 apart, is prime: only odd divisors need to be tried when
\* 2 is not one.
LEMMA IsPrimeIs ==
    ASSUME NEW n \in Nat, n > 1, is_prime(n)
    PROVE  \A d \in 2 .. n - 1 : n % d # 0
<1> SUFFICES ASSUME NEW d \in 2 .. n - 1, n % d = 0 PROVE FALSE
  OBVIOUS
<1>1. CASE n <= 3
  BY <1>1
<1>2. CASE ~(n <= 3)
  <2>1. n % 2 # 0 /\ \A c \in 3 .. n - 1 : c % 2 = 1 => n % c # 0
    BY <1>2 DEF is_prime
  <2>2. d % 2 = 0
    <3>1. d # 2
      BY <2>1
    <3>2. d \in 3 .. n - 1
      BY <3>1
    <3>3. d % 2 # 1
      BY <2>1, <3>2
    <3>4. d % 2 \in {0, 1}
      OBVIOUS
    <3> QED
      BY <3>3, <3>4
  <2> DEFINE q == n \div d
             r == d \div 2
  <2>3. q \in Int /\ r \in Int
    OBVIOUS
  <2>4. n = d * q /\ d = 2 * r
    BY <2>2
  <2> HIDE DEF q, r
  <2>5. r * q \in Int
    BY <2>3
  <2>6. n = 2 * (r * q)
    BY <2>3, <2>4
  <2>7. \A x \in Int : (2 * x) % 2 = 0
    OBVIOUS
  <2> QED
    BY <2>1, <2>5, <2>6, <2>7
<1> QED
  BY <1>1, <1>2

-----------------------------------------------------------------------------
(* The table.                                                              *)

TableInv == size \in Nat /\ store \in Sound(size)

\* A search of one chain decides whether the table has a key.
LEMMA SearchDecides ==
    ASSUME TableInv, size > 0, NEW k \in Keys
    PROVE  /\ SlotOf(k, size) \in Slots(size)
           /\ Has(store[SlotOf(k, size)], k) <=> \E e \in Nodes(store) : e.key = k
<1> DEFINE s == SlotOf(k, size)
<1>1. s \in Slots(size)
  BY SlotType DEF TableInv
<1>2. /\ store \in [Slots(size) -> Seq(Entry)] /\ DOMAIN store = Slots(size)
      /\ \A r \in Slots(size) : \A j \in DOMAIN store[r] : SlotOf(store[r][j].key, size) = r
  BY DEF TableInv, Sound
<1>3. \A j \in DOMAIN store[s] : store[s][j] \in Nodes(store)
  BY <1>1, <1>2, ChainIs
<1>4. ASSUME NEW e \in Nodes(store), e.key = k PROVE Has(store[s], k)
  <2>1. PICK r \in Slots(size) : \E j \in DOMAIN store[r] : store[r][j] = e
    BY <1>2 DEF Nodes
  <2>2. r = s
    BY <1>2, <1>4, <2>1
  <2> QED
    BY <1>4, <2>1, <2>2 DEF Has
<1> HIDE DEF s
<1>5. Has(store[s], k) => \E e \in Nodes(store) : e.key = k
  BY <1>3 DEF Has
<1> QED
  BY <1>1, <1>4, <1>5 DEF s

\* What htable_insert adds, and where the nodes are then.
LEMMA InsertNew ==
    ASSUME PrimesFound, TableInv, NEW k \in Keys, NEW v \in Vals, htable_insert(k, v),
           ~Has(store[SlotOf(k, size)], k)
    PROVE  /\ TableInv' /\ result' = 0
           /\ Nodes(store') = Nodes(store) \cup {[key |-> k, val |-> v]}
           /\ size' = size \/ size' = get_prime(2 * size)
<1> DEFINE e == [key |-> k, val |-> v]
           slot == SlotOf(k, size)
           added == [store EXCEPT ![slot] = Append(@, e)]
<1>1. size \in Nat \ {0} /\ store \in Sound(size)
  BY DEF TableInv, htable_insert
<1>2. e \in Entry /\ e.key = k
  BY DEF Entry
<1>3. \A d \in Nodes(store) : d.key # e.key
  BY <1>1, <1>2, SearchDecides
<1>4. /\ result' = 0
      /\ IF allow_resize /\ Len(store[slot]) >= MAX_COLLISION
         THEN /\ size' = get_prime(2 * size)
              /\ store' = htable_resize(added, size, get_prime(2 * size))
         ELSE store' = added /\ UNCHANGED size
  BY DEF htable_insert
<1>5. added \in Sound(size) /\ Nodes(added) = Nodes(store) \cup {e}
  <2>1. slot \in Slots(size) /\ store \in [Slots(size) -> Seq(Entry)]
        /\ slot = SlotOf(e.key, size)
    BY <1>1, <1>2, SearchDecides DEF Sound
  <2>2. Append(store[slot], e) \in Seq(Entry)
    BY <1>2, <2>1
  <2> HIDE DEF e, slot
  <2>3. Replaced(added, size, store, slot, Append(store[slot], e))
    BY <2>1, <2>2 DEF Replaced
  <2> HIDE DEF added
  <2> QED
    BY <1>1, <1>2, <1>3, <2>1, <2>3, AppendSound
<1> HIDE DEF added, e
<1>6. CASE store' = added /\ size' = size
  BY <1>1, <1>4, <1>5, <1>6 DEF TableInv, e
<1>7. CASE size' = get_prime(2 * size) /\ store' = htable_resize(added, size, get_prime(2 * size))
  <2> DEFINE n == get_prime(2 * size)
  <2>1. 2 * size \in Nat \ {0}
    BY <1>1
  <2>2. n \in Nat /\ n >= 2 * size
    BY <2>1, GetPrimeIs
  <2>3. n \in Nat \ {0}
    BY <1>1, <2>2
  <2>4. size' = n /\ store' = htable_resize(added, size, n)
    BY <1>7
  <2> HIDE DEF n
  <2>5. /\ htable_resize(added, size, n) \in Sound(n)
        /\ Nodes(htable_resize(added, size, n)) = Nodes(added)
    BY <1>1, <1>5, <2>3, ResizeSound
  <2> QED
    BY <1>4, <1>5, <2>3, <2>4, <2>5 DEF TableInv, e, n
<1> QED
  BY <1>4, <1>6, <1>7

\* One lemma for all steps: what becomes of the nodes, and what a call returns.
LEMMA TableSteps ==
    ASSUME PrimesFound, TableInv, TableNext
    PROVE  /\ TableInv'
           /\ \/ Nodes(store') = {} /\ result' = None
              \/ \E k \in Keys, v \in Vals :
                    \/ /\ \E e \in Nodes(store) : e.key = k
                       /\ result' = 1 /\ UNCHANGED <<size, store>>
                    \/ /\ \A e \in Nodes(store) : e.key # k
                       /\ Nodes(store') = Nodes(store) \cup {[key |-> k, val |-> v]}
                       /\ result' = 0
              \/ \E k \in Keys : htable_lookup(k)
<1>1. ASSUME NEW sz \in InitSizes, NEW r \in BOOLEAN, htable_init(sz, r)
      PROVE  TableInv' /\ Nodes(store') = {} /\ result' = None
  <2> DEFINE n == get_prime(sz + 1)
  <2>1. sz + 1 \in Nat \ {0}
    BY HTableAssumption
  <2>2. n \in Nat
    BY <2>1, GetPrimeIs
  <2>3. size' = n /\ store' = EmptyStore(n) /\ result' = None
    BY <1>1 DEF htable_init
  <2> HIDE DEF n
  <2> QED
    BY <2>2, <2>3, EmptySound DEF TableInv
<1>2. ASSUME NEW k \in Keys, NEW v \in Vals, htable_insert(k, v)
      PROVE  /\ TableInv'
             /\ \/ /\ \E e \in Nodes(store) : e.key = k
                   /\ result' = 1 /\ UNCHANGED <<size, store>>
                \/ /\ \A e \in Nodes(store) : e.key # k
                   /\ Nodes(store') = Nodes(store) \cup {[key |-> k, val |-> v]}
                   /\ result' = 0
  <2>1. size > 0
    BY <1>2 DEF htable_insert
  <2>2. Has(store[SlotOf(k, size)], k) <=> \E e \in Nodes(store) : e.key = k
    BY <2>1, SearchDecides
  <2>3. CASE Has(store[SlotOf(k, size)], k)
    <3>1. result' = 1 /\ UNCHANGED <<size, store>>
      BY <1>2, <2>3 DEF htable_insert
    <3> QED
      BY <2>2, <2>3, <3>1 DEF TableInv
  <2>4. CASE ~Has(store[SlotOf(k, size)], k)
    <3>1. /\ TableInv' /\ result' = 0
          /\ Nodes(store') = Nodes(store) \cup {[key |-> k, val |-> v]}
      BY <1>2, <2>4, InsertNew
    <3> QED
      BY <2>2, <2>4, <3>1
  <2> QED
    BY <2>3, <2>4
<1>3. ASSUME NEW k \in Keys, htable_lookup(k)
      PROVE  TableInv'
  BY <1>3 DEF htable_lookup, TableInv
<1>4. ASSUME htable_destroy
      PROVE  TableInv' /\ Nodes(store') = {} /\ result' = None
  <2>1. size' = 0 /\ store' = EmptyStore(0) /\ result' = None
    BY <1>4 DEF htable_destroy
  <2> QED
    BY <2>1, EmptySound DEF TableInv
<1> QED
  BY <1>1, <1>2, <1>3, <1>4 DEF TableNext

\* The table starts without slots.
LEMMA TableStarts == TableInit => TableInv /\ Nodes(store) = {}
BY EmptySound DEF TableInit, TableInv

\* The inductive invariant of htable.c: through collisions and resizes, every chain
\* holds different keys, and each in the slot that its hash code selects.
THEOREM TableInvariant ==
    ASSUME PrimesFound
    PROVE  TableSpec => []TableInv
<1>1. TableInv /\ [TableNext]_tableVars => TableInv'
  <2> SUFFICES ASSUME TableInv, [TableNext]_tableVars PROVE TableInv'
    OBVIOUS
  <2>1. CASE TableNext
    BY <2>1, TableSteps
  <2>2. CASE UNCHANGED tableVars
    BY <2>2 DEF tableVars, TableInv
  <2> QED
    BY <2>1, <2>2
<1> QED
  BY <1>1, TableStarts, PTL DEF TableSpec

\* A search of one chain finds what there is to find: for every set of keys, every
\* initial size and every MAX_COLLISION, no insert and no htable_resize leaves a
\* node in a slot where htable_lookup would not look, or a key twice.
THEOREM TableWellPlaced ==
    ASSUME PrimesFound
    PROVE  TableSpec => []WellPlaced
<1>1. TableInv => WellPlaced
  BY DEF TableInv, WellPlaced, Sound, KeysDiffer
<1> QED
  BY <1>1, TableInvariant, PTL

\* The number of slots that htable_init and htable_resize choose is a prime, though
\* is_prime also accepts 1 and tries odd divisors only, when htable_init is asked
\* for one slot or more.
THEOREM TableSizeIsPrime ==
    ASSUME PrimesFound, 0 \notin InitSizes
    PROVE  TableSpec => []SizeIsPrime
<1> DEFINE PrimeInv == TableInv /\ (size = 0 \/ (size > 1 /\ is_prime(size)))
<1>1. TableInit => PrimeInv
  BY TableStarts DEF TableInit
<1>2. PrimeInv /\ [TableNext]_tableVars => PrimeInv'
  <2> SUFFICES ASSUME PrimeInv, [TableNext]_tableVars PROVE PrimeInv'
    OBVIOUS
  <2>1. TableInv'
    BY TableSteps DEF tableVars, TableInv
  <2>2. ASSUME NEW min \in Nat, min > 1, size' = get_prime(min)
        PROVE  size' > 1 /\ is_prime(size')
    <3> DEFINE n == get_prime(min)
    <3>1. n \in Nat /\ n >= min /\ is_prime(n)
      BY <2>2, GetPrimeIs
    <3> HIDE DEF n
    <3>2. n > 1 /\ is_prime(n)
      BY <2>2, <3>1
    <3> QED
      BY <2>2, <3>2 DEF n
  <2>3. ASSUME NEW sz \in InitSizes, NEW r \in BOOLEAN, htable_init(sz, r)
        PROVE  size' > 1 /\ is_prime(size')
    <3>1. sz + 1 \in Nat /\ sz + 1 > 1 /\ size' = get_prime(sz + 1)
      BY <2>3, HTableAssumption DEF htable_init
    <3> QED
      BY <2>2, <3>1
  <2>4. ASSUME NEW k \in Keys, NEW v \in Vals, htable_insert(k, v)
        PROVE  size' > 1 /\ is_prime(size')
    <3>1. size \in Nat /\ size > 1 /\ is_prime(size)
      BY <2>4 DEF htable_insert, TableInv
    <3>2. size' = size \/ size' = get_prime(2 * size)
      BY <2>4 DEF htable_insert
    <3>3. 2 * size \in Nat /\ 2 * size > 1
      BY <3>1
    <3> QED
      BY <2>2, <3>1, <3>2, <3>3
  <2>5. ASSUME NEW k \in Keys, htable_lookup(k) PROVE PrimeInv'
    BY <2>1, <2>5 DEF htable_lookup
  <2>6. ASSUME htable_destroy PROVE PrimeInv'
    BY <2>1, <2>6 DEF htable_destroy
  <2>7. CASE UNCHANGED tableVars
    BY <2>1, <2>7 DEF tableVars
  <2> QED
    BY <2>1, <2>3, <2>4, <2>5, <2>6, <2>7 DEF TableNext
<1>3. PrimeInv => SizeIsPrime
  <2> SUFFICES ASSUME PrimeInv, size > 0 PROVE size > 1 /\ \A d \in 2 .. size - 1 : size % d # 0
    BY DEF SizeIsPrime
  <2>1. size \in Nat /\ size > 1 /\ is_prime(size)
    BY DEF TableInv
  <2> QED
    BY <2>1, IsPrimeIs
<1> QED
  BY <1>1, <1>2, <1>3, PTL DEF TableSpec

-----------------------------------------------------------------------------
(* The table is a map.                                                     *)

Map == [k \in Present |-> ValueOf(k)]

\* The map holds the keys of the nodes, each with its node's value.
MapOfNodes ==
    /\ DOMAIN Map = {e.key : e \in Nodes(store)}
    /\ \A e \in Nodes(store) : Map[e.key] = e.val

\* Where the node of a key is found.
LEMMA NodeOfKey ==
    ASSUME TableInv, NEW e \in Nodes(store), NEW s \in Slots(size), NEW j \in DOMAIN store[s],
           store[s][j].key = e.key
    PROVE  store[s][j] = e
<1>1. /\ store \in [Slots(size) -> Seq(Entry)] /\ DOMAIN store = Slots(size)
      /\ \A r \in Slots(size) : /\ \A i \in DOMAIN store[r] : SlotOf(store[r][i].key, size) = r
                                /\ KeysDiffer(store[r])
  BY DEF TableInv, Sound
<1>2. PICK r \in Slots(size) : \E i \in DOMAIN store[r] : store[r][i] = e
  BY <1>1 DEF Nodes
<1>3. PICK i \in DOMAIN store[r] : store[r][i] = e
  BY <1>2
<1>4. r = s
  BY <1>1, <1>3
<1>5. i = j
  BY <1>1, <1>3, <1>4 DEF KeysDiffer
<1> QED
  BY <1>3, <1>4, <1>5

\* So it is in every state of the table,
LEMMA MapIs == TableInv => MapOfNodes
<1> SUFFICES ASSUME TableInv PROVE MapOfNodes
  OBVIOUS
<1>1. store \in [Slots(size) -> Seq(Entry)] /\ DOMAIN store = Slots(size)
  BY DEF TableInv, Sound
<1>2. ASSUME NEW e \in Nodes(store)
      PROVE  e \in Entry /\ \E s \in Slots(size) : Has(store[s], e.key)
  BY <1>1 DEF Nodes, Has
<1>3. ASSUME NEW s \in Slots(size), NEW k \in Keys, Has(store[s], k)
      PROVE  \E e \in Nodes(store) : e.key = k
  <2>1. \A j \in DOMAIN store[s] : store[s][j] \in Nodes(store)
    BY <1>1, ChainIs
  <2> QED
    BY <1>3, <2>1 DEF Has
<1>4. Present = {e.key : e \in Nodes(store)}
  BY <1>2, <1>3 DEF Present, Entry
<1>5. ASSUME NEW e \in Nodes(store) PROVE ValueOf(e.key) = e.val
  <2> DEFINE s == CHOOSE s \in Slots(size) : Has(store[s], e.key)
             j == CHOOSE j \in DOMAIN store[s] : store[s][j].key = e.key
  <2>1. s \in Slots(size) /\ Has(store[s], e.key)
    BY <1>2
  <2> HIDE DEF s
  <2>2. j \in DOMAIN store[s] /\ store[s][j].key = e.key
    BY <2>1 DEF Has
  <2> HIDE DEF j
  <2>3. store[s][j] = e
    BY <2>1, <2>2, NodeOfKey
  <2>4. ValueOf(e.key) = store[s][j].val
    BY DEF ValueOf, s, j
  <2> QED
    BY <2>3, <2>4
<1> QED
  BY <1>4, <1>5 DEF MapOfNodes, Map

\* and in the next one.
LEMMA NextMapIs == TableInv' => MapOfNodes'
BY MapIs, PTL

\* htable_lookup returns what the map holds.
LEMMA LookupIs ==
    ASSUME TableInv, NEW k \in Keys, htable_lookup(k)
    PROVE  result' = IF k \in DOMAIN Map THEN Map[k] ELSE None
<1> DEFINE s == SlotOf(k, size)
           chain == store[s]
           I == {i \in 1 .. Len(chain) : chain[i].key = k}
<1>1. MapOfNodes
  BY MapIs
<1>2. size > 0 /\ store \in [Slots(size) -> Seq(Entry)]
  BY DEF htable_lookup, TableInv, Sound
<1>3. s \in Slots(size) /\ (Has(chain, k) <=> \E e \in Nodes(store) : e.key = k)
  BY <1>2, SearchDecides
<1>4. /\ DOMAIN chain = 1 .. Len(chain) /\ Len(chain) \in Nat
      /\ \A j \in DOMAIN chain : chain[j] \in Nodes(store)
  BY <1>2, <1>3, ChainIs
<1>5. Has(chain, k) <=> k \in DOMAIN Map
  BY <1>1, <1>3 DEF MapOfNodes
<1>6. result' = IF Has(chain, k) THEN chain[SelectInSeq(chain, LAMBDA n : n.key = k)].val
                ELSE None
  BY DEF htable_lookup
<1>7. CASE Has(chain, k)
  <2>1. I # {} /\ I \subseteq Nat
    BY <1>4, <1>7 DEF Has
  <2>2. SelectInSeq(chain, LAMBDA n : n.key = k) = Min(I)
    BY <2>1 DEF SelectInSeq
  <2>3. \E x \in I : \A y \in I : x <= y
    BY <2>1, LeastNat
  <2>4. Min(I) \in I
    BY <2>3 DEF Min
  <2>5. chain[Min(I)].key = k /\ chain[Min(I)] \in Nodes(store)
    BY <1>4, <2>4
  <2>6. Map[k] = chain[Min(I)].val
    BY <1>1, <2>5 DEF MapOfNodes
  <2> QED
    BY <1>5, <1>6, <1>7, <2>2, <2>6
<1>8. CASE ~Has(chain, k)
  BY <1>5, <1>6, <1>8
<1> QED
  BY <1>7, <1>8

\* htable.c implements the map KVMap: for every set of keys, every initial size and
\* every MAX_COLLISION, each call returns what the map would, an insert adds its own
\* entry only, and no resize loses, revives or changes one.
THEOREM TableRefinesKVMap ==
    ASSUME PrimesFound
    PROVE  TableSpec => RefinesKVMap
<1>1. TableInit => Contents!Init
  <2> SUFFICES ASSUME TableInit PROVE Contents!Init
    OBVIOUS
  <2>1. MapOfNodes /\ Nodes(store) = {}
    BY TableStarts, MapIs
  <2>2. DOMAIN Map = {}
    BY <2>1 DEF MapOfNodes
  <2>3. Map = [k \in {} |-> None]
    BY <2>2 DEF Map
  <2> QED
    BY <2>3 DEF Contents!Init, TableInit, Map
<1>2. TableInv /\ [TableNext]_tableVars => [Contents!Next]_<<Map, result>>
  <2> SUFFICES ASSUME TableInv, [TableNext]_tableVars
               PROVE  Contents!Next \/ UNCHANGED <<Map, result>>
    OBVIOUS
  <2>1. MapOfNodes
    BY MapIs
  <2>2. CASE UNCHANGED tableVars
    BY <2>2 DEF tableVars, Map, Present, ValueOf
  <2>3. CASE TableNext
    <3>1. MapOfNodes'
      BY <2>3, TableSteps, NextMapIs
    <3>2. CASE Nodes(store') = {} /\ result' = None
      <4>1. DOMAIN Map' = {}
        BY <3>1, <3>2 DEF MapOfNodes
      <4>2. Map' = [k \in {} |-> None]
        BY <4>1 DEF Map
      <4> QED
        BY <3>2, <4>2 DEF Contents!Next, Contents!clear, Map
    <3>3. ASSUME NEW k \in Keys, NEW v \in Vals, \E e \in Nodes(store) : e.key = k,
                 result' = 1, UNCHANGED <<size, store>>
          PROVE  Contents!Next
      <4>1. k \in DOMAIN Map
        BY <2>1, <3>3 DEF MapOfNodes
      <4>2. Map' = Map
        BY <3>3 DEF Map, Present, ValueOf
      <4>3. Contents!insert(k, v)
        BY <3>3, <4>1, <4>2 DEF Contents!insert, Map
      <4> QED
        BY <4>3 DEF Contents!Next
    <3>4. ASSUME NEW k \in Keys, NEW v \in Vals, \A e \in Nodes(store) : e.key # k,
                 Nodes(store') = Nodes(store) \cup {[key |-> k, val |-> v]}, result' = 0
          PROVE  Contents!Next
      <4> DEFINE n == [key |-> k, val |-> v]
      <4>1. k \notin DOMAIN Map
        BY <2>1, <3>4 DEF MapOfNodes
      <4>2. n.key = k /\ n.val = v
        OBVIOUS
      <4>3. Nodes(store') = Nodes(store) \cup {n}
        BY <3>4
      <4> HIDE DEF n
      <4>4. DOMAIN Map' = DOMAIN Map \cup {k}
        BY <2>1, <3>1, <4>2, <4>3 DEF MapOfNodes
      <4>5. Map'[k] = v
        BY <3>1, <4>2, <4>3 DEF MapOfNodes
      <4>6. ASSUME NEW x \in DOMAIN Map PROVE Map'[x] = Map[x]
        <5>1. PICK e \in Nodes(store) : e.key = x
          BY <2>1 DEF MapOfNodes
        <5> QED
          BY <2>1, <3>1, <4>3, <5>1 DEF MapOfNodes
      <4>7. Map' = [x \in DOMAIN Map \cup {k} |-> IF x = k THEN v ELSE Map[x]]
        <5>1. Map' = [x \in DOMAIN Map' |-> Map'[x]]
          BY DEF Map
        <5> HIDE DEF Map
        <5> QED
          BY <4>1, <4>4, <4>5, <4>6, <5>1
      <4>8. Contents!insert(k, v)
        BY <3>4, <4>1, <4>7 DEF Contents!insert, Map
      <4> QED
        BY <4>8 DEF Contents!Next
    <3>5. ASSUME NEW k \in Keys, htable_lookup(k)
          PROVE  Contents!Next
      <4>1. result' = IF k \in DOMAIN Map THEN Map[k] ELSE None
        BY <3>5, LookupIs
      <4>2. Map' = Map
        BY <3>5 DEF htable_lookup, Map, Present, ValueOf
      <4>3. Contents!lookup(k)
        BY <4>1, <4>2 DEF Contents!lookup, Map
      <4> QED
        BY <4>3 DEF Contents!Next
    <3> QED
      BY <2>3, <3>2, <3>3, <3>4, <3>5, TableSteps
  <2> QED
    BY <2>2, <2>3
<1> QED
  BY <1>1, <1>2, TableInvariant, PTL DEF TableSpec, RefinesKVMap, Contents!Spec, Map

-----------------------------------------------------------------------------
(* The inductive invariant.                                                *)

Places == {"unborn", "start", "queued", "locked", "condwait", "woken",
           "unlock", "done"}

\* The master's places before the lingering reader is told to leave.
Setup == {"await_reader", "await_writer", "spawn", "await_all", "release"}

\* The master's places from the end of the basic test.
Priority == Setup \cup {"await_who", "let_out", "join", "PASSED"}

PlacesOK == pc \in [AllThreads -> Places]

\* What test_rwl_basic's lock holds before its call number n.
BasicHolds ==
    << [r |-> 0, w |-> 0], [r |-> 1, w |-> 0], [r |-> 1, w |-> 0],
       [r |-> 2, w |-> 0], [r |-> 1, w |-> 0], [r |-> 0, w |-> 0],
       [r |-> 0, w |-> 1], [r |-> 0, w |-> 1], [r |-> 0, w |-> 1],
       [r |-> 0, w |-> 0] >>

\* While the basic test runs no thread exists and no flag is set; its second
\* call stops the stub and the lock that admits a writer next to a reader.
BasicInv ==
    master = "basic" =>
        /\ step \in 1 .. 10
        /\ l1 = BasicHolds[step]
        /\ step > 2 => lock \in {"contract", "barging", "unfair"}
        /\ pc = [t \in AllThreads |-> "unborn"]
        /\ reader_in_cs = 0 /\ who_is_in_cs = 0
        /\ reader_getout = 0 /\ peers_getout = 0

\* Which locks are still in the running.
LockInv ==
    /\ lock \in {"contract", "barging", "unfair", "stub", "shared"}
    /\ master \in Priority => lock \in {"contract", "barging", "unfair"}
    /\ master \in Priority \ (Setup \ {"release"}) => lock # "barging"
    /\ master = "FATAL" => lock # "contract"

\* The flags that let threads out are set by the master alone.
OutInv ==
    /\ master \in Setup => reader_getout = 0
    /\ master \in Setup \cup {"await_who"} => peers_getout = 0

\* The lingering reader is inside from its announcement to its release.
LingerInv ==
    /\ master = "await_reader" =>
           /\ pc[Linger] \in {"start", "locked", "condwait", "woken"}
           /\ reader_in_cs = 1 => pc[Linger] \in {"condwait", "woken"}
    /\ master \in Setup \ {"await_reader"} => pc[Linger] \in {"condwait", "woken"}

\* The writer cannot pass the lingering reader.
WriterInv ==
    /\ master = "await_reader" => pc[Writer] = "unborn"
    /\ master = "await_writer" => pc[Writer] \in {"start", "queued"}
    /\ master \in {"spawn", "await_all", "release"} => pc[Writer] = "queued"

\* A reader passes the waiting writer in the barging lock only.
ReadersInv ==
    \A t \in Readers :
        /\ master \in {"await_reader", "await_writer"} => pc[t] = "unborn"
        /\ master \in {"spawn", "await_all"} =>
               pc[t] \in IF lock = "barging"
                         THEN {"unborn", "start", "locked", "condwait", "woken"}
                         ELSE {"unborn", "start", "queued"}
        /\ master = "release" => pc[t] = "queued"

\* Nobody has announced itself before the contest is decided, and in a lock
\* that keeps the contract the writer is the one that does.
WhoInv ==
    /\ master \in Setup /\ lock # "barging" => who_is_in_cs = 0
    /\ master = "await_who" /\ lock = "contract" =>
           /\ who_is_in_cs \in {0, 1}
           /\ pc[Writer] \in {"queued", "locked", "condwait", "woken"}
           /\ \A t \in Readers : pc[t] = "queued"

RwInv ==
    /\ PlacesOK /\ BasicInv /\ LockInv /\ OutInv
    /\ LingerInv /\ WriterInv /\ ReadersInv /\ WhoInv

-----------------------------------------------------------------------------
(* What the counts of the lock can be.                                     *)

\* The threads of the test are finitely many, and the three kinds of thread that
\* test_rwl_priority creates are different threads.
LEMMA ThreadsFinite ==
    /\ IsFiniteSet(Peers) /\ IsFiniteSet(AllThreads)
    /\ Linger \in AllThreads /\ Writer \in AllThreads /\ Linger # Writer
    /\ Linger \notin Peers /\ Writer \notin Readers
    /\ Readers \subseteq AllThreads
    /\ Peers \subseteq AllThreads
<1>1. IsFiniteSet(Peers)
  BY FS_AddElement, ReadersAssumption DEF Peers
<1>2. IsFiniteSet(AllThreads)
  BY <1>1, FS_AddElement DEF AllThreads
<1> QED
  BY <1>1, <1>2, ReadersAssumption DEF Peers, AllThreads, Linger, Writer

\* A count the lock keeps is zero exactly when no thread is counted: writers
\* inside, readers inside, and writers that wait.
LEMMA Counts ==
    /\ Inside2("w") = 0 <=> Writer \notin Inside
    /\ Inside2("r") = 0 <=> \A t \in AllThreads \ {Writer} : t \notin Inside
    /\ WaitingWriters = 0 <=> pc[Writer] # "queued"
<1> DEFINE In(m) == {t \in Inside : Mode(t) = m}
           Wait == {t \in Waiting : Mode(t) = "w"}
<1>1. /\ In("w") \subseteq AllThreads /\ In("r") \subseteq AllThreads
      /\ Wait \subseteq AllThreads
  BY DEF Inside, Waiting
<1>2. /\ Cardinality(In("w")) = 0 <=> In("w") = {}
      /\ Cardinality(In("r")) = 0 <=> In("r") = {}
      /\ Cardinality(Wait) = 0 <=> Wait = {}
  <2>1. IsFiniteSet(In("w")) /\ IsFiniteSet(In("r")) /\ IsFiniteSet(Wait)
    BY <1>1, ThreadsFinite, FS_Subset
  <2> QED
    BY <2>1, FS_EmptySet
<1>3. /\ In("w") = {} <=> Writer \notin Inside
      /\ In("r") = {} <=> \A t \in AllThreads \ {Writer} : t \notin Inside
      /\ Wait = {} <=> pc[Writer] # "queued"
  BY ThreadsFinite DEF Mode, Inside, Waiting
<1> QED
  BY <1>2, <1>3 DEF Inside2, WaitingWriters

\* Whoever is held up by the lock, in terms of where the threads are: a writer
\* by a reader inside, a reader by a writer inside, a reader by a writer that
\* waits unless the lock lets readers past it.
LEMMA WhoIsAdmitted ==
    ASSUME lock \in {"contract", "barging", "unfair"},
           NEW t \in AllThreads, NEW n
    PROVE  /\ Admits(Mode(t), Inside2("r"), Inside2("w"), n) => Writer \notin Inside
           /\ AdmitsQueued(Mode(t), Inside2("r"), Inside2("w"), n) => Writer \notin Inside
           /\ t = Writer /\ (\E u \in AllThreads \ {Writer} : u \in Inside) =>
                  /\ ~Admits(Mode(t), Inside2("r"), Inside2("w"), n)
                  /\ ~AdmitsQueued(Mode(t), Inside2("r"), Inside2("w"), n)
           /\ t # Writer /\ lock # "barging" /\ pc[Writer] = "queued" =>
                  ~Admits(Mode(t), Inside2("r"), Inside2("w"), WaitingWriters)
           /\ /\ t # Writer /\ pc[Writer] = "queued"
              /\ \/ lock = "contract"
                 \/ lock = "unfair" /\ \E u \in AllThreads \ {Writer} : u \in Inside
              => ~AdmitsQueued(Mode(t), Inside2("r"), Inside2("w"), WaitingWriters)
           /\ t # Writer /\ lock = "barging" /\ Writer \notin Inside =>
                  Admits(Mode(t), Inside2("r"), Inside2("w"), n)
           /\ t # Writer /\ pc[Writer] # "queued" /\ Writer \notin Inside =>
                  Admits(Mode(t), Inside2("r"), Inside2("w"), WaitingWriters)
<1>1. Mode(t) = IF t = Writer THEN "w" ELSE "r"
  BY DEF Mode
<1> QED
  BY <1>1, Counts DEF Admits, AdmitsQueued

-----------------------------------------------------------------------------
(* Every step keeps the invariant: the basic test.                         *)

\* A call of test_rwl_basic: what it makes of the lock, whatever the clock.  The
\* contract is never failed, and the call after the second one is reached only
\* by the locks that made the writer wait.
LEMMA BasicCallEffect ==
    ASSUME RwInv, NEW now, BasicStep(now)
    PROVE  /\ master' \in {"basic", "FATAL", "ABORT"}
           /\ master' = "FATAL" => lock # "contract"
           /\ master' = "basic" =>
                  /\ step' \in 2 .. 10
                  /\ l1' = BasicHolds[step']
                  /\ step' > 2 => lock \in {"contract", "barging", "unfair"}
<1>1. /\ master = "basic" /\ step \in 1 .. 9 /\ l1 = BasicHolds[step]
      /\ step > 2 => lock \in {"contract", "barging", "unfair"}
      /\ lock \in {"contract", "barging", "unfair", "stub", "shared"}
  BY SMT DEF RwInv, BasicInv, LockInv, BasicStep, BasicCalls
<1> DEFINE c == BasicCalls[step]
           t == cond_timedwait(get_expiretime(now))
           got == IF Granted(c.op) THEN 0 ELSE t
<1>2. /\ l1' = IF got = 0 THEN Lock1(c.op) ELSE l1
      /\ step' = step + 1
      /\ master' = IF got = EINVAL THEN "ABORT"
                   ELSE IF got # c.want THEN "FATAL" ELSE "basic"
  BY DEF BasicStep
<1>3. t \in {EINVAL, ETIMEDOUT}
  BY SMT DEF cond_timedwait
<1> HIDE DEF t
<1>4. step \in {1, 3, 4, 5, 6, 9} => Granted(c.op) /\ c.want = 0
  BY <1>1, SMT DEF BasicHolds, BasicCalls, Call, Granted, Admits
<1>5. step \in {2, 7, 8} => c.want = ETIMEDOUT
  BY <1>1, SMT DEF BasicCalls, Call
<1>6. step \in {2, 7, 8} /\ lock \in {"contract", "barging", "unfair"} => ~Granted(c.op)
  BY <1>1, SMT DEF BasicHolds, BasicCalls, Call, Granted, Admits
<1>7. step = 2 /\ lock \in {"stub", "shared"} => Granted(c.op)
  BY <1>1, SMT DEF BasicHolds, BasicCalls, Call, Granted, Admits
<1>8. step \in {1, 3, 4, 5, 6, 9} => Lock1(c.op) = BasicHolds[step + 1]
  <2>1. /\ Lock1("r") = [l1 EXCEPT !.r = @ + 1]
        /\ Lock1("w") = [l1 EXCEPT !.w = @ + 1]
        /\ Lock1("runlock") = [l1 EXCEPT !.r = @ - 1]
        /\ Lock1("wunlock") = [l1 EXCEPT !.w = @ - 1]
    BY Zenon DEF Lock1
  <2> QED
    BY <1>1, <2>1, SMT DEF BasicHolds, BasicCalls, Call
<1>9. step \in {2, 7, 8} => BasicHolds[step + 1] = l1
  BY <1>1, SMT DEF BasicHolds
<1>10. CASE step \in {1, 3, 4, 5, 6, 9}
  BY <1>1, <1>2, <1>4, <1>8, <1>10, SMT DEF EINVAL
<1>11. CASE step \in {2, 7, 8}
  BY <1>1, <1>2, <1>3, <1>5, <1>6, <1>7, <1>9, <1>11, SMT DEF EINVAL, ETIMEDOUT
<1> QED
  BY <1>1, <1>10, <1>11

\* So test_rwl_basic keeps the invariant: it creates no thread and sets no flag.
LEMMA BasicStepKeeps ==
    ASSUME RwInv, NEW now, BasicStep(now)
    PROVE  RwInv'
<1>1. /\ master' \in {"basic", "FATAL", "ABORT"}
      /\ master' = "FATAL" => lock # "contract"
      /\ master' = "basic" =>
             /\ step' \in 2 .. 10
             /\ l1' = BasicHolds[step']
             /\ step' > 2 => lock \in {"contract", "barging", "unfair"}
  BY BasicCallEffect
<1>2. /\ master = "basic"
      /\ UNCHANGED <<lock, pc, reader_in_cs, who_is_in_cs, reader_getout, peers_getout>>
  BY DEF BasicStep, flags
<1>3. BasicInv'
  BY <1>1, <1>2, SMT DEF RwInv, BasicInv, BasicHolds
<1>4. PlacesOK' /\ LockInv' /\ OutInv' /\ LingerInv' /\ WriterInv' /\ ReadersInv' /\ WhoInv'
  BY <1>1, <1>2 DEF RwInv, PlacesOK, LockInv, OutInv, LingerInv, WriterInv,
        ReadersInv, WhoInv, Priority, Setup
<1> QED
  BY <1>3, <1>4 DEF RwInv

-----------------------------------------------------------------------------
(* Every step keeps the invariant: the threads.                            *)

\* A step of a thread moves that thread alone, and touches the master's variables
\* and the flags that let threads out in no way.
Moves(t, label) ==
    /\ pc' = [pc EXCEPT ![t] = label]
    /\ UNCHANGED <<lock, master, step, l1, reader_getout, peers_getout>>

\* When a thread moves, the parts of the invariant that are about the master,
\* the lock and the flags that let threads out hold after the move.
LEMMA MovesKeep ==
    ASSUME RwInv, master # "basic", NEW t \in AllThreads, NEW label \in Places,
           Moves(t, label)
    PROVE  PlacesOK' /\ BasicInv' /\ LockInv' /\ OutInv'
BY DEF RwInv, Moves, PlacesOK, BasicInv, LockInv, OutInv, Priority, Setup

\* While the basic test runs there is no thread to take a step.
LEMMA ThreadsAreBorn ==
    ASSUME RwInv, NEW t \in AllThreads, pc[t] # "unborn"
    PROVE  master # "basic"
BY DEF RwInv, BasicInv

\* The call of rwl_rlock or rwl_wlock.
LEMMA AskLockKeeps ==
    ASSUME RwInv, NEW t \in AllThreads, AskLock(t)
    PROVE  RwInv'
<1> DEFINE ok == Admits(Mode(t), Inside2("r"), Inside2("w"), WaitingWriters)
           label == IF ok THEN "locked" ELSE "queued"
<1>1. master # "basic"
  BY ThreadsAreBorn DEF AskLock
<1>2. Moves(t, label) /\ UNCHANGED <<reader_in_cs, who_is_in_cs>> /\ pc[t] = "start"
  BY DEF AskLock, Goto, Moves, flags
<1>3. label \in Places
  BY DEF Places
<1>4. PlacesOK' /\ BasicInv' /\ LockInv' /\ OutInv'
  BY <1>1, <1>2, <1>3, MovesKeep
<1>5. /\ t = Writer /\ master \in Setup \ {"await_reader"} => ~ok
      /\ t = Linger /\ master = "await_reader" => ok
      /\ t \in Readers /\ master \in {"spawn", "await_all"} =>
             (ok <=> lock = "barging")
  <2>1. master \in Setup => lock \in {"contract", "barging", "unfair"}
    BY DEF RwInv, LockInv, Priority
  <2>2. master \in Setup \ {"await_reader"} => Linger \in Inside
    BY ThreadsFinite DEF RwInv, LingerInv, Inside
  <2>3. master = "await_reader" => Writer \notin Inside /\ pc[Writer] # "queued"
    BY DEF RwInv, WriterInv, Inside
  <2>4. master \in {"spawn", "await_all"} => Writer \notin Inside /\ pc[Writer] = "queued"
    BY DEF RwInv, WriterInv, Inside
  <2> HIDE DEF ok
  <2>5. t = Writer /\ master \in Setup \ {"await_reader"} => ~ok
    BY <2>1, <2>2, ThreadsFinite, WhoIsAdmitted DEF ok
  <2>6. t = Linger /\ master = "await_reader" => ok
    BY <2>1, <2>3, ThreadsFinite, WhoIsAdmitted DEF ok, Setup
  <2>7. t \in Readers /\ master \in {"spawn", "await_all"} =>
             (ok <=> lock = "barging")
    BY <2>1, <2>4, ThreadsFinite, WhoIsAdmitted DEF ok, Setup
  <2> QED
    BY <2>5, <2>6, <2>7
<1> HIDE DEF ok
<1>6. LingerInv'
  BY <1>2, <1>5, ThreadsFinite DEF RwInv, PlacesOK, Moves, LingerInv, Setup
<1>7. WriterInv'
  BY <1>2, <1>5, ThreadsFinite DEF RwInv, PlacesOK, Moves, WriterInv, Setup
<1>8. ReadersInv'
  BY <1>2, <1>5, ThreadsFinite DEF RwInv, PlacesOK, Moves, ReadersInv, Setup
<1>9. WhoInv'
  BY <1>2, <1>5, ThreadsFinite DEF RwInv, PlacesOK, Moves, WhoInv, Setup
<1> QED
  BY <1>4, <1>6, <1>7, <1>8, <1>9 DEF RwInv

\* A queued thread enters.
LEMMA GrantKeeps ==
    ASSUME RwInv, NEW t \in AllThreads, Grant(t)
    PROVE  RwInv'
<1> DEFINE n == IF t = Writer THEN 0 ELSE WaitingWriters
           ok == AdmitsQueued(Mode(t), Inside2("r"), Inside2("w"), n)
<1>1. master # "basic"
  BY ThreadsAreBorn DEF Grant
<1>2. /\ Moves(t, "locked") /\ UNCHANGED <<reader_in_cs, who_is_in_cs>>
      /\ pc[t] = "queued" /\ ok
  BY DEF Grant, Goto, Moves, flags
<1>3. "locked" \in Places
  BY DEF Places
<1>4. PlacesOK' /\ BasicInv' /\ LockInv' /\ OutInv'
  BY <1>1, <1>2, <1>3, MovesKeep
<1>5. master \notin Setup
  <2> SUFFICES ASSUME master \in Setup PROVE FALSE
    OBVIOUS
  <2>1. lock \in {"contract", "barging", "unfair"}
    BY DEF RwInv, LockInv, Priority
  <2>2. t # Linger
    BY <1>2 DEF RwInv, LingerInv, Setup
  <2>3. master # "await_reader"
    BY <1>2, <2>2 DEF RwInv, WriterInv, ReadersInv, AllThreads, Peers
  <2>4. Linger \in Inside
    BY <2>3, ThreadsFinite DEF RwInv, LingerInv, Inside
  <2>5. t # Writer
    BY <1>2, <2>1, <2>4, ThreadsFinite, WhoIsAdmitted
  <2>6. t \in Readers
    BY <2>2, <2>5 DEF AllThreads, Peers
  <2>7. master \in {"spawn", "await_all", "release"} /\ lock # "barging"
    BY <1>2, <2>3, <2>6 DEF RwInv, ReadersInv, LockInv, Setup, Priority
  <2>8. pc[Writer] = "queued"
    BY <2>7 DEF RwInv, WriterInv
  <2> HIDE DEF ok
  <2>9. ~ok
    BY <2>1, <2>4, <2>5, <2>7, <2>8, ThreadsFinite, WhoIsAdmitted DEF ok
  <2> QED
    BY <1>2, <2>9
<1>6. master = "await_who" /\ lock = "contract" => t \notin Readers
  <2> SUFFICES ASSUME master = "await_who", lock = "contract", t \in Readers
               PROVE  FALSE
    OBVIOUS
  <2>1. pc[Writer] = "queued" \/ Writer \in Inside
    BY ThreadsFinite DEF RwInv, WhoInv, Inside
  <2>2. t # Writer
    BY ThreadsFinite
  <2> HIDE DEF ok
  <2>3. ~ok
    BY <2>1, <2>2, ThreadsFinite, WhoIsAdmitted DEF ok
  <2> QED
    BY <1>2, <2>3
<1>7. LingerInv' /\ WriterInv' /\ ReadersInv'
  BY <1>2, <1>5 DEF Moves, LingerInv, WriterInv, ReadersInv, Setup
<1>8. WhoInv'
  BY <1>2, <1>5, <1>6, ThreadsFinite DEF RwInv, PlacesOK, Moves, WhoInv, Setup
<1> QED
  BY <1>4, <1>7, <1>8 DEF RwInv

\* A thread inside tells the master who it is.
LEMMA AnnounceKeeps ==
    ASSUME RwInv, NEW t \in AllThreads, Announce(t)
    PROVE  RwInv'
<1> DEFINE label == IF GetOut(t) THEN "unlock" ELSE "condwait"
<1>1. master # "basic"
  BY ThreadsAreBorn DEF Announce
<1>2. /\ Moves(t, label) /\ pc[t] = "locked"
      /\ reader_in_cs' = IF t = Linger THEN 1 ELSE reader_in_cs
      /\ who_is_in_cs' = IF t = Linger THEN who_is_in_cs
                         ELSE IF t = Writer THEN 1 ELSE 2
  BY DEF Announce, StayOrLeave, Goto, Moves
<1>3. label \in Places
  BY DEF Places
<1>4. PlacesOK' /\ BasicInv' /\ LockInv' /\ OutInv'
  BY <1>1, <1>2, <1>3, MovesKeep
<1>5. /\ master \in Setup => label = "condwait"
      /\ master = "await_who" /\ t # Linger => label = "condwait"
  BY DEF RwInv, OutInv, GetOut
<1> HIDE DEF label
<1>6. LingerInv'
  BY <1>2, <1>5, ThreadsFinite DEF RwInv, PlacesOK, Moves, LingerInv, Setup
<1>7. WriterInv'
  BY <1>2, <1>5, ThreadsFinite DEF RwInv, PlacesOK, Moves, WriterInv, Setup
<1>8. ReadersInv'
  BY <1>2, <1>5, ThreadsFinite DEF RwInv, PlacesOK, Moves, ReadersInv, Setup
<1>9. WhoInv'
  <2>1. ASSUME master \in Setup, lock # "barging"
        PROVE  t = Linger
    BY <1>2, <2>1, ThreadsFinite DEF RwInv, WriterInv, ReadersInv, Setup, AllThreads, Peers
  <2>2. ASSUME master = "await_who", lock = "contract"
        PROVE  t \notin Readers
    BY <1>2, <2>2 DEF RwInv, WhoInv
  <2>3. t \in Readers \/ t = Writer \/ t = Linger
    BY DEF AllThreads, Peers
  <2> QED
    BY <1>2, <1>5, <2>1, <2>2, <2>3, ThreadsFinite DEF RwInv, PlacesOK, Moves, WhoInv
<1> QED
  BY <1>4, <1>6, <1>7, <1>8, <1>9 DEF RwInv

\* pthread_cond_wait returns, the loop around it is taken again, or the lock is
\* released: nothing is announced, and nobody leaves before its flag is set.
LEMMA WaitAndLeaveKeep ==
    ASSUME RwInv, NEW t \in AllThreads, Spurious(t) \/ Recheck(t) \/ Unlock(t)
    PROVE  RwInv'
<1> DEFINE back == IF GetOut(t) THEN "unlock" ELSE "condwait"
<1>1. PICK label \in {"woken", "unlock", "condwait", "done"} :
          /\ Moves(t, label) /\ UNCHANGED <<reader_in_cs, who_is_in_cs>>
          /\ \/ pc[t] = "condwait" /\ label = "woken"
             \/ pc[t] = "woken" /\ label = back
             \/ pc[t] = "unlock" /\ label = "done"
  BY DEF Spurious, Recheck, Unlock, StayOrLeave, Goto, Moves, flags
<1>2. master # "basic"
  BY <1>1, ThreadsAreBorn
<1>3. PlacesOK' /\ BasicInv' /\ LockInv' /\ OutInv'
  BY <1>1, <1>2, MovesKeep DEF Places
<1>4. /\ master \in Setup => back = "condwait"
      /\ master = "await_who" /\ t # Linger => back = "condwait"
  BY DEF RwInv, OutInv, GetOut
<1> HIDE DEF back
<1>5. LingerInv'
  BY <1>1, <1>4, ThreadsFinite DEF RwInv, PlacesOK, Moves, LingerInv, Setup
<1>6. WriterInv'
  BY <1>1, <1>4, ThreadsFinite DEF RwInv, PlacesOK, Moves, WriterInv, Setup
<1>7. ReadersInv'
  BY <1>1, <1>4, ThreadsFinite DEF RwInv, PlacesOK, Moves, ReadersInv, Setup
<1>8. WhoInv'
  BY <1>1, <1>4, ThreadsFinite DEF RwInv, PlacesOK, Moves, WhoInv, Setup
<1> QED
  BY <1>3, <1>5, <1>6, <1>7, <1>8 DEF RwInv

-----------------------------------------------------------------------------
(* Every step keeps the invariant: the master.                             *)

\* A thread is created: the lingering reader, the writer, or one more reader.
LEMMA CreateKeeps ==
    ASSUME RwInv, BasicDone \/ SpawnWriter \/ SpawnReader
    PROVE  RwInv'
<1>1. CASE BasicDone
  <2>1. /\ master = "basic" /\ master' = "await_reader" /\ lock' = lock
        /\ pc' = [pc EXCEPT ![Linger] = "start"]
        /\ UNCHANGED <<reader_in_cs, who_is_in_cs, reader_getout, peers_getout>>
    BY <1>1 DEF BasicDone, Master, Create, Goto, flags
  <2>2. lock \in {"contract", "barging", "unfair"}
    <3>1. Len(BasicCalls) = 9
      BY DEF BasicCalls
    <3> QED
      BY <1>1, <2>1, <3>1 DEF RwInv, BasicInv, BasicDone
  <2>3. pc' = [t \in AllThreads |-> IF t = Linger THEN "start" ELSE "unborn"]
    BY <2>1 DEF RwInv, BasicInv
  <2>4. PlacesOK'
    BY <2>3 DEF PlacesOK, Places
  <2>5. BasicInv' /\ LockInv' /\ OutInv' /\ WhoInv'
    BY <2>1, <2>2 DEF RwInv, BasicInv, LockInv, OutInv, WhoInv, Priority, Setup
  <2>6. LingerInv' /\ WriterInv' /\ ReadersInv'
    <3>1. /\ pc'[Linger] = "start" /\ pc'[Writer] = "unborn"
          /\ \A t \in Readers : pc'[t] = "unborn"
      BY <2>3, ThreadsFinite DEF Peers
    <3>2. reader_in_cs' # 1
      BY <2>1 DEF RwInv, BasicInv
    <3> QED
      BY <2>1, <3>1, <3>2 DEF LingerInv, WriterInv, ReadersInv, Setup
  <2> QED
    BY <2>4, <2>5, <2>6 DEF RwInv
<1>2. CASE SpawnWriter
  <2>1. /\ master = "await_reader" /\ master' = "await_writer" /\ lock' = lock
        /\ reader_in_cs = 1
        /\ pc' = [pc EXCEPT ![Writer] = "start"]
        /\ UNCHANGED <<reader_in_cs, who_is_in_cs, reader_getout, peers_getout>>
    BY <1>2 DEF SpawnWriter, Master, Create, Goto, flags
  <2>2. PlacesOK' /\ BasicInv' /\ LockInv' /\ OutInv'
    BY <2>1 DEF RwInv, PlacesOK, Places, BasicInv, LockInv, OutInv, Priority, Setup
  <2>3. LingerInv' /\ WriterInv'
    BY <2>1, ThreadsFinite DEF RwInv, PlacesOK, LingerInv, WriterInv, Setup
  <2>4. ReadersInv'
    BY <2>1, ThreadsFinite DEF RwInv, PlacesOK, ReadersInv
  <2>5. WhoInv'
    BY <2>1 DEF RwInv, WhoInv, Setup
  <2> QED
    BY <2>2, <2>3, <2>4, <2>5 DEF RwInv
<1>3. CASE SpawnReader
  <2>1. PICK t \in Readers :
           /\ master = "spawn" /\ master' = "spawn" /\ lock' = lock
           /\ pc' = [pc EXCEPT ![t] = "start"]
           /\ UNCHANGED <<reader_in_cs, who_is_in_cs, reader_getout, peers_getout>>
    BY <1>3 DEF SpawnReader, Master, Create, Goto, flags
  <2>2. PlacesOK' /\ BasicInv' /\ LockInv' /\ OutInv'
    BY <2>1 DEF RwInv, PlacesOK, Places, BasicInv, LockInv, OutInv, Priority, Setup
  <2>3. LingerInv' /\ WriterInv'
    <3>1. pc'[Linger] = pc[Linger] /\ pc'[Writer] = pc[Writer]
      BY <2>1, ThreadsFinite DEF RwInv, PlacesOK, Peers
    <3> QED
      BY <2>1, <3>1 DEF RwInv, LingerInv, WriterInv, Setup
  <2>4. ReadersInv'
    BY <2>1, ThreadsFinite DEF RwInv, PlacesOK, ReadersInv
  <2>5. WhoInv'
    BY <2>1 DEF RwInv, WhoInv, Setup
  <2> QED
    BY <2>2, <2>3, <2>4, <2>5 DEF RwInv
<1> QED
  BY <1>1, <1>2, <1>3

\* The master finds the writer waiting, and later the writer and every reader:
\* the numbers it compares rwl_nwaiters with leave no other thread to be waiting.
LEMMA AllWaitKeeps ==
    ASSUME RwInv, WriterWaits \/ AllWait
    PROVE  RwInv'
<1>1. /\ UNCHANGED <<lock, pc, reader_in_cs, who_is_in_cs, reader_getout, peers_getout>>
      /\ master \in {"await_writer", "await_all"}
  BY DEF WriterWaits, AllWait, Master, flags
<1>2. lock \in {"contract", "barging", "unfair"}
  BY <1>1 DEF RwInv, LockInv, Priority, Setup
<1>3. rwl_nwaiters = Cardinality(Waiting)
  BY <1>2 DEF rwl_nwaiters
<1>4. Waiting \subseteq Peers
  BY <1>1, ThreadsFinite DEF RwInv, LingerInv, Waiting, AllThreads, Setup
<1>5. CASE WriterWaits
  <2>1. master = "await_writer" /\ master' = "spawn"
    BY <1>5 DEF WriterWaits, Master
  <2>2. Waiting # {}
    <3>1. Cardinality(Waiting) = 1
      BY <1>3, <1>5 DEF WriterWaits
    <3> HIDE DEF Waiting
    <3> QED
      BY <3>1, FS_EmptySet
  <2>3. pc[Writer] = "queued"
    BY <1>4, <2>1, <2>2 DEF RwInv, ReadersInv, Waiting, Peers
  <2>4. PlacesOK' /\ BasicInv' /\ LockInv' /\ OutInv'
    BY <1>1, <1>2, <2>1 DEF RwInv, PlacesOK, BasicInv, LockInv, OutInv, Priority, Setup
  <2>5. LingerInv' /\ WriterInv' /\ ReadersInv' /\ WhoInv'
    BY <1>1, <2>1, <2>3 DEF RwInv, LingerInv, WriterInv, ReadersInv, WhoInv, Setup
  <2> QED
    BY <2>4, <2>5 DEF RwInv
<1>6. CASE AllWait
  <2>1. master = "await_all" /\ master' = "release"
    BY <1>6 DEF AllWait, Master
  <2>2. Waiting = Peers
    <3>1. Cardinality(Waiting) = Cardinality(Peers)
      BY <1>3, <1>6 DEF AllWait
    <3> QED
      BY <1>4, <3>1, ThreadsFinite, FS_Subset
  <2>3. \A t \in Readers : pc[t] = "queued"
    BY <2>2 DEF Waiting, Peers
  <2>4. lock # "barging"
    BY <2>1, <2>3, ReadersAssumption DEF RwInv, ReadersInv
  <2>5. PlacesOK' /\ BasicInv' /\ LockInv' /\ OutInv'
    BY <1>1, <1>2, <2>1, <2>4 DEF RwInv, PlacesOK, BasicInv, LockInv, OutInv, Priority, Setup
  <2>6. LingerInv' /\ WriterInv' /\ ReadersInv' /\ WhoInv'
    BY <1>1, <2>1, <2>3 DEF RwInv, LingerInv, WriterInv, ReadersInv, WhoInv, Setup
  <2> QED
    BY <2>5, <2>6 DEF RwInv
<1> QED
  BY <1>5, <1>6

\* The master's two judgements: the readers have had time to pass the writer, and
\* somebody has come in after the lingering reader.
LEMMA JudgeKeeps ==
    ASSUME RwInv, CheckNobody \/ CheckWho
    PROVE  RwInv'
<1>1. UNCHANGED <<lock, pc, reader_in_cs, who_is_in_cs, reader_getout, peers_getout>>
  BY DEF CheckNobody, CheckWho, Master, flags
<1>2. \/ master = "spawn" /\ master' = IF who_is_in_cs = 0 THEN "await_all" ELSE "FATAL"
      \/ /\ master = "await_who" /\ who_is_in_cs # 0
         /\ master' = IF who_is_in_cs = 1 THEN "let_out" ELSE "FATAL"
  BY DEF CheckNobody, CheckWho, Master
<1>3. master' = "FATAL" => lock # "contract"
  BY <1>2 DEF RwInv, WhoInv, Setup
<1>4. PlacesOK' /\ BasicInv' /\ LockInv' /\ OutInv'
  BY <1>1, <1>2, <1>3 DEF RwInv, PlacesOK, BasicInv, LockInv, OutInv, Priority, Setup
<1>5. LingerInv' /\ WriterInv' /\ ReadersInv' /\ WhoInv'
  BY <1>1, <1>2 DEF RwInv, LingerInv, WriterInv, ReadersInv, WhoInv, Setup
<1> QED
  BY <1>4, <1>5 DEF RwInv

\* The master lets the lingering reader out, then the others, and waits for all.
LEMMA ReleaseKeeps ==
    ASSUME RwInv, ReleaseLinger \/ ReleasePeers \/ Join
    PROVE  RwInv'
<1>1. CASE ReleaseLinger
  <2>1. /\ master = "release" /\ master' = "await_who"
        /\ pc' = Broadcast({Linger})
        /\ UNCHANGED <<lock, reader_in_cs, who_is_in_cs, peers_getout>>
    BY <1>1 DEF ReleaseLinger, Master
  <2>2. /\ pc' \in [AllThreads -> Places]
        /\ \A t \in Peers : pc'[t] = pc[t]
    BY <2>1, ThreadsFinite DEF RwInv, PlacesOK, Places, Broadcast
  <2>3. PlacesOK' /\ BasicInv' /\ LockInv' /\ OutInv'
    BY <2>1, <2>2 DEF RwInv, PlacesOK, BasicInv, LockInv, OutInv, Priority, Setup
  <2>4. LingerInv' /\ WriterInv' /\ ReadersInv' /\ WhoInv'
    BY <2>1, <2>2 DEF RwInv, LingerInv, WriterInv, ReadersInv, WhoInv, Setup, Peers
  <2> QED
    BY <2>3, <2>4 DEF RwInv
<1>2. CASE ReleasePeers \/ Join
  <2>1. /\ master \in {"let_out", "join"} /\ master' \in {"join", "PASSED"}
        /\ pc' = pc \/ pc' = Broadcast(Peers)
        /\ UNCHANGED lock
    BY <1>2 DEF ReleasePeers, Join, Master
  <2>2. PlacesOK'
    BY <2>1 DEF RwInv, PlacesOK, Places, Broadcast
  <2>3. BasicInv' /\ LockInv' /\ OutInv' /\ LingerInv' /\ WriterInv' /\ ReadersInv' /\ WhoInv'
    BY <2>1 DEF RwInv, BasicInv, LockInv, OutInv, LingerInv, WriterInv,
       ReadersInv, WhoInv, Priority, Setup
  <2> QED
    BY <2>2, <2>3 DEF RwInv
<1> QED
  BY <1>1, <1>2

-----------------------------------------------------------------------------
(* The theorems.                                                           *)

\* The inductive invariant holds in every state of the test.
THEOREM RwInvariant == RwSpec => []RwInv
<1>1. RwInit => RwInv
  <2> SUFFICES ASSUME RwInit PROVE RwInv
    OBVIOUS
  <2>1. PlacesOK
    BY DEF RwInit, PlacesOK, Places
  <2>2. BasicInv
    BY DEF RwInit, BasicInv, BasicHolds
  <2>3. LockInv /\ OutInv /\ LingerInv /\ WriterInv /\ ReadersInv /\ WhoInv
    BY LocksAssumption DEF RwInit, LockInv, OutInv, LingerInv, WriterInv,
       ReadersInv, WhoInv, Priority, Setup
  <2> QED
    BY <2>1, <2>2, <2>3 DEF RwInv
<1>2. RwInv /\ [RwNext]_rwVars => RwInv'
  <2> SUFFICES ASSUME RwInv, [RwNext]_rwVars PROVE RwInv'
    OBVIOUS
  <2>1. CASE MasterStep
    BY <2>1, BasicStepKeeps, CreateKeeps, AllWaitKeeps, JudgeKeeps, ReleaseKeeps
       DEF MasterStep
  <2>2. CASE ~Over /\ \E t \in AllThreads : ThreadStep(t) \/ Spurious(t)
    BY <2>2, AskLockKeeps, GrantKeeps, AnnounceKeeps, WaitAndLeaveKeep
       DEF ThreadStep
  <2>3. CASE Spin \/ UNCHANGED rwVars
    BY <2>3 DEF Spin, rwVars, flags, RwInv, PlacesOK, BasicInv, LockInv, OutInv,
       LingerInv, WriterInv, ReadersInv, WhoInv
  <2> QED
    BY <2>1, <2>2, <2>3 DEF RwNext
<1> QED
  BY <1>1, <1>2, PTL DEF RwSpec

\* The verdict of testrwlock.c is right for every number of readers, every clock
\* and every interleaving: what "FATAL" exits and "test_rwl_priority passed" say
\* of the lock is so.
THEOREM RwVerdictRight == RwSpec => []VerdictRight
<1>1. RwInv => VerdictRight
  BY DEF RwInv, LockInv, VerdictRight, Priority, Setup
<1> QED
  BY <1>1, RwInvariant, PTL

\* The contest of test_rwl_priority is set up as its comments claim when the
\* lingering reader is told to leave, for every number of readers.
THEOREM RwContestIsSet == RwSpec => []ContestIsSet
<1>1. RwInv => ContestIsSet
  <2> SUFFICES ASSUME RwInv, master = "release"
               PROVE  Waiting = Peers /\ Inside = {Linger}
    BY DEF ContestIsSet
  <2>1. /\ pc[Linger] \in {"condwait", "woken"} /\ pc[Writer] = "queued"
        /\ \A t \in Readers : pc[t] = "queued"
    BY DEF RwInv, LingerInv, WriterInv, ReadersInv, Setup
  <2> QED
    BY <2>1, ThreadsFinite DEF Waiting, Inside, AllThreads, Peers
<1> QED
  BY <1>1, RwInvariant, PTL

=============================================================================
