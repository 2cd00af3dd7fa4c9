---------------------------- MODULE RkgrepProofs ----------------------------
(***************************************************************************)
(* rkgrep for every prime, every document, all patterns and whatever lies  *)
(* in memory behind the document: the filter hides no match, what          *)
(* print_matched_sentence prints and where it leaves its buffer.           *)
(***************************************************************************)
EXTENDS Rkgrep, BloomProofs

-----------------------------------------------------------------------------
(* The patterns.                                                           *)

\* The characters of the arguments, and what a pattern may be.
ArgChars == {c \in Int \ {NUL} : \E arg \in Args : \E k \in DOMAIN arg : arg[k] = c}
Words == Seq(ArgChars) \ {<<>>}

\* A round of strtok.
Scanned(arg, k, before) ==
    IF arg[k] = BAR THEN before
    ELSE IF k = 1 \/ arg[k - 1] = BAR THEN Append(before, <<arg[k]>>)
    ELSE [before EXCEPT ![Len(before)] = Append(@, arg[k])]

TokenTable(arg, f) ==
    f = [k \in 0 .. Len(arg) |-> IF k = 0 THEN <<>> ELSE Scanned(arg, k, f[k - 1])]

\* strtok in terms of its rounds.
LEMMA StrtokIsTable ==
    ASSUME NEW arg
    PROVE  strtok(arg) = (CHOOSE f : TokenTable(arg, f))[Len(arg)]
BY DEF strtok, TokenTable, Scanned

\* A round keeps a list of words that are not empty.
LEMMA ScannedType ==
    ASSUME NEW arg \in Seq(ArgChars), NEW k \in 1 .. Len(arg), NEW before \in Seq(Words)
    PROVE  Scanned(arg, k, before) \in Seq(Words)
<1> DEFINE n == Len(before)
           c == arg[k]
<1>1. c \in ArgChars /\ n \in Nat /\ DOMAIN before = 1 .. n
  BY ElementOfSeq, LenProperties
<1> HIDE DEF c
<1>2. CASE c = BAR
  BY <1>2 DEF Scanned, c
<1>3. CASE c # BAR /\ (k = 1 \/ arg[k - 1] = BAR)
  <2>1. <<c>> \in Words
    BY <1>1 DEF Words
  <2>2. Append(before, <<c>>) \in Seq(Words)
    BY <2>1, AppendProperties
  <2> QED
    BY <1>3, <2>2 DEF Scanned, c
<1>4. CASE c # BAR /\ ~(k = 1 \/ arg[k - 1] = BAR)
  <2> DEFINE r == [before EXCEPT ![n] = Append(@, c)]
  <2>1. Scanned(arg, k, before) = r
    BY <1>4 DEF Scanned, c
  <2>2. ASSUME NEW j \in 1 .. n PROVE r[j] \in Words
    <3>1. before[j] \in Words
      BY ElementOfSeq
    <3>2. before[j] \in Seq(ArgChars)
      BY <3>1 DEF Words
    <3>3. Append(before[j], c) \in Seq(ArgChars) /\ Append(before[j], c) # <<>>
      BY <1>1, <3>2, AppendProperties
    <3>4. Append(before[j], c) \in Words
      BY <3>3 DEF Words
    <3>5. r[j] = IF j = n THEN Append(before[j], c) ELSE before[j]
      BY <1>1
    <3> QED
      BY <3>1, <3>4, <3>5
  <2>3. DOMAIN r = 1 .. n /\ r = [j \in 1 .. n |-> r[j]]
    BY <1>1
  <2> HIDE DEF r
  <2>4. r \in [1 .. n -> Words]
    BY <2>2, <2>3
  <2> HIDE DEF n
  <2>5. r \in Seq(Words)
    BY <1>1, <2>4
  <2> QED
    BY <2>1, <2>5
<1> QED
  BY <1>2, <1>3, <1>4

\* strtok splits an argument into patterns that are not empty.
LEMMA StrtokType ==
    ASSUME NEW arg \in Seq(ArgChars)
    PROVE  strtok(arg) \in Seq(Words)
<1> DEFINE N == Len(arg)
           V == Seq(Words)
           step == [x \in (1 .. N) \X V |-> Scanned(arg, x[1], x[2])]
<1>1. N \in Nat
  BY LenProperties
<1>2. \A k \in 1 .. N : \A v \in V : Scanned(arg, k, v) \in V
  BY ScannedType
<1>3. step \in [(1 .. N) \X V -> V]
  BY <1>2
<1>4. \A k \in 1 .. N : \A v \in V : step[<<k, v>>] = Scanned(arg, k, v)
  OBVIOUS
<1>5. <<>> \in V
  BY EmptySeq
<1> HIDE DEF step, V, N
<1>6. PICK g \in [0 .. N -> V] : Recursion(g, N, <<>>, step)
  BY <1>1, <1>3, <1>5, RecursionExists
<1>7. g[0] = <<>>
  BY <1>6 DEF Recursion
<1>8. ASSUME NEW k \in 1 .. N PROVE g[k] = Scanned(arg, k, g[k - 1])
  <2>1. k - 1 \in 0 .. N
    BY <1>1
  <2>2. g[k - 1] \in V
    BY <2>1
  <2>3. g[k] = step[<<k, g[k - 1]>>]
    BY <1>6 DEF Recursion
  <2> QED
    BY <1>4, <2>2, <2>3, Zenon
<1>9. \A k \in 0 .. N : k = 0 \/ k \in 1 .. N
  BY <1>1
<1>10. TokenTable(arg, g)
  <2> DEFINE rhs == [k \in 0 .. N |-> IF k = 0 THEN <<>> ELSE Scanned(arg, k, g[k - 1])]
  <2>1. \A k \in 0 .. N : g[k] = rhs[k]
    BY <1>7, <1>8, <1>9, Zenon
  <2>2. g = rhs
    BY <2>1
  <2> QED
    BY <2>2 DEF TokenTable, N
<1>11. ASSUME NEW f, TokenTable(arg, f) PROVE f = g
  <2> DEFINE G == {k \in 0 .. N : f[k] = g[k]}
  <2>1. f = [k \in 0 .. N |-> IF k = 0 THEN <<>> ELSE Scanned(arg, k, f[k - 1])]
    BY <1>11 DEF TokenTable, N
  <2>2. 0 \in G
    BY <1>1, <1>7, <2>1
  <2>3. ASSUME NEW k \in 1 .. N, k - 1 \in G PROVE k \in G
    <3>1. f[k - 1] = g[k - 1] /\ k \in 0 .. N /\ k # 0
      BY <1>1, <2>3
    <3>2. f[k] = Scanned(arg, k, f[k - 1])
      BY <2>1, <3>1, Zenon
    <3>3. f[k] = g[k]
      BY <1>8, <3>1, <3>2, Zenon
    <3> QED
      BY <3>1, <3>3
  <2> HIDE DEF G
  <2>4. 0 .. N \subseteq G
    BY <1>1, <2>2, <2>3, IntervalInduction
  <2>5. \A k \in 0 .. N : f[k] = g[k]
    BY <2>4 DEF G
  <2>6. f = [k \in 0 .. N |-> f[k]]
    BY <2>1
  <2> QED
    BY <2>5, <2>6
<1>12. (CHOOSE f : TokenTable(arg, f)) = g
  BY <1>10, <1>11
<1>13. strtok(arg) = g[N]
  BY <1>12, StrtokIsTable DEF N
<1> QED
  BY <1>1, <1>13 DEF V

-----------------------------------------------------------------------------
(* The document in memory.                                                 *)

\* read_ascii_file has returned a file of ASCII characters, with whatever was in
\* memory behind it.
Loaded == file \in Files /\ Ascii(file) /\ \E tail \in Tails : mem = file \o tail

\* The bytes of the file, and the document as strlen and the matchers see it.
MemoryIs ==
    /\ file \in Seq(Int) /\ mem \in Seq(Int)
    /\ Len(file) \in Nat /\ Len(mem) \in Nat
    /\ strlen \in Len(file) .. Len(mem) - 1
    /\ Byt(strlen) = NUL
    /\ \A k \in 0 .. strlen - 1 : Byt(k) # NUL
    /\ \A k \in 0 .. Len(file) - 1 : Byt(k) = file[k + 1] /\ Byt(k) > 0
    /\ \A k \in 0 .. Len(mem) - 1 : Byt(k) = mem[k + 1]
    /\ \A k \in Nat : Byt(k) \in Int /\ (k >= Len(mem) => Byt(k) = NUL)

\* read_ascii_file leaves such a memory.
LEMMA LoadedMemory ==
    ASSUME Loaded
    PROVE  MemoryIs
<1>1. PICK tail \in Tails : mem = file \o tail
  BY DEF Loaded
<1>2. file \in Seq(Int) /\ tail \in Seq(Int) /\ \E k \in DOMAIN tail : tail[k] = NUL
  BY RkgrepAssumption DEF Loaded
<1> DEFINE F == Len(file)  T == Len(tail)  M == Len(mem)
<1>3. F \in Nat /\ T \in Nat /\ DOMAIN tail = 1 .. T /\ DOMAIN file = 1 .. F
  BY <1>2, LenProperties
<1>4. /\ mem \in Seq(Int) /\ M = F + T
      /\ \A k \in 1 .. F + T : mem[k] = IF k <= F THEN file[k] ELSE tail[k - F]
  BY <1>1, <1>2, ConcatProperties
<1>5. \A k \in 1 .. M : mem[k] \in Int
  BY <1>4, ElementOfSeq
<1>6. \A k \in 1 .. F : file[k] > 0 /\ file[k] \in Int
  BY <1>2, <1>3, ElementOfSeq DEF Loaded, Ascii
<1> HIDE DEF F, T
<1>7. \A k \in 0 .. M - 1 : Byt(k) = mem[k + 1]
  BY <1>3, <1>4 DEF Byt
<1> HIDE DEF M
<1>8. \A k \in 0 .. F - 1 : Byt(k) = file[k + 1] /\ Byt(k) > 0
  <2> TAKE k \in 0 .. F - 1
  <2>1. k \in 0 .. M - 1 /\ k + 1 \in 1 .. F + T /\ k + 1 <= F /\ k + 1 \in 1 .. F
    BY <1>3, <1>4
  <2> QED
    BY <1>4, <1>6, <1>7, <2>1
<1>9. ASSUME NEW k \in Nat PROVE Byt(k) \in Int /\ (k >= M => Byt(k) = NUL)
  <2>1. M \in Nat
    BY <1>3, <1>4
  <2>2. CASE k < M
    <3>1. k \in 0 .. M - 1 /\ k + 1 \in 1 .. M
      BY <2>1, <2>2
    <3> QED
      BY <1>5, <1>7, <2>1, <2>2, <3>1
  <2>3. CASE ~(k < M)
    BY <2>1, <2>3 DEF Byt, NUL, M
  <2> QED
    BY <2>2, <2>3
<1> DEFINE Z == {k \in 0 .. M - 1 : Byt(k) = NUL}
<1>10. Z \subseteq Nat /\ Z # {}
  <2>1. PICK k \in 1 .. T : tail[k] = NUL
    BY <1>2, <1>3
  <2>2. /\ F + k - 1 \in 0 .. M - 1 /\ (F + k - 1) + 1 = F + k /\ F + k \in 1 .. F + T
        /\ ~(F + k <= F) /\ (F + k) - F = k
    BY <1>3, <1>4
  <2>3. mem[F + k] = tail[k]
    BY <1>4, <2>2
  <2>4. Byt(F + k - 1) = NUL
    BY <1>7, <2>1, <2>2, <2>3
  <2> QED
    BY <2>2, <2>4
<1>11. PICK z \in Z : \A y \in Z : z <= y
  BY <1>10, LeastNat
<1>12. strlen = z
  <2>1. Z \subseteq Int
    BY <1>10
  <2> HIDE DEF Z
  <2>2. Min(Z) = z
    BY <1>11, <2>1, MinIs
  <2> QED
    BY <2>2 DEF strlen, Z, M
<1>13. z \in F .. M - 1
  <2>1. z \in 0 .. M - 1 /\ Byt(z) = NUL
    OBVIOUS
  <2>2. ~(z \in 0 .. F - 1)
    BY <1>8, <2>1 DEF NUL
  <2> QED
    BY <1>3, <1>4, <2>1, <2>2
<1>14. \A k \in 0 .. z - 1 : Byt(k) # NUL
  <2> TAKE k \in 0 .. z - 1
  <2>1. k \in 0 .. M - 1 /\ ~(z <= k)
    BY <1>3, <1>4, <1>13
  <2> QED
    BY <1>11, <2>1
<1>15. F \in Nat /\ M \in Nat
  BY <1>3, <1>4
<1> QED
  BY <1>2, <1>4, <1>7, <1>8, <1>9, <1>12, <1>13, <1>14, <1>15 DEF MemoryIs, F, M

\* The document as the matchers see it.
Document == SubSeq(mem, 1, strlen)

\* The document, byte by byte.
LEMMA DocumentIs ==
    ASSUME MemoryIs
    PROVE  /\ Document \in Seq(Int) /\ Len(Document) = strlen
           /\ \A k \in 1 .. strlen : Document[k] = Byt(k - 1)
<1>1. strlen \in Nat /\ strlen <= Len(mem) - 1 /\ Len(mem) \in Nat
  BY DEF MemoryIs
<1>2. mem \in Seq(Int)
  BY DEF MemoryIs
<1> DEFINE L == strlen
<1>3. L \in Nat /\ L <= Len(mem)
  BY <1>1
<1> HIDE DEF L
<1>4. \A k \in 1 .. L : mem[k] \in Int
  BY <1>1, <1>2, <1>3, ElementOfSeq
<1>5. SubSeq(mem, 1, L) = [k \in 1 .. L |-> mem[k]]
  BY <1>2, <1>3
<1>6. SubSeq(mem, 1, L) \in [1 .. L -> Int]
  BY <1>4, <1>5
<1>7. SubSeq(mem, 1, L) \in Seq(Int) /\ Len(SubSeq(mem, 1, L)) = L
  <2> DEFINE d == SubSeq(mem, 1, L)
  <2>1. d \in [1 .. L -> Int]
    BY <1>6
  <2> HIDE DEF d
  <2>2. d \in Seq(Int) /\ Len(d) = L
    BY <1>3, <2>1
  <2> QED
    BY <2>2 DEF d
<1>8. \A k \in 1 .. L : mem[k] = Byt(k - 1)
  <2> TAKE k \in 1 .. L
  <2>1. k - 1 \in 0 .. Len(mem) - 1 /\ (k - 1) + 1 = k
    BY <1>1, <1>3
  <2> QED
    BY <2>1 DEF MemoryIs
<1> QED
  BY <1>5, <1>7, <1>8 DEF L, Document

-----------------------------------------------------------------------------
(* print_matched_sentence.                                                 *)

FirstMatch(pos, p) ==
    pos \in Occurrences(p, Document) /\ \A q \in Occurrences(p, Document) : pos <= q

\* A match lies in the document, character by character.
LEMMA MatchBytes ==
    ASSUME MemoryIs, NEW p \in Words, NEW pos \in Occurrences(p, Document)
    PROVE  /\ Len(p) \in Nat \ {0} /\ pos \in Nat /\ pos + Len(p) <= strlen
           /\ \A k \in 1 .. Len(p) : Byt(pos + k - 1) = p[k] /\ p[k] \in ArgChars
<1>1. p \in Seq(ArgChars) /\ p # <<>>
  BY DEF Words
<1>2. ArgChars \subseteq Int
  BY DEF ArgChars
<1>3. p \in Seq(Int) /\ Len(p) \in Nat \ {0} /\ \A k \in 1 .. Len(p) : p[k] \in ArgChars
  <2>1. Len(p) \in Nat /\ \A k \in 1 .. Len(p) : p[k] \in ArgChars
    BY <1>1, ElementOfSeq, LenProperties
  <2>2. Len(p) # 0
    BY <1>1, EmptySeq
  <2>3. p \in Seq(Int)
    BY DEF Words, ArgChars
  <2> QED
    BY <2>1, <2>2, <2>3
<1>4. strlen \in Nat
  BY DEF MemoryIs
<1>5. Document \in Seq(Int) /\ Len(Document) = strlen
  BY DocumentIs
<1>6. pos \in 0 .. strlen - Len(p) /\ \A k \in 1 .. Len(p) : Document[pos + k] = p[k]
  BY <1>3, <1>5, OccurrencesAre
<1>7. ASSUME NEW k \in 1 .. Len(p) PROVE Byt(pos + k - 1) = p[k]
  <2>1. pos + k \in 1 .. strlen
    BY <1>3, <1>4, <1>6
  <2>2. Document[pos + k] = Byt((pos + k) - 1)
    BY <2>1, DocumentIs
  <2> QED
    BY <1>6, <2>2
<1> QED
  BY <1>3, <1>4, <1>6, <1>7

\* The red part is the match, or one more when the document ends there.
LEMMA RedLengthIs ==
    ASSUME MemoryIs, NEW p \in Words, NEW pos \in Occurrences(p, Document)
    PROVE  RedLength(pos, p) = IF Byt(pos + Len(p)) = NUL THEN Len(p) + 1 ELSE Len(p)
<1> DEFINE n == Len(p)
           D == {k \in 0 .. n : Byt(pos + k) # (p \o <<NUL>>)[k + 1]}
<1>1. /\ n \in Nat \ {0} /\ pos \in Nat
      /\ \A k \in 1 .. n : Byt(pos + k - 1) = p[k] /\ p[k] \in ArgChars
  BY MatchBytes
<1>2. p \in Seq(Int)
  BY DEF Words, ArgChars
<1>3. \A k \in 1 .. n + 1 : (p \o <<NUL>>)[k] = IF k <= n THEN p[k] ELSE NUL
  <2>1. <<NUL>> \in Seq(Int) /\ Len(<<NUL>>) = 1 /\ <<NUL>>[1] = NUL
    BY DEF NUL
  <2>2. \A k \in 1 .. n + 1 : (p \o <<NUL>>)[k] = IF k <= n THEN p[k] ELSE <<NUL>>[k - n]
    BY <1>2, <2>1, ConcatProperties
  <2>3. \A k \in 1 .. n + 1 : ~(k <= n) => k - n = 1
    BY <1>1
  <2> QED
    BY <2>1, <2>2, <2>3
<1> HIDE DEF n
<1>4. ASSUME NEW k \in 0 .. n - 1 PROVE Byt(pos + k) = (p \o <<NUL>>)[k + 1]
  <2>1. k + 1 \in 1 .. n /\ k + 1 \in 1 .. n + 1 /\ k + 1 <= n /\ pos + (k + 1) - 1 = pos + k
    BY <1>1
  <2> QED
    BY <1>1, <1>3, <2>1
<1>5. (p \o <<NUL>>)[n + 1] = NUL /\ n \in 0 .. n
  <2>1. n + 1 \in 1 .. n + 1 /\ ~(n + 1 <= n) /\ n \in 0 .. n
    BY <1>1
  <2> QED
    BY <1>3, <2>1
<1>6. \A k \in 0 .. n : k = n \/ k \in 0 .. n - 1
  BY <1>1
<1>7. D = IF Byt(pos + n) = NUL THEN {} ELSE {n}
  BY <1>4, <1>5, <1>6
<1>8. RedLength(pos, p) = IF D = {} THEN n + 1 ELSE Min(D)
  BY DEF RedLength, n
<1>9. Min({n}) = n
  <2>1. {n} \subseteq Int /\ n \in {n} /\ \A y \in {n} : n <= y
    BY <1>1
  <2> QED
    BY <2>1, MinIs
<1> HIDE DEF D
<1> QED
  BY <1>7, <1>8, <1>9 DEF n

\* The rest of the line ends before the first newline or zero.
LEMMA RestEndIs ==
    ASSUME MemoryIs, NEW k \in Nat
    PROVE  /\ RestEnd(k) \in Nat /\ k <= RestEnd(k)
           /\ Byt(RestEnd(k)) \in {NL, NUL}
           /\ \A j \in Nat : k <= j /\ j < RestEnd(k) => Byt(j) \notin {NL, NUL}
<1> DEFINE M == Len(mem)
           E == {e \in k .. M + k : Byt(e) \in {NL, NUL}}
<1>1. M \in Nat
  BY DEF MemoryIs
<1>2. Byt(M + k) = NUL
  <2>1. M + k \in Nat /\ M + k >= Len(mem)
    BY <1>1
  <2> QED
    BY <2>1 DEF MemoryIs
<1> HIDE DEF M
<1>3. E \subseteq Nat /\ E # {}
  <2>1. M + k \in k .. M + k
    BY <1>1
  <2>2. k .. M + k \subseteq Nat
    BY <1>1
  <2> QED
    BY <1>2, <2>1, <2>2
<1>4. PICK e \in E : \A y \in E : e <= y
  BY <1>3, LeastNat
<1>5. e \in k .. M + k /\ Byt(e) \in {NL, NUL}
  OBVIOUS
<1>6. \A j \in Nat : k <= j /\ j < e => Byt(j) \notin {NL, NUL}
  <2> SUFFICES ASSUME NEW j \in Nat, k <= j, j < e, Byt(j) \in {NL, NUL} PROVE FALSE
    OBVIOUS
  <2>1. j \in k .. M + k
    BY <1>1, <1>5
  <2>2. j \in E
    BY <2>1
  <2> QED
    BY <1>4, <1>5, <2>2
<1>7. E \subseteq Int
  BY <1>3
<1> HIDE DEF E
<1>8. Min(E) = e
  BY <1>4, <1>7, MinIs
<1>9. RestEnd(k) = e
  BY <1>8 DEF RestEnd, E, M
<1> QED
  BY <1>1, <1>5, <1>6, <1>9

\* Where printing the first match of a pattern leaves the buffer.
LEMMA SentenceOver ==
    ASSUME MemoryIs, NEW p \in Words, NEW pos \in Occurrences(p, Document)
    PROVE  LET end  == pos + Len(p)
               last == Byt(Len(file))
           IN  Sentence(pos, p).over <=>
                   \/ end > Len(file)
                   \/ /\ \A j \in end + 1 .. Len(file) : file[j] # NL
                      /\ last \notin {NUL, NL} \/ (last = NUL /\ end = Len(file))
<1> DEFINE n == Len(p)
           F == Len(file)
           end == pos + n
           last == Byt(F)
           red == RedLength(pos, p)
           r == RestEnd(pos + red)
<1>1. n \in Nat \ {0} /\ pos \in Nat /\ end \in Nat
  BY MatchBytes
<1>2. F \in Nat /\ \A k \in 0 .. F - 1 : Byt(k) = file[k + 1] /\ Byt(k) > 0
  BY DEF MemoryIs
<1>3. red = IF Byt(end) = NUL THEN n + 1 ELSE n
  BY RedLengthIs
<1>4. pos + red \in Nat /\ pos + red >= end
  BY <1>1, <1>3
<1>5. Sentence(pos, p).over <=> pos + red > F \/ r > F
  BY DEF Sentence
<1>6. /\ r \in Nat /\ pos + red <= r /\ Byt(r) \in {NL, NUL}
      /\ \A j \in Nat : pos + red <= j /\ j < r => Byt(j) \notin {NL, NUL}
  BY <1>4, RestEndIs
<1>7. pos + red = IF Byt(end) = NUL THEN end + 1 ELSE end
  BY <1>1, <1>3
<1> HIDE DEF n, F, end, last, red, r
<1>8. CASE end > F
  BY <1>1, <1>2, <1>4, <1>5, <1>8 DEF n, F, end
<1>9. CASE end = F
  <2>1. last = Byt(end)
    BY <1>9 DEF last
  <2>2. end + 1 .. F = {} /\ ~(end > F)
    BY <1>1, <1>2, <1>9
  <2>3. CASE last = NUL
    <3>1. Sentence(pos, p).over
      BY <1>1, <1>2, <1>5, <1>7, <1>9, <2>1, <2>3
    <3> QED
      BY <1>9, <2>2, <2>3, <3>1 DEF n, F, end, last
  <2>4. CASE last # NUL
    <3>1. pos + red = F
      BY <1>7, <1>9, <2>1, <2>4
    <3>2. r > F <=> last # NL
      <4>1. CASE last = NL
        <5>1. ~(F < r)
          BY <1>2, <1>6, <3>1, <4>1 DEF last
        <5> QED
          BY <1>2, <1>6, <4>1, <5>1
      <4>2. CASE last # NL
        <5>1. r # F
          BY <1>6, <2>4, <4>2 DEF last
        <5> QED
          BY <1>2, <1>6, <3>1, <4>2, <5>1
      <4> QED
        BY <4>1, <4>2
    <3>3. Sentence(pos, p).over <=> last # NL
      BY <1>2, <1>5, <3>1, <3>2
    <3> QED
      BY <1>9, <2>2, <2>4, <3>3 DEF n, F, end, last
  <2> QED
    BY <2>3, <2>4
<1>10. CASE end < F
  <2>1. end \in 0 .. F - 1 /\ Byt(end) # NUL /\ ~(end > F) /\ end # F
    BY <1>1, <1>2, <1>10 DEF NUL
  <2>2. pos + red = end
    BY <1>7, <2>1
  <2>3. Sentence(pos, p).over <=> r > F
    BY <1>1, <1>2, <1>5, <2>1, <2>2
  <2>4. CASE \E j \in end + 1 .. F : file[j] = NL
    <3>1. PICK j \in end + 1 .. F : file[j] = NL
      BY <2>4
    <3>2. j - 1 \in 0 .. F - 1 /\ (j - 1) + 1 = j /\ end <= j - 1 /\ j - 1 \in Nat
      BY <1>1, <1>2
    <3>3. Byt(j - 1) = NL
      BY <1>2, <3>1, <3>2
    <3>4. ~(j - 1 < r)
      BY <1>6, <2>2, <3>2, <3>3
    <3>5. ~(r > F)
      BY <1>2, <1>6, <3>2, <3>4
    <3> QED
      BY <2>1, <2>3, <2>4, <3>5 DEF n, F, end, last
  <2>5. CASE \A j \in end + 1 .. F : file[j] # NL
    <3>1. ASSUME NEW k \in end .. F - 1 PROVE Byt(k) \notin {NL, NUL}
      <4>1. k \in 0 .. F - 1 /\ k + 1 \in end + 1 .. F
        BY <1>1, <1>2
      <4> QED
        BY <1>2, <2>5, <4>1 DEF NUL
    <3>2. r >= F
      <4>1. r \notin end .. F - 1
        BY <1>6, <3>1
      <4> QED
        BY <1>1, <1>2, <1>6, <2>2, <4>1
    <3>3. r > F <=> last \notin {NUL, NL}
      <4>1. CASE last \in {NUL, NL}
        <5>1. ~(F < r)
          BY <1>1, <1>2, <1>6, <1>10, <2>2, <4>1 DEF last
        <5> QED
          BY <1>2, <1>6, <4>1, <5>1
      <4>2. CASE last \notin {NUL, NL}
        <5>1. r # F
          BY <1>6, <4>2 DEF last
        <5> QED
          BY <1>2, <1>6, <3>2, <4>2, <5>1
      <4> QED
        BY <4>1, <4>2
    <3> QED
      BY <2>1, <2>3, <2>5, <3>3 DEF n, F, end, last
  <2> QED
    BY <2>4, <2>5
<1> QED
  BY <1>1, <1>2, <1>8, <1>9, <1>10

\* A stretch of the file in memory.
LEMMA TextIs ==
    ASSUME MemoryIs, NEW a \in Nat, NEW b \in Nat, a <= b, b <= Len(file)
    PROVE  /\ Text(a, b) \in Seq(Int) /\ Len(Text(a, b)) = b - a
           /\ \A k \in 1 .. b - a : Text(a, b)[k] = file[a + k]
<1>1. b - a \in Nat /\ Len(file) \in Nat
  BY DEF MemoryIs
<1> DEFINE t == Text(a, b)
<1>2. ASSUME NEW k \in 1 .. b - a PROVE Byt(a + k - 1) = file[a + k] /\ Byt(a + k - 1) \in Int
  <2>1. a + k - 1 \in 0 .. Len(file) - 1 /\ (a + k - 1) + 1 = a + k /\ a + k - 1 \in Nat
    BY <1>1
  <2> QED
    BY <2>1 DEF MemoryIs
<1>3. t = [k \in 1 .. b - a |-> Byt(a + k - 1)]
  BY DEF Text
<1>4. t \in [1 .. b - a -> Int] /\ \A k \in 1 .. b - a : t[k] = file[a + k]
  BY <1>2, <1>3
<1> DEFINE n == b - a
<1> HIDE DEF t, n
<1>5. t \in [1 .. n -> Int] /\ n \in Nat
  BY <1>1, <1>4 DEF n
<1>6. t \in Seq(Int) /\ Len(t) = n
  BY <1>5
<1> QED
  BY <1>4, <1>6 DEF t, n

\* The sentence is made of three stretches of the file that follow each other.
LEMMA ThreeTexts ==
    ASSUME MemoryIs, NEW a \in Nat, NEW b \in Nat, NEW c \in Nat, NEW d \in Nat,
           a <= b, b <= c, c <= d, d <= Len(file)
    PROVE  Text(a, b) \o Text(b, c) \o Text(c, d) = SubSeq(file, a + 1, d)
<1> DEFINE x == Text(a, b)  y == Text(b, c)  z == Text(c, d)
           u == x \o y
           v == u \o z
<1>1. file \in Seq(Int) /\ Len(file) \in Nat /\ b <= Len(file) /\ c <= Len(file)
  BY DEF MemoryIs
<1>2. /\ x \in Seq(Int) /\ Len(x) = b - a /\ \A k \in 1 .. b - a : x[k] = file[a + k]
      /\ y \in Seq(Int) /\ Len(y) = c - b /\ \A k \in 1 .. c - b : y[k] = file[b + k]
      /\ z \in Seq(Int) /\ Len(z) = d - c /\ \A k \in 1 .. d - c : z[k] = file[c + k]
  BY <1>1, TextIs
<1> HIDE DEF x, y, z
<1>3. /\ u \in Seq(Int) /\ Len(u) = Len(x) + Len(y)
      /\ \A k \in 1 .. Len(x) + Len(y) : u[k] = IF k <= Len(x) THEN x[k] ELSE y[k - Len(x)]
  BY <1>2, ConcatProperties
<1> HIDE DEF u
<1>4. /\ v \in Seq(Int) /\ Len(v) = Len(u) + Len(z)
      /\ \A k \in 1 .. Len(u) + Len(z) : v[k] = IF k <= Len(u) THEN u[k] ELSE z[k - Len(u)]
  <2>1. u \in Seq(Int) /\ z \in Seq(Int)
    BY <1>2, <1>3
  <2> QED
    BY <2>1, ConcatProperties
<1> HIDE DEF v
<1>5. Len(u) = c - a /\ Len(v) = d - a /\ d - a \in Nat
  BY <1>2, <1>3, <1>4
<1>6. ASSUME NEW k \in 1 .. d - a PROVE v[k] = file[a + k]
  <2>1. CASE k <= b - a
    <3>1. k \in 1 .. b - a /\ k \in 1 .. Len(x) + Len(y) /\ k <= Len(x)
          /\ k \in 1 .. Len(u) + Len(z) /\ k <= Len(u)
      BY <1>2, <1>5, <2>1
    <3> QED
      BY <1>2, <1>3, <1>4, <3>1
  <2>2. CASE ~(k <= b - a) /\ k <= c - a
    <3>1. /\ k - (b - a) \in 1 .. c - b /\ k \in 1 .. Len(x) + Len(y) /\ ~(k <= Len(x))
          /\ k \in 1 .. Len(u) + Len(z) /\ k <= Len(u) /\ b + (k - (b - a)) = a + k
          /\ k - Len(x) = k - (b - a)
      BY <1>2, <1>5, <2>2
    <3>2. v[k] = u[k] /\ u[k] = y[k - (b - a)]
      BY <1>3, <1>4, <3>1
    <3>3. y[k - (b - a)] = file[b + (k - (b - a))]
      BY <1>2, <3>1
    <3> QED
      BY <3>1, <3>2, <3>3
  <2>3. CASE ~(k <= c - a)
    <3>1. /\ k - (c - a) \in 1 .. d - c /\ k \in 1 .. Len(u) + Len(z) /\ ~(k <= Len(u))
          /\ c + (k - (c - a)) = a + k /\ k - Len(u) = k - (c - a)
      BY <1>2, <1>5, <2>3
    <3>2. v[k] = z[k - (c - a)]
      BY <1>4, <3>1
    <3>3. z[k - (c - a)] = file[c + (k - (c - a))]
      BY <1>2, <3>1
    <3> QED
      BY <3>1, <3>2, <3>3
  <2> QED
    BY <2>1, <2>2, <2>3
<1>7. v = [k \in 1 .. d - a |-> file[a + k]]
  <2>1. DOMAIN v = 1 .. d - a /\ v = [k \in DOMAIN v |-> v[k]]
    BY <1>4, <1>5, LenProperties
  <2> QED
    BY <1>6, <2>1
<1>8. SubSeq(file, a + 1, d) = [k \in 1 .. d - a |-> file[a + k]]
  <2>1. SubSeq(file, a + 1, d) = [k \in 1 .. d - (a + 1) + 1 |-> file[(a + 1) + k - 1]]
    BY <1>1
  <2>2. d - (a + 1) + 1 = d - a /\ \A k \in 1 .. d - a : (a + 1) + k - 1 = a + k
    OBVIOUS
  <2> QED
    BY <2>1, <2>2
<1> QED
  BY <1>7, <1>8 DEF v, u, x, y, z

\* A line starts after the last newline before the match.
LEMMA StartOfIs ==
    ASSUME MemoryIs, NEW pos \in Nat
    PROVE  /\ StartOf(pos) \in 0 .. pos
           /\ StartOf(pos) = 0 \/ Byt(StartOf(pos) - 1) = NL
           /\ \A k \in 1 .. pos : Byt(k - 1) = NL => k <= StartOf(pos)
<1> DEFINE S == {0} \cup {k \in 1 .. pos : Byt(k - 1) = NL}
<1>1. S \subseteq Int /\ S # {} /\ pos \in Int /\ \A y \in S : y <= pos
  OBVIOUS
<1>2. S \subseteq 0 .. pos
  OBVIOUS
<1>3. Max(S) \in S /\ \A y \in S : y <= Max(S)
  <2> HIDE DEF S
  <2> QED
    BY <1>1, MaxOf
<1>4. StartOf(pos) = Max(S)
  BY DEF StartOf
<1> QED
  BY <1>2, <1>3, <1>4

\* What PrintsMatchedLine says of one sentence.
GoodSentence(e) ==
    LET a == e.pos - Len(e.parts[1])
        b == e.pos + Len(e.parts[2]) + Len(e.parts[3])
    IN  /\ e.pos = Min(Occurrences(e.p, file))
        /\ e.parts[2] = e.p
        /\ e.parts[1] \o e.parts[2] \o e.parts[3] = SubSeq(file, a + 1, b)
        /\ IsLine(file, a, b)

\* The first match in the document is the first in the file when it lies there.
LEMMA FirstInFile ==
    ASSUME MemoryIs, NEW p \in Words, NEW pos, FirstMatch(pos, p), pos + Len(p) <= Len(file)
    PROVE  pos = Min(Occurrences(p, file))
<1> DEFINE n == Len(p)
           F == Len(file)
<1>1. pos \in Occurrences(p, Document) /\ \A q \in Occurrences(p, Document) : pos <= q
  BY DEF FirstMatch
<1>2. /\ n \in Nat \ {0} /\ pos \in Nat
      /\ \A k \in 1 .. n : Byt(pos + k - 1) = p[k]
  BY <1>1, MatchBytes
<1>3. p \in Seq(Int) /\ file \in Seq(Int) /\ F \in Nat /\ strlen \in Nat /\ F <= strlen
  BY DEF Words, ArgChars, MemoryIs
<1>4. \A k \in 0 .. F - 1 : Byt(k) = file[k + 1]
  BY DEF MemoryIs
<1>5. Document \in Seq(Int) /\ Len(Document) = strlen /\ \A k \in 1 .. strlen : Document[k] = Byt(k - 1)
  BY DocumentIs
<1>6. Occurrences(p, file) = {q \in 0 .. F - n : \A k \in 1 .. n : file[q + k] = p[k]}
  BY <1>3, OccurrencesAre
<1>7. Occurrences(p, Document) = {q \in 0 .. strlen - n : \A k \in 1 .. n : Document[q + k] = p[k]}
  BY <1>3, <1>5, OccurrencesAre
<1>8. pos + n <= F
  OBVIOUS
<1> HIDE DEF n, F
<1>9. pos \in Occurrences(p, file)
  <2>1. ASSUME NEW k \in 1 .. n PROVE file[pos + k] = p[k]
    <3>1. pos + k - 1 \in 0 .. F - 1 /\ (pos + k - 1) + 1 = pos + k
      BY <1>2, <1>3, <1>8
    <3> QED
      BY <1>2, <1>4, <3>1
  <2>2. pos \in 0 .. F - n
    BY <1>2, <1>3, <1>8
  <2> QED
    BY <1>6, <2>1, <2>2
<1>10. ASSUME NEW q \in Occurrences(p, file) PROVE q \in Occurrences(p, Document)
  <2>1. q \in 0 .. F - n /\ \A k \in 1 .. n : file[q + k] = p[k]
    BY <1>6
  <2>2. ASSUME NEW k \in 1 .. n PROVE Document[q + k] = p[k]
    <3>1. /\ q + k \in 1 .. strlen /\ (q + k) - 1 \in 0 .. F - 1 /\ ((q + k) - 1) + 1 = q + k
      BY <1>2, <1>3, <2>1
    <3> QED
      BY <1>4, <1>5, <2>1, <3>1
  <2>3. q \in 0 .. strlen - n
    BY <1>2, <1>3, <2>1
  <2> QED
    BY <1>7, <2>2, <2>3
<1>11. Occurrences(p, file) \subseteq Int
  BY <1>2, <1>3, <1>6
<1>12. \A q \in Occurrences(p, file) : pos <= q
  BY <1>1, <1>10
<1> QED
  BY <1>9, <1>11, <1>12, MinIs

\* A sentence printed from the buffer alone for the first match of a pattern without
\* a newline is the line of the match.
LEMMA SentenceGood ==
    ASSUME MemoryIs, NL \notin ArgChars, NEW p \in Words, NEW pos, FirstMatch(pos, p),
           ~Sentence(pos, p).over
    PROVE  GoodSentence(Sentence(pos, p))
<1> DEFINE n == Len(p)
           F == Len(file)
           end == pos + n
           red == RedLength(pos, p)
           r == RestEnd(pos + red)
           st == StartOf(pos)
           e == Sentence(pos, p)
<1>0. pos \in Occurrences(p, Document)
  BY DEF FirstMatch
<1>1. /\ n \in Nat \ {0} /\ pos \in Nat /\ end \in Nat
      /\ \A k \in 1 .. n : Byt(pos + k - 1) = p[k] /\ p[k] \in ArgChars
  BY <1>0, MatchBytes
<1>2. F \in Nat /\ \A k \in 0 .. F - 1 : Byt(k) = file[k + 1] /\ Byt(k) > 0
  BY DEF MemoryIs
<1>3. red = IF Byt(end) = NUL THEN n + 1 ELSE n
  BY <1>0, RedLengthIs
<1>4. pos + red \in Nat
  BY <1>1, <1>3
<1>5. /\ r \in Nat /\ pos + red <= r /\ Byt(r) \in {NL, NUL}
      /\ \A j \in Nat : pos + red <= j /\ j < r => Byt(j) \notin {NL, NUL}
  BY <1>4, RestEndIs
<1>6. ~(pos + red > F) /\ ~(r > F)
  BY DEF Sentence
<1>7. /\ e.p = p /\ e.pos = pos
      /\ e.parts = <<Text(st, pos), Text(pos, pos + red), Text(pos + red, r)>>
  BY <1>6 DEF Sentence
<1>8. red = n
  <2> SUFFICES ASSUME Byt(end) = NUL PROVE FALSE
    BY <1>3
  <2>1. end \in 0 .. F - 1
    BY <1>1, <1>2, <1>3, <1>6
  <2> QED
    BY <1>2, <2>1 DEF NUL
<1>9. pos + red = end
  BY <1>8
<1>10. /\ st \in 0 .. pos
       /\ st = 0 \/ Byt(st - 1) = NL
       /\ \A k \in 1 .. pos : Byt(k - 1) = NL => k <= st
  BY <1>1, StartOfIs
<1>11. p \in Seq(ArgChars) /\ DOMAIN p = 1 .. n
  BY LenProperties DEF Words
<1>12. pos = Min(Occurrences(p, file))
  <2>1. pos + Len(p) <= Len(file)
    BY <1>1, <1>2, <1>6, <1>9
  <2> QED
    BY <2>1, FirstInFile
<1> HIDE DEF n, F, end, red, r, st, e
<1>13. st \in Nat /\ st <= pos /\ pos <= end /\ end <= r /\ r <= F /\ end - pos = n
  BY <1>1, <1>2, <1>5, <1>6, <1>9, <1>10 DEF end
<1>14. e.parts = <<Text(st, pos), Text(pos, end), Text(end, r)>>
  BY <1>7, <1>9
<1>15. /\ Len(Text(st, pos)) = pos - st /\ Len(Text(pos, end)) = n /\ Len(Text(end, r)) = r - end
       /\ \A k \in 1 .. n : Text(pos, end)[k] = file[pos + k]
  <2>1. Len(file) \in Nat /\ pos <= Len(file) /\ end <= Len(file) /\ r <= Len(file)
    BY <1>1, <1>2, <1>5, <1>13 DEF F
  <2>2. Len(Text(st, pos)) = pos - st
    BY <1>1, <1>13, <2>1, TextIs
  <2>3. Len(Text(pos, end)) = end - pos /\ \A k \in 1 .. end - pos : Text(pos, end)[k] = file[pos + k]
    BY <1>1, <1>13, <2>1, TextIs
  <2>4. Len(Text(end, r)) = r - end
    BY <1>1, <1>5, <1>13, <2>1, TextIs
  <2> QED
    BY <1>13, <2>2, <2>3, <2>4
<1>16. /\ e.pos - Len(e.parts[1]) = st
       /\ e.pos + Len(e.parts[2]) + Len(e.parts[3]) = r
  BY <1>1, <1>5, <1>7, <1>13, <1>14, <1>15
<1>17. ASSUME NEW k \in 1 .. n PROVE p[k] = file[pos + k]
  <2>1. pos + k - 1 \in 0 .. F - 1 /\ (pos + k - 1) + 1 = pos + k
    BY <1>1, <1>2, <1>5, <1>13
  <2> QED
    BY <1>1, <1>2, <2>1
<1>18. Text(pos, end) = p
  <2>1. Text(pos, end) = [k \in 1 .. n |-> Byt(pos + k - 1)]
    BY <1>13 DEF Text
  <2>2. p = [k \in 1 .. n |-> p[k]]
    BY <1>11
  <2> QED
    BY <1>1, <2>1, <2>2
<1>19. Text(st, pos) \o Text(pos, end) \o Text(end, r) = SubSeq(file, st + 1, r)
  <2>1. /\ st \in Nat /\ pos \in Nat /\ end \in Nat /\ r \in Nat
        /\ st <= pos /\ pos <= end /\ end <= r /\ r <= Len(file)
    BY <1>1, <1>5, <1>13 DEF F
  <2> QED
    BY <2>1, ThreeTexts, Zenon
<1>20. IsLine(file, st, r)
  <2>1. ASSUME NEW k \in st + 1 .. r PROVE file[k] # NL
    <3>1. k \in 1 .. F /\ k - 1 \in 0 .. F - 1 /\ (k - 1) + 1 = k /\ k - 1 \in Nat
      BY <1>2, <1>5, <1>13
    <3>2. Byt(k - 1) = file[k]
      BY <1>2, <3>1
    <3>3. CASE k <= pos
      <4>1. k \in 1 .. pos /\ ~(k <= st)
        BY <1>1, <1>13, <3>1, <3>3
      <4> QED
        BY <1>10, <3>2, <4>1
    <3>4. CASE pos < k /\ k <= end
      <4>1. k - pos \in 1 .. n /\ pos + (k - pos) = k
        BY <1>1, <1>13, <3>1, <3>4
      <4>2. p[k - pos] \in ArgChars /\ p[k - pos] = file[pos + (k - pos)]
        BY <1>1, <1>17, <4>1
      <4> QED
        BY <4>1, <4>2
    <3>5. CASE end < k
      <4>1. pos + red <= k - 1 /\ k - 1 < r
        BY <1>1, <1>5, <1>9, <1>13, <3>1, <3>5
      <4> QED
        BY <1>5, <3>1, <3>2, <4>1
    <3> QED
      BY <1>1, <3>1, <3>3, <3>4, <3>5
  <2>2. st = 0 \/ file[st] = NL
    <3> SUFFICES ASSUME st # 0 PROVE file[st] = NL
      OBVIOUS
    <3>1. st - 1 \in 0 .. F - 1 /\ (st - 1) + 1 = st
      BY <1>1, <1>2, <1>5, <1>13
    <3> QED
      BY <1>2, <1>10, <3>1
  <2>3. r = F \/ file[r + 1] = NL
    <3> SUFFICES ASSUME r # F PROVE file[r + 1] = NL
      OBVIOUS
    <3>1. r \in 0 .. F - 1
      BY <1>2, <1>5, <1>13
    <3> QED
      BY <1>2, <1>5, <3>1 DEF NUL
  <2> QED
    BY <2>1, <2>2, <2>3 DEF IsLine, F
<1>21. e.parts[1] = Text(st, pos) /\ e.parts[2] = Text(pos, end) /\ e.parts[3] = Text(end, r)
  BY <1>14
<1> QED
  BY <1>7, <1>12, <1>16, <1>18, <1>19, <1>20, <1>21 DEF GoodSentence, e

-----------------------------------------------------------------------------
(* The inductive invariant.                                                *)

\* The filter is the one of the document, for patterns of one length.
FilterInv ==
    /\ \A k \in 1 .. Len(patterns) : Len(patterns[k]) = Len(patterns[1])
    /\ bf = rk_create_doc_bloom(Len(patterns[1]), strlen, Text(0, Len(mem) + Len(patterns[1])),
                                strlen * 8)

\* What is known at each stage of main.
StageInv ==
    /\ pc \in {"getopt", "read"} => mem = <<>> /\ i = 1
    /\ pc \in {"read", "bloom"} => patterns # <<>>
    /\ pc = "bloom" => Loaded /\ i = 1 /\ searches = <<>>
    /\ pc \in {"search", "print"} => /\ Loaded /\ i \in 1 .. Len(patterns)
                                     /\ which_algo = "rkbloom" => FilterInv
    /\ pc = "search" => Len(searches) = i - 1
    /\ pc = "print" => /\ Len(searches) = i
                       /\ stored => \/ first_match_ind = -1
                                    \/ FirstMatch(first_match_ind, patterns[i])
    /\ pc = "exit0" => Loaded /\ Len(searches) = Len(patterns)

\* A sentence was printed at an index that the matcher stored or at a leftover.
PrintInv ==
    \A k \in DOMAIN out : \E pos \in Int, p \in Words, b \in BOOLEAN :
        /\ out[k] = [s |-> Sentence(pos, p), stored |-> b]
        /\ b => FirstMatch(pos, p)

RkInv ==
    /\ which_algo \in Algos /\ patterns \in Seq(Words) /\ file \in Files
    /\ first_match_ind \in Int /\ stored \in BOOLEAN
    /\ searches \in Seq(Int) /\ Len(out) \in Nat /\ out = [k \in 1 .. Len(out) |-> out[k]]
    /\ Loaded \/ (mem = <<>> /\ searches = <<>> /\ out = <<>>)
    /\ StageInv
    /\ PrintInv

\* What a step that leaves the document alone leaves alone with it.
LEMMA Frozen ==
    ASSUME UNCHANGED doc
    PROVE  /\ Loaded' = Loaded /\ Document' = Document /\ strlen' = strlen
           /\ \A a, b : Text(a, b)' = Text(a, b)
           /\ \A pos, p : Sentence(pos, p)' = Sentence(pos, p)
           /\ \A pos, p : FirstMatch(pos, p)' = FirstMatch(pos, p)
<1>1. file' = file /\ mem' = mem
  BY DEF doc
<1>2. \A k : Byt(k)' = Byt(k)
  BY <1>1 DEF Byt
<1>3. Loaded' = Loaded
  BY <1>1 DEF Loaded, Ascii
<1>4. strlen' = strlen
  BY <1>1, <1>2 DEF strlen
<1>5. Document' = Document
  BY <1>1, <1>4 DEF Document
<1>6. \A a, b : Text(a, b)' = Text(a, b)
  BY <1>2 DEF Text
<1>7. \A pos, p : FirstMatch(pos, p)' = FirstMatch(pos, p)
  BY <1>5 DEF FirstMatch
<1>8. \A pos : StartOf(pos)' = StartOf(pos)
  BY <1>2 DEF StartOf
<1>9. \A k : RestEnd(k)' = RestEnd(k)
  BY <1>1, <1>2 DEF RestEnd
<1>10. \A pos, p : RedLength(pos, p)' = RedLength(pos, p)
  BY <1>2 DEF RedLength
<1>11. \A pos, p : Sentence(pos, p)' = Sentence(pos, p)
  BY <1>1, <1>6, <1>8, <1>9, <1>10 DEF Sentence
<1> QED
  BY <1>3, <1>4, <1>5, <1>6, <1>7, <1>11

\* rkgrep starts with the invariant.
LEMMA RkInitHolds == RkInit => RkInv
<1> SUFFICES ASSUME RkInit PROVE RkInv
  OBVIOUS
<1>1. <<>> \in Seq(Words) /\ <<>> \in Seq(Int) /\ Len(<<>>) = 0 /\ DOMAIN <<>> = {} /\ 1 .. 0 = {}
  BY EmptySeq
<1>2. out = <<>> /\ searches = <<>> /\ mem = <<>> /\ patterns = <<>>
  BY DEF RkInit
<1>3. PrintInv
  BY <1>1, <1>2 DEF PrintInv
<1>4. StageInv
  BY DEF RkInit, StageInv
<1>5. first_match_ind \in Int /\ stored \in BOOLEAN /\ file \in Files /\ which_algo \in Algos
  BY RkgrepAssumption DEF RkInit, Algos
<1> QED
  BY <1>1, <1>2, <1>3, <1>4, <1>5 DEF RkInv

\* The sentences printed so far do not change under a step that prints none.
LEMMA PrintedStays ==
    ASSUME RkInv, UNCHANGED <<doc, out>>
    PROVE  PrintInv' /\ (Len(out) \in Nat /\ out = [k \in 1 .. Len(out) |-> out[k]])'
<1>1. \A pos, p : Sentence(pos, p)' = Sentence(pos, p) /\ FirstMatch(pos, p)' = FirstMatch(pos, p)
  BY Frozen
<1>2. ASSUME NEW k \in DOMAIN out'
      PROVE  \E pos \in Int, p \in Words, b \in BOOLEAN :
                 /\ out'[k] = [s |-> Sentence(pos, p)', stored |-> b]
                 /\ b => FirstMatch(pos, p)'
  <2>1. PICK pos \in Int, p \in Words, b \in BOOLEAN :
            out[k] = [s |-> Sentence(pos, p), stored |-> b] /\ (b => FirstMatch(pos, p))
    BY DEF RkInv, PrintInv
  <2>2. out'[k] = [s |-> Sentence(pos, p)', stored |-> b] /\ (b => FirstMatch(pos, p)')
    BY <1>1, <2>1
  <2> QED
    BY <2>2
<1>3. PrintInv'
  BY <1>2 DEF PrintInv
<1> QED
  BY <1>3 DEF RkInv

\* The steps before the search, and the ends of the process.
LEMMA EndKeeps ==
    ASSUME RkInv, NEW how \in {"exit1", "crash", "abort"}, End(how)
    PROVE  RkInv'
<1>1. UNCHANGED <<doc, out>>
  BY DEF End, doc
<1>2. PrintInv' /\ (Len(out) \in Nat /\ out = [k \in 1 .. Len(out) |-> out[k]])'
  BY <1>1, PrintedStays
<1>3. Loaded' = Loaded
  BY <1>1, Frozen
<1> QED
  BY <1>2, <1>3 DEF End, RkInv, StageInv, doc, found

\* An option changes the algorithm only.
LEMMA OptionKeeps ==
    ASSUME RkInv, Option
    PROVE  RkInv'
<1>1. UNCHANGED <<doc, out>>
  BY DEF Option, doc
<1>2. PrintInv' /\ (Len(out) \in Nat /\ out = [k \in 1 .. Len(out) |-> out[k]])'
  BY <1>1, PrintedStays
<1>3. Loaded' = Loaded
  BY <1>1, Frozen
<1> QED
  BY <1>2, <1>3 DEF Option, RkInv, StageInv, doc, found

\* strtok makes patterns that are not empty.
LEMMA SplitKeeps ==
    ASSUME RkInv, SplitPatterns
    PROVE  RkInv'
<1>1. UNCHANGED <<doc, out>>
  BY DEF SplitPatterns, doc
<1>2. PrintInv' /\ (Len(out) \in Nat /\ out = [k \in 1 .. Len(out) |-> out[k]])'
  BY <1>1, PrintedStays
<1>3. Loaded' = Loaded
  BY <1>1, Frozen
<1>4. PICK arg \in Args :
        /\ pc' = IF Len(strtok(arg)) >= MAX_PATTERNS THEN "abort"
                 ELSE IF strtok(arg) = <<>> THEN "exit1" ELSE "read"
        /\ patterns' = IF Len(strtok(arg)) >= MAX_PATTERNS THEN patterns ELSE strtok(arg)
  BY DEF SplitPatterns
<1>5. strtok(arg) \in Seq(Words)
  <2>1. arg \in Seq(Int \ {NUL})
    BY RkgrepAssumption
  <2>2. \A k \in 1 .. Len(arg) : arg[k] \in ArgChars
    <3>1. DOMAIN arg = 1 .. Len(arg) /\ \A k \in 1 .. Len(arg) : arg[k] \in Int \ {NUL}
      BY <2>1, LenProperties, ElementOfSeq
    <3> QED
      BY <3>1 DEF ArgChars
  <2>3. Len(arg) \in Nat /\ DOMAIN arg = 1 .. Len(arg) /\ arg = [k \in 1 .. Len(arg) |-> arg[k]]
    BY <2>1, LenProperties
  <2>4. arg \in [1 .. Len(arg) -> ArgChars]
    BY <2>2, <2>3
  <2>5. arg \in Seq(ArgChars)
    BY <2>3, <2>4
  <2> QED
    BY <2>5, StrtokType
<1>6. /\ patterns' \in Seq(Words) /\ pc' \in {"abort", "exit1", "read"}
      /\ pc' = "read" => patterns' # <<>>
  BY <1>4, <1>5 DEF RkInv
<1> QED
  BY <1>2, <1>3, <1>6 DEF SplitPatterns, RkInv, StageInv, doc, found

\* read_ascii_file loads the document.
LEMMA ReadKeeps ==
    ASSUME RkInv, ReadFile
    PROVE  RkInv'
<1>1. mem = <<>> /\ i = 1 /\ searches = <<>> /\ out = <<>> /\ patterns # <<>>
  <2>1. mem = <<>> /\ i = 1 /\ patterns # <<>>
    BY DEF ReadFile, RkInv, StageInv
  <2>2. ~Loaded
    <3> SUFFICES ASSUME Loaded PROVE FALSE
      OBVIOUS
    <3>1. Len(mem) \in Nat /\ strlen \in Nat /\ strlen <= Len(mem) - 1
      BY LoadedMemory DEF MemoryIs
    <3>2. Len(mem) = 0
      BY <2>1
    <3> QED
      BY <3>1, <3>2
  <2> QED
    BY <2>1, <2>2 DEF RkInv
<1>2. Loaded'
  BY DEF ReadFile, Loaded, Ascii, RkInv
<1>3. /\ pc' \in {"bloom", "search"}
      /\ pc' = "search" => which_algo # "rkbloom"
      /\ which_algo' = which_algo /\ patterns' = patterns /\ file' = file /\ i' = 1
      /\ searches' = <<>> /\ out' = <<>> /\ first_match_ind' = first_match_ind
      /\ stored' = stored
  BY <1>1 DEF ReadFile, found
<1>4. 1 \in 1 .. Len(patterns) /\ Len(patterns) \in Nat
  <2>1. patterns \in Seq(Words)
    BY DEF RkInv
  <2>2. Len(patterns) \in Nat /\ Len(patterns) # 0
    BY <1>1, <2>1, EmptySeq, LenProperties
  <2> QED
    BY <2>2
<1>5. StageInv'
  <2>1. CASE pc' = "bloom"
    BY <1>1, <1>2, <1>3, <2>1 DEF StageInv
  <2>2. CASE pc' = "search"
    <3>1. Len(<<>>) = 1 - 1
      OBVIOUS
    <3> QED
      BY <1>2, <1>3, <1>4, <2>2, <3>1 DEF StageInv
  <2> QED
    BY <1>3, <2>1, <2>2
<1>6. PrintInv'
  BY <1>3 DEF PrintInv
<1> QED
  BY <1>2, <1>3, <1>5, <1>6, EmptySeq DEF RkInv

\* The filter is built for patterns of one length.
LEMMA BloomKeeps ==
    ASSUME RkInv, CreateBloom
    PROVE  RkInv'
<1> DEFINE m == Len(patterns[1])
<1>1. UNCHANGED <<doc, out>>
  BY DEF CreateBloom, doc
<1>2. PrintInv' /\ (Len(out) \in Nat /\ out = [k \in 1 .. Len(out) |-> out[k]])'
  BY <1>1, PrintedStays
<1>3. Loaded' = Loaded /\ strlen' = strlen /\ \A a, b : Text(a, b)' = Text(a, b)
  BY <1>1, Frozen
<1>4. Loaded /\ i = 1 /\ searches = <<>> /\ patterns # <<>>
  BY DEF CreateBloom, RkInv, StageInv
<1>5. 1 \in 1 .. Len(patterns) /\ Len(patterns) \in Nat /\ DOMAIN patterns = 1 .. Len(patterns)
  <2>1. patterns \in Seq(Words)
    BY DEF RkInv
  <2>2. Len(patterns) \in Nat /\ Len(patterns) # 0 /\ DOMAIN patterns = 1 .. Len(patterns)
    BY <1>4, <2>1, EmptySeq, LenProperties
  <2> QED
    BY <2>2
<1>6. /\ which_algo' = which_algo /\ patterns' = patterns /\ i' = i /\ searches' = searches
      /\ first_match_ind' = first_match_ind /\ stored' = stored /\ file' = file /\ mem' = mem
      /\ out' = out
  BY DEF CreateBloom, doc, found
<1>7. CASE pc' \in {"abort", "crash"}
  BY <1>2, <1>3, <1>4, <1>6, <1>7 DEF RkInv, StageInv
<1>8. CASE pc' = "search"
  <2>1. /\ \A k \in DOMAIN patterns : Len(patterns[k]) = m
        /\ bf' = rk_create_doc_bloom(m, strlen, Text(0, Len(mem) + m), strlen * 8)
    BY <1>8 DEF CreateBloom
  <2>2. FilterInv'
    BY <1>3, <1>5, <1>6, <2>1 DEF FilterInv
  <2>3. Len(searches') = i' - 1
    BY <1>4, <1>6
  <2> QED
    BY <1>2, <1>3, <1>4, <1>5, <1>6, <1>8, <2>2, <2>3 DEF RkInv, StageInv
<1> QED
  BY <1>7, <1>8 DEF CreateBloom

\* The positions of a pattern are finitely many, and the least of them is the first match.
LEMMA OccurrencesFinite ==
    ASSUME MemoryIs, NEW p \in Words
    PROVE  /\ IsFiniteSet(Occurrences(p, Document)) /\ Cardinality(Occurrences(p, Document)) \in Nat
           /\ Occurrences(p, Document) # {} =>
                  /\ FirstMatch(Min(Occurrences(p, Document)), p)
                  /\ Min(Occurrences(p, Document)) \in Nat
<1> DEFINE S == Occurrences(p, Document)
<1>1. p \in Seq(Int) /\ Len(p) \in Nat
  BY LenProperties DEF Words, ArgChars
<1>2. Document \in Seq(Int) /\ Len(Document) = strlen /\ strlen \in Nat
  BY DocumentIs DEF MemoryIs
<1>3. S \subseteq 0 .. strlen - Len(p)
  BY <1>1, <1>2, OccurrencesAre
<1>4. IsFiniteSet(0 .. strlen - Len(p))
  <2>1. 0 \in Int /\ strlen - Len(p) \in Int
    BY <1>1, <1>2
  <2> QED
    BY <2>1, FS_Interval
<1>5. IsFiniteSet(S) /\ S \subseteq Nat /\ S \subseteq Int
  BY <1>1, <1>2, <1>3, <1>4, FS_Subset
<1>6. Cardinality(S) \in Nat
  BY <1>5, FS_CardinalityType
<1> HIDE DEF S
<1>7. ASSUME S # {} PROVE Min(S) \in S /\ \A y \in S : Min(S) <= y
  <2>1. PICK x \in S : \A y \in S : x <= y
    BY <1>5, <1>7, LeastNat
  <2>2. Min(S) = x
    BY <1>5, <2>1, MinIs
  <2> QED
    BY <2>1, <2>2
<1> QED
  BY <1>5, <1>6, <1>7 DEF S, FirstMatch

\* A search stores the first match or nothing.
LEMMA SearchKeeps ==
    ASSUME RkInv, Search
    PROVE  RkInv'
<1> DEFINE p == patterns[i]
<1>1. UNCHANGED <<doc, out>>
  BY DEF Search, doc
<1>2. PrintInv' /\ (Len(out) \in Nat /\ out = [k \in 1 .. Len(out) |-> out[k]])'
  BY <1>1, PrintedStays
<1>3. /\ Loaded' = Loaded /\ strlen' = strlen
      /\ \A a, b : Text(a, b)' = Text(a, b)
      /\ \A pos, q : FirstMatch(pos, q)' = FirstMatch(pos, q)
  BY <1>1, Frozen
<1>4. /\ Loaded /\ i \in 1 .. Len(patterns) /\ Len(searches) = i - 1
      /\ which_algo = "rkbloom" => FilterInv
  BY DEF Search, RkInv, StageInv
<1>5. MemoryIs
  BY <1>4, LoadedMemory
<1>6. p \in Words
  BY <1>4, ElementOfSeq DEF RkInv
<1>7. /\ which_algo' = which_algo /\ patterns' = patterns /\ i' = i /\ bf' = bf /\ pc' = "print"
      /\ file' = file /\ mem' = mem /\ out' = out /\ searches' = Append(searches, n_matches')
  BY DEF Search, doc
<1>8. \/ substring_match(p)
      \/ n_matches' = 0 /\ UNCHANGED first_match_ind /\ stored' = FALSE
  BY DEF Search, substring_match_using_bloom
<1>9. /\ n_matches' \in Int /\ first_match_ind' \in Int /\ stored' \in BOOLEAN
      /\ stored' => first_match_ind' = -1 \/ FirstMatch(first_match_ind', p)
  <2>1. CASE substring_match(p)
    <3> DEFINE at == Occurrences(p, Document)
    <3>1. /\ Cardinality(at) \in Nat
          /\ at # {} => FirstMatch(Min(at), p) /\ Min(at) \in Nat
      BY <1>5, <1>6, OccurrencesFinite
    <3>2. /\ n_matches' = Cardinality(at)
          /\ \/ at # {} /\ first_match_ind' = Min(at) /\ stored' = TRUE
             \/ first_match_ind' = -1 /\ stored' = TRUE
             \/ first_match_ind' = first_match_ind /\ stored' = FALSE
      BY <2>1 DEF substring_match, Document
    <3> HIDE DEF at, p
    <3>3. n_matches' \in Int
      BY <3>1, <3>2
    <3>4. first_match_ind' \in Int
      BY <3>1, <3>2 DEF RkInv
    <3>5. stored' \in BOOLEAN /\ (stored' => first_match_ind' = -1 \/ FirstMatch(first_match_ind', p))
      BY <3>1, <3>2, Zenon
    <3> QED
      BY <3>3, <3>4, <3>5
  <2>2. CASE n_matches' = 0 /\ UNCHANGED first_match_ind /\ stored' = FALSE
    <3>1. first_match_ind \in Int /\ 0 \in Int
      BY DEF RkInv
    <3> QED
      BY <2>2, <3>1, Zenon
  <2> QED
    BY <1>8, <2>1, <2>2
<1>10. searches' \in Seq(Int) /\ Len(searches') = i
  <2>1. searches \in Seq(Int) /\ i \in Int
    BY <1>4 DEF RkInv
  <2>2. searches' \in Seq(Int) /\ Len(searches') = Len(searches) + 1
    BY <1>7, <1>9, <2>1, AppendProperties
  <2> QED
    BY <1>4, <2>1, <2>2
<1>11. (which_algo = "rkbloom" => FilterInv)'
  BY <1>3, <1>4, <1>7 DEF FilterInv
<1>12. stored' => \/ first_match_ind' = -1
                  \/ FirstMatch(first_match_ind, patterns[i])'
  <2>1. FirstMatch(first_match_ind, patterns[i])' <=> FirstMatch(first_match_ind', p)
    BY <1>1, <1>7, Frozen DEF FirstMatch
  <2> QED
    BY <1>9, <2>1
<1>13. StageInv'
  BY <1>3, <1>4, <1>7, <1>10, <1>11, <1>12 DEF StageInv
<1> QED
  BY <1>2, <1>3, <1>4, <1>7, <1>9, <1>10, <1>13 DEF RkInv

\* What print_matched_sentence adds to the output.
LEMMA OutputGrows ==
    ASSUME RkInv, print_matched_sentence
    PROVE  \/ out' = out
           \/ /\ first_match_ind >= 0
              /\ Len(out') = Len(out) + 1 /\ out' = [k \in 1 .. Len(out) + 1 |-> out'[k]]
              /\ \A k \in 1 .. Len(out) : out'[k] = out[k]
              /\ out'[Len(out) + 1] = [s |-> Sentence(first_match_ind, patterns[i]), stored |-> stored]
<1> DEFINE e == Sentence(first_match_ind, patterns[i])
           x == [s |-> e, stored |-> stored]
           S == {out[k] : k \in 1 .. Len(out)} \cup {x}
           add == [k \in DOMAIN Printed |-> [s |-> Printed[k], stored |-> stored]]
<1>1. Len(out) \in Nat /\ out = [k \in 1 .. Len(out) |-> out[k]]
  BY DEF RkInv
<1>2. \A k \in 1 .. Len(out) : out[k] \in S
  OBVIOUS
<1>3. out' = out \o add
  BY DEF print_matched_sentence
<1>4. x \in S
  OBVIOUS
<1> DEFINE n == Len(out)
<1>5. n \in Nat /\ out \in [1 .. n -> S]
  BY <1>1, <1>2
<1> HIDE DEF n, S
<1>6. out \in Seq(S) /\ Len(out) = n
  BY <1>5
<1>7. CASE first_match_ind < 0
  <2>1. Printed = <<>>
    BY <1>7 DEF Printed
  <2>2. add = <<>>
    BY <2>1
  <2> HIDE DEF add
  <2>3. out' = out
    BY <1>3, <1>6, <2>2
  <2> QED
    BY <2>3
<1>8. CASE ~(first_match_ind < 0)
  <2>1. Printed = <<e>>
    BY <1>8 DEF Printed
  <2>2. add = <<x>>
    BY <2>1
  <2> HIDE DEF add, x
  <2>3. <<x>> \in Seq(S) /\ Len(<<x>>) = 1 /\ <<x>>[1] = x
    BY <1>4
  <2>4. /\ out' \in Seq(S) /\ Len(out') = n + 1
        /\ \A k \in 1 .. n + 1 : out'[k] = IF k <= n THEN out[k] ELSE <<x>>[k - n]
    BY <1>3, <1>6, <2>2, <2>3, ConcatProperties
  <2>5. out' = [k \in 1 .. n + 1 |-> out'[k]]
    BY <2>4, LenProperties
  <2>6. \A k \in 1 .. n : out'[k] = out[k]
    <3> TAKE k \in 1 .. n
    <3>1. k \in 1 .. n + 1 /\ k <= n
      BY <1>5
    <3> QED
      BY <2>4, <3>1
  <2>7. out'[n + 1] = x
    <3>1. n + 1 \in 1 .. n + 1 /\ ~(n + 1 <= n) /\ (n + 1) - n = 1
      BY <1>5
    <3> QED
      BY <2>3, <2>4, <3>1
  <2>8. first_match_ind >= 0
    BY <1>8 DEF RkInv
  <2> QED
    BY <2>4, <2>5, <2>6, <2>7, <2>8 DEF n, x
<1> QED
  BY <1>7, <1>8

\* Printing adds a sentence for the index that the search left.
LEMMA PrintKeeps ==
    ASSUME RkInv, print_matched_sentence
    PROVE  RkInv'
<1> DEFINE p == patterns[i]
           n == Len(out)
<1>1. /\ which_algo' = which_algo /\ patterns' = patterns /\ bf' = bf /\ searches' = searches
      /\ first_match_ind' = first_match_ind /\ stored' = stored /\ file' = file /\ mem' = mem
      /\ \/ i < Len(patterns) /\ i' = i + 1 /\ pc' = "search"
         \/ ~(i < Len(patterns)) /\ i' = i /\ pc' = "exit0"
  BY DEF print_matched_sentence, doc, found
<1>2. UNCHANGED doc
  BY <1>1 DEF doc
<1>3. /\ Loaded' = Loaded /\ strlen' = strlen
      /\ \A a, b : Text(a, b)' = Text(a, b)
      /\ \A pos, q : Sentence(pos, q)' = Sentence(pos, q) /\ FirstMatch(pos, q)' = FirstMatch(pos, q)
  BY <1>2, Frozen
<1>4. /\ Loaded /\ i \in 1 .. Len(patterns) /\ Len(searches) = i
      /\ which_algo = "rkbloom" => FilterInv
      /\ stored => first_match_ind = -1 \/ FirstMatch(first_match_ind, p)
  BY DEF print_matched_sentence, RkInv, StageInv
<1>5. p \in Words /\ Len(patterns) \in Nat
  BY <1>4, ElementOfSeq, LenProperties DEF RkInv
<1>6. (which_algo = "rkbloom" => FilterInv)'
  BY <1>1, <1>3, <1>4 DEF FilterInv
<1>7. StageInv'
  BY <1>1, <1>3, <1>4, <1>5, <1>6 DEF StageInv
<1>8. n \in Nat /\ out = [k \in 1 .. n |-> out[k]] /\ first_match_ind \in Int /\ stored \in BOOLEAN
  BY DEF RkInv
<1>9. CASE out' = out
  <2>1. PrintInv' /\ (Len(out) \in Nat /\ out = [k \in 1 .. Len(out) |-> out[k]])'
    BY <1>2, <1>9, PrintedStays
  <2> QED
    BY <1>1, <1>3, <1>4, <1>7, <2>1 DEF RkInv
<1>10. CASE /\ first_match_ind >= 0
            /\ Len(out') = n + 1 /\ out' = [k \in 1 .. n + 1 |-> out'[k]]
            /\ \A k \in 1 .. n : out'[k] = out[k]
            /\ out'[n + 1] = [s |-> Sentence(first_match_ind, p), stored |-> stored]
  <2>1. stored => FirstMatch(first_match_ind, p)
    BY <1>4, <1>8, <1>10
  <2>2. ASSUME NEW k \in 1 .. n + 1
        PROVE  \E pos \in Int, q \in Words, b \in BOOLEAN :
                   /\ out'[k] = [s |-> Sentence(pos, q)', stored |-> b]
                   /\ b => FirstMatch(pos, q)'
    <3>1. CASE k = n + 1
      <4>1. /\ out'[k] = [s |-> Sentence(first_match_ind, p), stored |-> stored]
            /\ stored => FirstMatch(first_match_ind, p)
        BY <1>10, <2>1, <3>1
      <4> DEFINE f == first_match_ind  b == stored  q == p
      <4>2. f \in Int /\ q \in Words /\ b \in BOOLEAN
        BY <1>5, <1>8
      <4>3. /\ out'[k] = [s |-> Sentence(f, q), stored |-> b]
            /\ b => FirstMatch(f, q)
        BY <4>1
      <4> HIDE DEF f, b, q, p
      <4>4. \E x \in Int, y \in Words, z \in BOOLEAN :
              /\ out'[k] = [s |-> Sentence(x, y), stored |-> z]
              /\ z => FirstMatch(x, y)
        BY <4>2, <4>3
      <4> QED
        BY <1>3, <4>4
    <3>2. CASE k # n + 1
      <4>1. k \in 1 .. n /\ k \in DOMAIN out
        BY <1>8, <3>2
      <4>2. \E x \in Int, y \in Words, z \in BOOLEAN :
              /\ out[k] = [s |-> Sentence(x, y), stored |-> z]
              /\ z => FirstMatch(x, y)
        BY <4>1 DEF RkInv, PrintInv
      <4>3. out'[k] = out[k]
        BY <1>10, <4>1
      <4> QED
        BY <1>3, <4>2, <4>3
    <3> QED
      BY <3>1, <3>2
  <2>3. DOMAIN out' = 1 .. n + 1
    BY <1>10
  <2>4. PrintInv'
    BY <2>2, <2>3 DEF PrintInv
  <2>5. Len(out') \in Nat /\ out' = [k \in 1 .. Len(out') |-> out'[k]]
    BY <1>8, <1>10
  <2> QED
    BY <1>1, <1>3, <1>4, <1>7, <2>4, <2>5 DEF RkInv
<1> QED
  BY <1>9, <1>10, OutputGrows

\* The invariant of rkgrep, for every choice of algorithm, every file and every
\* content of the memory behind it, on all of its error paths.
THEOREM RkInvariant == RkSpec => []RkInv
<1>1. ASSUME RkInv, [RkNext]_rkVars PROVE RkInv'
  <2>1. CASE UNCHANGED rkVars
    <3>1. UNCHANGED <<doc, out>>
      BY <2>1 DEF rkVars
    <3>2. PrintInv' /\ (Len(out) \in Nat /\ out = [k \in 1 .. Len(out) |-> out[k]])'
      BY <1>1, <3>1, PrintedStays
    <3>3. /\ Loaded' = Loaded /\ strlen' = strlen
          /\ \A a, b : Text(a, b)' = Text(a, b)
          /\ \A pos, q : FirstMatch(pos, q)' = FirstMatch(pos, q)
      BY <3>1, Frozen
    <3>4. /\ pc' = pc /\ which_algo' = which_algo /\ patterns' = patterns /\ file' = file
          /\ mem' = mem /\ bf' = bf /\ i' = i /\ first_match_ind' = first_match_ind
          /\ stored' = stored /\ searches' = searches /\ out' = out
      BY <2>1 DEF rkVars, doc, found
    <3>5. FilterInv' = FilterInv
      BY <3>3, <3>4 DEF FilterInv
    <3>6. FirstMatch(first_match_ind, patterns[i])' <=> FirstMatch(first_match_ind, patterns[i])
      BY <3>1, <3>4, Frozen DEF FirstMatch
    <3>7. StageInv'
      BY <1>1, <3>3, <3>4, <3>5, <3>6 DEF RkInv, StageInv
    <3> QED
      BY <1>1, <3>2, <3>3, <3>4, <3>7 DEF RkInv
  <2>2. CASE Option
    BY <1>1, <2>2, OptionKeeps
  <2>3. CASE SplitPatterns
    BY <1>1, <2>3, SplitKeeps
  <2>4. CASE Usage \/ OpenFails \/ ReadFails \/ NotAscii \/ PrintCrashes
    BY <1>1, <2>4, EndKeeps DEF Usage, OpenFails, ReadFails, NotAscii, PrintCrashes
  <2>5. CASE ReadFile
    BY <1>1, <2>5, ReadKeeps
  <2>6. CASE CreateBloom
    BY <1>1, <2>6, BloomKeeps
  <2>7. CASE Search
    BY <1>1, <2>7, SearchKeeps
  <2>8. CASE print_matched_sentence
    BY <1>1, <2>8, PrintKeeps
  <2> QED
    BY <1>1, <2>1, <2>2, <2>3, <2>4, <2>5, <2>6, <2>7, <2>8 DEF RkNext
<1> QED
  BY <1>1, RkInitHolds, PTL DEF RkSpec

\* print_matched_sentence leaves its buffer exactly in the cases that the property
\* lists, whatever lies in memory behind the file.
THEOREM RkOverreadsExactly == RkSpec => []OverreadsExactly
<1>1. RkInv => OverreadsExactly
  <2> SUFFICES ASSUME RkInv, NEW k \in DOMAIN out, out[k].stored
               PROVE  LET e    == out[k].s
                          end  == e.pos + Len(e.p)
                          last == Byt(Len(file))
                      IN  e.over <=>
                            \/ end > Len(file)
                            \/ /\ \A j \in end + 1 .. Len(file) : file[j] # NL
                               /\ last \notin {NUL, NL} \/ (last = NUL /\ end = Len(file))
    BY DEF OverreadsExactly
  <2>1. PICK pos \in Int, p \in Words, b \in BOOLEAN :
          out[k] = [s |-> Sentence(pos, p), stored |-> b] /\ (b => FirstMatch(pos, p))
    BY DEF RkInv, PrintInv
  <2>2. FirstMatch(pos, p) /\ out[k].s = Sentence(pos, p)
    BY <2>1
  <2>3. Loaded
    BY DEF RkInv
  <2>4. MemoryIs
    BY <2>3, LoadedMemory
  <2>5. Sentence(pos, p).pos = pos /\ Sentence(pos, p).p = p
    BY DEF Sentence
  <2>6. pos \in Occurrences(p, Document)
    BY <2>2 DEF FirstMatch
  <2> QED
    BY <2>2, <2>4, <2>5, <2>6, SentenceOver
<1> QED
  BY <1>1, RkInvariant, PTL

\* No pattern holds a newline; the arguments are searched for line by line.
LinePatterns == \A arg \in Args : \A k \in DOMAIN arg : arg[k] # NL

\* A sentence printed from the buffer alone is the line of the first match with
\* exactly the pattern in red.
THEOREM RkPrintsMatchedLine ==
    ASSUME LinePatterns
    PROVE  RkSpec => []PrintsMatchedLine
<1>1. RkInv => PrintsMatchedLine
  <2> SUFFICES ASSUME RkInv, NEW k \in DOMAIN out, out[k].stored, ~out[k].s.over
               PROVE  GoodSentence(out[k].s)
    BY DEF PrintsMatchedLine, GoodSentence
  <2>1. PICK pos \in Int, p \in Words, b \in BOOLEAN :
          out[k] = [s |-> Sentence(pos, p), stored |-> b] /\ (b => FirstMatch(pos, p))
    BY DEF RkInv, PrintInv
  <2>2. FirstMatch(pos, p) /\ out[k].s = Sentence(pos, p)
    BY <2>1
  <2>3. Loaded
    BY DEF RkInv
  <2>4. MemoryIs
    BY <2>3, LoadedMemory
  <2>5. NL \notin ArgChars
    BY DEF LinePatterns, ArgChars
  <2>6. ~Sentence(pos, p).over
    BY <2>2
  <2>7. GoodSentence(Sentence(pos, p))
    BY <2>2, <2>4, <2>5, <2>6, SentenceGood
  <2> QED
    BY <2>2, <2>7
<1> QED
  BY <1>1, RkInvariant, PTL

\* What lies in memory behind the file holds no byte that is a negative char.  (The
\* rolled hash of a window with such bytes can be PRIME more than its hash.)
AsciiTails == \A t \in Tails : \A k \in DOMAIN t : t[k] >= 0

\* The document then holds no such byte either.
LEMMA DocumentBytes ==
    ASSUME Loaded, AsciiTails
    PROVE  \A k \in 0 .. strlen - 1 : Byt(k) \in Nat
<1>1. PICK tail \in Tails : mem = file \o tail
  BY DEF Loaded
<1>2. file \in Seq(Int) /\ tail \in Seq(Int)
  BY RkgrepAssumption DEF Loaded
<1> DEFINE F == Len(file)  T == Len(tail)
<1>3. F \in Nat /\ T \in Nat /\ DOMAIN tail = 1 .. T /\ DOMAIN file = 1 .. F
  BY <1>2, LenProperties
<1>4. /\ mem \in Seq(Int) /\ Len(mem) = F + T
      /\ \A k \in 1 .. F + T : mem[k] = IF k <= F THEN file[k] ELSE tail[k - F]
  BY <1>1, <1>2, ConcatProperties
<1>5. \A k \in 1 .. F : file[k] \in Nat
  <2>1. \A k \in 1 .. F : file[k] \in Int /\ file[k] > 0
    BY <1>2, <1>3, ElementOfSeq DEF Loaded, Ascii
  <2> QED
    BY <2>1
<1>6. \A k \in 1 .. T : tail[k] \in Nat
  <2>1. \A k \in 1 .. T : tail[k] \in Int /\ tail[k] >= 0
    BY <1>2, <1>3, ElementOfSeq DEF AsciiTails
  <2> QED
    BY <2>1
<1>7. MemoryIs
  BY LoadedMemory
<1>8. /\ strlen \in Nat /\ strlen <= Len(mem) - 1
      /\ \A k \in 0 .. Len(mem) - 1 : Byt(k) = mem[k + 1]
  BY <1>7 DEF MemoryIs
<1> HIDE DEF F, T
<1> SUFFICES ASSUME NEW k \in 0 .. strlen - 1 PROVE Byt(k) \in Nat
  OBVIOUS
<1>9. k \in 0 .. Len(mem) - 1 /\ k + 1 \in 1 .. F + T
  BY <1>3, <1>4, <1>8
<1>10. Byt(k) = IF k + 1 <= F THEN file[k + 1] ELSE tail[(k + 1) - F]
  BY <1>4, <1>8, <1>9
<1>11. CASE k + 1 <= F
  <2>1. k + 1 \in 1 .. F
    BY <1>9, <1>11, <1>3
  <2> QED
    BY <1>5, <1>10, <1>11, <2>1
<1>12. CASE ~(k + 1 <= F)
  <2>1. (k + 1) - F \in 1 .. T
    BY <1>9, <1>12, <1>3
  <2> QED
    BY <1>6, <1>10, <1>12, <2>1
<1> QED
  BY <1>11, <1>12

\* The bytes that rk_create_doc_bloom is given.
LEMMA ScannedText ==
    ASSUME MemoryIs, NEW m \in Nat
    PROVE  /\ Text(0, Len(mem) + m) \in Seq(Int) /\ Len(Text(0, Len(mem) + m)) = Len(mem) + m
           /\ \A k \in 1 .. Len(mem) + m : Text(0, Len(mem) + m)[k] = Byt(k - 1)
<1> DEFINE n == Len(mem) + m
           t == Text(0, n)
<1>1. n \in Nat
  BY DEF MemoryIs
<1>2. ASSUME NEW k \in 1 .. n PROVE Byt(k - 1) \in Int
  <2>1. k - 1 \in Nat
    BY <1>1
  <2> QED
    BY <2>1 DEF MemoryIs
<1> HIDE DEF n
<1>3. n - 0 = n /\ \A k \in 1 .. n : 0 + k - 1 = k - 1
  BY <1>1
<1>4. t = [k \in 1 .. n |-> Byt(k - 1)]
  BY <1>3 DEF Text
<1>5. t \in [1 .. n -> Int] /\ \A k \in 1 .. n : t[k] = Byt(k - 1)
  BY <1>2, <1>4
<1> HIDE DEF t
<1>6. t \in Seq(Int) /\ Len(t) = n
  BY <1>1, <1>5
<1> QED
  BY <1>5, <1>6 DEF t, n

\* The filter hides no match: a pattern that occurs in the document is in it.
LEMMA NoMatchHidden ==
    ASSUME Loaded, AsciiTails, FilterInv, patterns \in Seq(Words), NEW j \in 1 .. Len(patterns),
           NEW pos \in Occurrences(patterns[j], Document)
    PROVE  bloom_query(bf, rkhash_init(patterns[j]))
<1> DEFINE p == patterns[j]
           m == Len(patterns[1])
           text == Text(0, Len(mem) + m)
           n == strlen
<1>1. MemoryIs
  BY LoadedMemory
<1>2. p \in Words
  BY ElementOfSeq
<1>3. Len(p) = m /\ bf = rk_create_doc_bloom(m, n, text, n * 8)
  BY DEF FilterInv
<1>4. /\ m \in Nat \ {0} /\ pos \in Nat /\ pos + m <= n
      /\ \A k \in 1 .. m : Byt(pos + k - 1) = p[k]
  BY <1>1, <1>2, <1>3, MatchBytes
<1>5. n \in Nat /\ n <= Len(mem) - 1 /\ Len(mem) \in Nat
  BY <1>1 DEF MemoryIs
<1>6. text \in Seq(Int) /\ Len(text) = Len(mem) + m /\ \A k \in 1 .. Len(mem) + m : text[k] = Byt(k - 1)
  BY <1>1, <1>4, ScannedText
<1>7. \A k \in 0 .. n - 1 : Byt(k) \in Nat
  BY DocumentBytes
<1>8. p \in Seq(Int) /\ p = [k \in 1 .. Len(p) |-> p[k]]
  <2>1. p \in Seq(Int)
    BY <1>2 DEF Words, ArgChars
  <2> HIDE DEF p
  <2>2. p = [k \in 1 .. Len(p) |-> p[k]]
    BY <2>1
  <2> QED
    BY <2>1, <2>2
<1> HIDE DEF p, m, text, n
<1>9. ASSUME NEW k \in 1 .. n PROVE text[k] \in Nat
  <2>1. k \in 1 .. Len(mem) + m /\ k - 1 \in 0 .. n - 1
    BY <1>4, <1>5
  <2> QED
    BY <1>6, <1>7, <2>1
<1>10. m <= n /\ n <= Len(text) /\ pos \in 0 .. n - m
  BY <1>4, <1>5, <1>6
<1>11. Windows(m, n, text, rkhash_h(m)) =
         [w \in 0 .. n - m |-> rkhash_init(SubSeq(text, w + 1, w + m))]
  BY <1>4, <1>5, <1>6, <1>9, <1>10, WindowHashes
<1>12. SubSeq(text, pos + 1, pos + m) = p
  <2> DEFINE s == SubSeq(text, pos + 1, pos + m)
  <2>1. s \in Seq(Nat) /\ Len(s) = m /\ \A k \in 1 .. m : s[k] = text[pos + k]
    BY <1>4, <1>5, <1>6, <1>9, <1>10, WindowType
  <2> HIDE DEF s
  <2>2. ASSUME NEW k \in 1 .. m PROVE s[k] = p[k]
    <3>1. pos + k \in 1 .. Len(mem) + m /\ (pos + k) - 1 = pos + k - 1
      BY <1>4, <1>5
    <3> QED
      BY <1>4, <1>6, <2>1, <3>1
  <2>3. s = [k \in 1 .. m |-> s[k]]
    BY <2>1
  <2>4. s = p
    BY <1>3, <1>8, <2>2, <2>3
  <2> QED
    BY <2>4 DEF s
<1>13. rkhash_init(p) \in Range(Windows(m, n, text, rkhash_h(m)))
  <2> DEFINE f == [w \in 0 .. n - m |-> rkhash_init(SubSeq(text, w + 1, w + m))]
  <2>1. f[pos] = rkhash_init(p) /\ pos \in DOMAIN f
    BY <1>10, <1>12
  <2> HIDE DEF f
  <2>2. rkhash_init(p) \in Range(f)
    BY <2>1 DEF Range
  <2> QED
    BY <1>11, <2>2 DEF f
<1>14. bloom_query(bf, rkhash_init(p))
  BY <1>3, <1>13, FilterHolds
<1> QED
  BY <1>14 DEF p

\* Memory that was read is not empty: something follows the file.
LEMMA LoadedNotEmpty ==
    ASSUME Loaded
    PROVE  mem # <<>>
<1>1. strlen \in Nat /\ strlen <= Len(mem) - 1 /\ Len(mem) \in Nat
  BY LoadedMemory DEF MemoryIs
<1>2. Len(mem) # 0
  BY <1>1
<1> QED
  BY <1>2

\* Each result is the number of positions of its pattern.
SearchInv ==
    \A k \in 1 .. Len(searches) : searches[k] = Cardinality(Occurrences(patterns[k], Document))

\* One search counts them, whether or not it goes through the filter.
LEMMA SearchCounts ==
    ASSUME AsciiTails, RkInv, Search
    PROVE  n_matches' = Cardinality(Occurrences(patterns[i], Document))
<1> DEFINE p == patterns[i]
           at == Occurrences(p, Document)
<1>1. /\ Loaded /\ i \in 1 .. Len(patterns) /\ patterns \in Seq(Words)
      /\ which_algo = "rkbloom" => FilterInv
  BY DEF Search, RkInv, StageInv
<1>2. CASE substring_match(p)
  BY <1>2 DEF substring_match, Document
<1>3. CASE which_algo = "rkbloom" /\ ~bloom_query(bf, rkhash_init(p)) /\ n_matches' = 0
  <2>1. at = {}
    BY <1>1, <1>3, NoMatchHidden
  <2>2. Cardinality(at) = 0
    BY <2>1, FS_EmptySet
  <2> QED
    BY <1>3, <2>2
<1> QED
  BY <1>2, <1>3 DEF Search, substring_match_using_bloom

\* The filter never hides a match: the three algorithms report the same numbers, the
\* true ones, and a run that returns 0 has looked for every pattern.
THEOREM RkAlgorithmsAgree ==
    ASSUME AsciiTails
    PROVE  RkSpec => []AlgorithmsAgree
<1>1. RkInit => SearchInv
  <2> SUFFICES ASSUME RkInit PROVE SearchInv
    OBVIOUS
  <2>1. searches = <<>>
    BY DEF RkInit
  <2>2. Len(searches) = 0
    BY <2>1
  <2> QED
    BY <2>2 DEF SearchInv
<1>2. ASSUME RkInv, RkInv', SearchInv, [RkNext]_rkVars PROVE SearchInv'
  <2>1. CASE searches = <<>> /\ searches' = searches
    <3>1. Len(searches') = 0
      BY <2>1
    <3> QED
      BY <3>1 DEF SearchInv
  <2>2. CASE UNCHANGED <<doc, patterns, searches>>
    <3>1. Document' = Document /\ patterns' = patterns /\ searches' = searches
      BY <2>2, Frozen
    <3> QED
      BY <1>2, <3>1 DEF SearchInv, Occurrences
  <2>3. CASE Search
    <3>1. Document' = Document /\ patterns' = patterns
      BY <2>3, Frozen DEF Search
    <3>2. /\ searches \in Seq(Int) /\ Len(searches) = i - 1 /\ i \in Nat
          /\ searches' = Append(searches, n_matches') /\ searches' \in Seq(Int) /\ Len(searches') = i
      BY <1>2, <2>3 DEF RkInv, StageInv, Search
    <3>3. n_matches' = Cardinality(Occurrences(patterns[i], Document))
      BY <1>2, <2>3, SearchCounts
    <3>4. ASSUME NEW k \in 1 .. i
          PROVE  searches'[k] = Cardinality(Occurrences(patterns[k], Document))
      <4>1. CASE k = i
        <5>1. searches'[i] = n_matches'
          BY <3>2, <4>1
        <5> QED
          BY <3>3, <4>1, <5>1
      <4>2. CASE k # i
        <5>1. k \in 1 .. Len(searches)
          BY <3>2, <4>2
        <5>2. searches'[k] = searches[k]
          BY <3>2, <5>1
        <5> QED
          BY <1>2, <5>1, <5>2 DEF SearchInv
      <4> QED
        BY <4>1, <4>2
    <3> QED
      BY <3>1, <3>2, <3>4 DEF SearchInv, Occurrences
  <2>4. CASE SplitPatterns \/ ReadFile
    <3>1. mem = <<>> /\ searches' = searches
      BY <1>2, <2>4 DEF SplitPatterns, ReadFile, RkInv, StageInv
    <3>2. searches = <<>>
      BY <1>2, <3>1, LoadedNotEmpty DEF RkInv
    <3> QED
      BY <2>1, <3>1, <3>2
  <2>5. CASE UNCHANGED rkVars
    BY <2>2, <2>5 DEF rkVars
  <2>6. CASE Usage \/ OpenFails \/ ReadFails \/ NotAscii \/ PrintCrashes
    BY <2>2, <2>6 DEF Usage, OpenFails, ReadFails, NotAscii, PrintCrashes, End
  <2>7. CASE Option \/ CreateBloom \/ print_matched_sentence
    BY <2>2, <2>7 DEF Option, CreateBloom, print_matched_sentence
  <2> QED
    BY <1>2, <2>3, <2>4, <2>5, <2>6, <2>7 DEF RkNext
<1>3. RkInv /\ SearchInv => AlgorithmsAgree
  <2> SUFFICES ASSUME RkInv, SearchInv PROVE AlgorithmsAgree
    OBVIOUS
  <2>1. DOMAIN searches = 1 .. Len(searches)
    BY LenProperties DEF RkInv
  <2>2. pc = "exit0" => Ascii(file) /\ Len(searches) = Len(patterns)
    BY DEF RkInv, StageInv, Loaded
  <2> QED
    BY <2>1, <2>2 DEF SearchInv, AlgorithmsAgree, Document
<1> QED
  BY <1>1, <1>2, <1>3, RkInvariant, PTL DEF RkSpec

=============================================================================
