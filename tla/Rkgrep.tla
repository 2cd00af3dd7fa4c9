------------------------------- MODULE Rkgrep -------------------------------
(***************************************************************************)
(* rklab/rkgrep_main.c: the command line, read_ascii_file, the search for  *)
(* each pattern and the printing of the matched sentences.  The matchers   *)
(* are left to the student and modelled by how main uses them.             *)
(*                                                                         *)
(* Characters are their codes; one that is not ASCII is negative.  Memory  *)
(* after the characters of the file is what was there before: the first    *)
(* byte belongs to the buffer, the others to something else.               *)
(***************************************************************************)
EXTENDS Bloom

CONSTANTS
    Args,           \* what the user may give as pattern1|pattern2|...
    Files,          \* contents of files
    Tails,          \* what may follow the buffered characters in memory
    Garbage,        \* what a stack slot may hold before it is written
    MAX_PATTERNS

NUL == 0
NL == 10
BAR == 124

Algos == {"naive", "rk", "rkbloom"}

ASSUME RkgrepAssumption ==
    /\ MAX_PATTERNS \in Nat \ {0}
    /\ \A arg \in Args : arg \in Seq(Int \ {NUL})
    /\ \A f \in Files : f \in Seq(Int)
    /\ \A t \in Tails : t \in Seq(Int) /\ \E k \in DOMAIN t : t[k] = NUL
    /\ Garbage \subseteq Int

VARIABLES
    pc,             \* getopt, read, bloom, search, print, or how the process ended
    which_algo,
    patterns,
    file,           \* the contents of the file
    mem,            \* memory from doc on, <<>> before it is read
    bf,
    i,              \* the pattern the loop of main is at
    first_match_ind,
    n_matches,
    \* Auxiliary:
    stored,         \* whether the matcher wrote first_match_ind
    searches,       \* the results of the matcher, one per pattern
    out             \* what print_matched_sentence printed

doc == <<file, mem>>
found == <<first_match_ind, n_matches, stored>>
rkVars == <<pc, which_algo, patterns, doc, bf, i, found, searches, out>>

RkInit ==
    /\ pc = "getopt"
    /\ which_algo = "rk"
    /\ patterns = <<>>
    /\ file \in Files /\ mem = <<>>
    /\ bf = bloom_init(0)
    /\ i = 1
    /\ first_match_ind \in Garbage /\ n_matches = 0 /\ stored = FALSE
    /\ searches = <<>> /\ out = <<>>

End(how) ==
    /\ pc' = how
    /\ UNCHANGED <<which_algo, patterns, doc, bf, i, found, searches, out>>

-----------------------------------------------------------------------------
(* The command line.                                                       *)

\* -a, given any number of times.
Option ==
    /\ pc = "getopt"
    /\ which_algo' \in Algos
    /\ UNCHANGED <<pc, patterns, doc, bf, i, found, searches, out>>

\* An unknown option or algorithm, or no argument.
Usage == pc = "getopt" /\ End("exit1")

\* The runs of characters other than '|'.
strtok(arg) ==
    LET tokens[k \in 0 .. Len(arg)] ==
            IF k = 0 THEN <<>>
            ELSE LET before == tokens[k - 1]
                 IN  IF arg[k] = BAR THEN before
                     ELSE IF k = 1 \/ arg[k - 1] = BAR THEN Append(before, <<arg[k]>>)
                     ELSE [before EXCEPT ![Len(before)] = Append(@, arg[k])]
    IN  tokens[Len(arg)]

\* The assert comes after the store: the last entry of the array is never used.
SplitPatterns ==
    /\ pc = "getopt"
    /\ \E arg \in Args :
           LET p == strtok(arg)
           IN  /\ pc' = IF Len(p) >= MAX_PATTERNS THEN "abort"
                        ELSE IF p = <<>> THEN "exit1" ELSE "read"
               /\ patterns' = IF Len(p) >= MAX_PATTERNS THEN patterns ELSE p
    /\ UNCHANGED <<which_algo, doc, bf, i, found, searches, out>>

-----------------------------------------------------------------------------
(* read_ascii_file.                                                        *)

Ascii(s) == \A k \in DOMAIN s : s[k] > 0

\* open, fstat or malloc fails.
OpenFails == pc = "read" /\ End("exit1")

\* read fails or is short: doc is NULL where the zero is to be written.
ReadFails == pc = "read" /\ End("crash")

\* A byte that is not ASCII sets doc to NULL; the loop or the write of the zero
\* then uses it.
NotAscii == pc = "read" /\ ~Ascii(file) /\ End("crash")

\* The whole file is in the buffer, and nothing is written after it.
ReadFile ==
    /\ pc = "read"
    /\ Ascii(file)
    /\ \E tail \in Tails : mem' = file \o tail
    /\ pc' = IF which_algo = "rkbloom" THEN "bloom" ELSE "search"
    /\ UNCHANGED <<which_algo, patterns, file, bf, i, found, searches, out>>

-----------------------------------------------------------------------------
(* The search.                                                             *)

Byt(k) == IF k < Len(mem) THEN mem[k + 1] ELSE NUL

\* The bytes from doc + a up to doc + b.
Text(a, b) == [k \in 1 .. b - a |-> Byt(a + k - 1)]

strlen == Min({k \in 0 .. Len(mem) - 1 : Byt(k) = NUL})

\* One filter for all patterns, which must have the same length.  A filter of
\* no bits is divided by.
CreateBloom ==
    LET m == Len(patterns[1])
    IN  /\ pc = "bloom"
        /\ IF \E k \in DOMAIN patterns : Len(patterns[k]) # m
           THEN pc' = "abort" /\ UNCHANGED bf
           ELSE IF strlen = 0 THEN pc' = "crash" /\ UNCHANGED bf
           ELSE /\ pc' = "search"
                /\ bf' = rk_create_doc_bloom(m, strlen, Text(0, Len(mem) + m), strlen * 8)
        /\ UNCHANGED <<which_algo, patterns, doc, i, found, searches, out>>

\* The matchers: the number of positions, and the first of them.  Where there is
\* none, some store -1 and some, as the stubs, store nothing.
substring_match(p) ==
    LET at == Occurrences(p, SubSeq(mem, 1, strlen))
    IN  /\ n_matches' = Cardinality(at)
        /\ IF at # {} THEN first_match_ind' = Min(at) /\ stored' = TRUE
           ELSE \/ first_match_ind' = -1 /\ stored' = TRUE
                \/ UNCHANGED first_match_ind /\ stored' = FALSE

\* A pattern that is not in the filter is not looked for.
substring_match_using_bloom(p) ==
    IF bloom_query(bf, rkhash_init(p)) THEN substring_match(p)
    ELSE n_matches' = 0 /\ UNCHANGED first_match_ind /\ stored' = FALSE

Search ==
    LET p == patterns[i]
    IN  /\ pc = "search"
        /\ IF which_algo = "rkbloom" THEN substring_match_using_bloom(p) ELSE substring_match(p)
        /\ searches' = Append(searches, n_matches')
        /\ pc' = "print"
        /\ UNCHANGED <<which_algo, patterns, doc, bf, i, out>>

-----------------------------------------------------------------------------
(* print_matched_sentence: what is printed before, in and after the red.   *)

\* Mutant: the character itself is tested, not the one before it.
StartOf_Itself(pos) == Max({0} \cup {k \in 1 .. pos : Byt(k) = NL})

StartOf(pos) == Max({0} \cup {k \in 1 .. pos : Byt(k - 1) = NL})

\* How far document and pattern agree.  If they do up to the zero of both the
\* loop goes on after it.
RedLength(pos, p) ==
    LET differ == {k \in 0 .. Len(p) : Byt(pos + k) # (p \o <<NUL>>)[k + 1]}
    IN  IF differ = {} THEN Len(p) + 1 ELSE Min(differ)

\* Mutant: only a newline ends the sentence.
RestEnd_Newline(k) == Min({Len(mem) + k} \cup {e \in k .. Len(mem) + k : Byt(e) = NL})

RestEnd(k) == Min({e \in k .. Len(mem) + k : Byt(e) \in {NL, NUL}})

\* The last byte of the buffer is at doc + st_size.
Sentence(pos, p) ==
    LET red == RedLength(pos, p)
        end == RestEnd(pos + red)
    IN  IF pos + red > Len(file) \/ end > Len(file)
        THEN [p |-> p, pos |-> pos, over |-> TRUE, parts |-> <<>>]
        ELSE [p |-> p, pos |-> pos, over |-> FALSE,
              parts |-> <<Text(StartOf(pos), pos), Text(pos, pos + red), Text(pos + red, end)>>]

Printed == IF first_match_ind < 0 THEN <<>> ELSE <<Sentence(first_match_ind, patterns[i])>>

\* Reading past the buffer may print anything, or end the process.
PrintCrashes ==
    /\ pc = "print"
    /\ \E k \in DOMAIN Printed : Printed[k].over
    /\ End("crash")

\* After the last pattern the document is freed and main returns.
print_matched_sentence ==
    /\ pc = "print"
    /\ out' = out \o [k \in DOMAIN Printed |-> [s |-> Printed[k], stored |-> stored]]
    /\ IF i < Len(patterns) THEN i' = i + 1 /\ pc' = "search" ELSE pc' = "exit0" /\ UNCHANGED i
    /\ UNCHANGED <<which_algo, patterns, doc, bf, found, searches>>

RkNext ==
    \/ Option \/ Usage \/ SplitPatterns
    \/ OpenFails \/ ReadFails \/ NotAscii \/ ReadFile
    \/ CreateBloom \/ Search
    \/ PrintCrashes \/ print_matched_sentence

RkSpec == RkInit /\ [][RkNext]_rkVars

-----------------------------------------------------------------------------
(* Properties.                                                             *)

\* naive_substring_match: "Both its arguments "pattern" and "doc" are null-terminated
\* C strings": the document that main hands to a matcher ends with a zero.
DocIsTerminated == mem # <<>> => Byt(Len(file)) = NUL

\* The filter never hides a match: whichever algorithm is chosen, the number of
\* matches is the number of positions where the pattern is in the document, and a
\* run that returns 0 has read a file of ASCII characters and looked for every
\* pattern in it.  The naive and the Rabin-Karp matcher are taken to find every
\* occurrence (substring_match); the count is a statement about the filter.
AlgorithmsAgree ==
    /\ \A k \in DOMAIN searches :
           searches[k] = Cardinality(Occurrences(patterns[k], SubSeq(mem, 1, strlen)))
    /\ pc = "exit0" => Ascii(file) /\ Len(searches) = Len(patterns)

IsLine(s, a, b) ==
    /\ \A k \in a + 1 .. b : s[k] # NL
    /\ a = 0 \/ s[a] = NL
    /\ b = Len(s) \/ s[b + 1] = NL

\* A sentence that is printed from the buffer alone, for an index that the matcher
\* stored, is the line of the file that holds the first match, with exactly the
\* pattern in red, whatever byte follows the file in memory.
PrintsMatchedLine ==
    \A k \in DOMAIN out :
        LET e == out[k].s
        IN  out[k].stored /\ ~e.over =>
                LET a == e.pos - Len(e.parts[1])
                    b == e.pos + Len(e.parts[2]) + Len(e.parts[3])
                IN  /\ e.pos = Min(Occurrences(e.p, file))
                    /\ e.parts[2] = e.p
                    /\ e.parts[1] \o e.parts[2] \o e.parts[3] = SubSeq(file, a + 1, b)
                    /\ IsLine(file, a, b)

\* print_matched_sentence leaves the buffer exactly when the match itself does, or
\* no newline follows the match and either the byte after the file is a character
\* or the match is the end of a document that happens to be terminated.
OverreadsExactly ==
    \A k \in DOMAIN out :
        LET e    == out[k].s
            end  == e.pos + Len(e.p)
            last == Byt(Len(file))
        IN  out[k].stored =>
                (e.over <=> \/ end > Len(file)
                            \/ /\ \A j \in end + 1 .. Len(file) : file[j] # NL
                               /\ last \notin {NUL, NL} \/ (last = NUL /\ end = Len(file)))

=============================================================================
