------------------------------ MODULE GradeLib ------------------------------
(***************************************************************************)
(* clab/mini/gradelib.py, and grade-lab, which registers its tests: the    *)
(* grader is started again and again, with or without filters, while the   *)
(* programs it grades change, and may be interrupted at the keyboard.      *)
(*                                                                         *)
(* A line of output is the set of the regular expressions that match it.   *)
(***************************************************************************)
EXTENDS Integers, SequencesExt, FiniteSetsExt

CONSTANTS
    TESTS,      \* in the order of registration: [kind, points, parent, regexps, no]
    Outputs     \* what a graded program may print

\* A "run" test runs its program; a "match" test looks at the output; a "part"
\* is the show_part that end_part registers.
ASSUME GradeLibAssumption ==
    /\ Len(TESTS) \in Nat \ {0} /\ DOMAIN TESTS = 1 .. Len(TESTS)
    /\ \A t \in DOMAIN TESTS :
           /\ TESTS[t].kind \in {"run", "match", "part"}
           /\ TESTS[t].points \in Nat

\* grade-lab registers a program's test, then the tests of its output.
ASSUME RegistrationAssumption ==
    \A t \in DOMAIN TESTS :
        /\ TESTS[t].kind \in {"run", "part"} => TESTS[t].parent = 0
        /\ TESTS[t].kind = "match" =>
               /\ TESTS[t].parent \in 1 .. t - 1
               /\ TESTS[TESTS[t].parent].kind = "run"
               /\ \A u \in TESTS[t].parent + 1 .. t : TESTS[u].kind # "run"

VARIABLES
    phase,          \* idle (no grader runs), make, tests, exited, traceback
    limited,        \* whether there are filter strings
    limit,          \* the tests that one of them matches
    limit_inverse,  \* --no
    at,             \* the test that the loop of run_tests is at
    calls,          \* the run_test calls in progress: a test, above it its parent
    complete,       \* run_test.complete
    on_finish,      \* the tests that have their save_on_finish registered
    CURRENT_TEST,   \* 0 for None
    proc_output,    \* of the runner: who ran the program, and what it printed
    TOTAL, POSSIBLE, PART_TOTAL, PART_POSSIBLE,
    status,         \* the exit status
    logs,           \* the tests whose .out file is on the disk
    \* Auxiliary:
    outcome,        \* test -> how it ended in this invocation of the grader
    judged,         \* match test -> whose output it looked at
    history,        \* test -> how it ended when it last did
    cut,            \* the tests cut off between their verdict and their log file
    interrupted     \* whether an interrupt or an error ended this invocation

score == <<TOTAL, POSSIBLE>>
parts == <<PART_TOTAL, PART_POSSIBLE>>
options == <<limited, limit, limit_inverse>>
observed == <<outcome, judged, history, cut, interrupted>>
gradeVars == <<phase, options, at, calls, complete, on_finish, CURRENT_TEST,
               proc_output, score, parts, status, logs, observed>>

Tests == DOMAIN TESTS

Nothing == [by |-> 0, lines |-> <<>>]

-----------------------------------------------------------------------------
(* One invocation.                                                         *)

\* What a new process starts from; the log files stay.
Fresh ==
    /\ at' = 1 /\ calls' = <<>>
    /\ complete' = {} /\ on_finish' = {}
    /\ CURRENT_TEST' = 0
    /\ proc_output' = Nothing
    /\ TOTAL' = 0 /\ POSSIBLE' = 0 /\ PART_TOTAL' = 0 /\ PART_POSSIBLE' = 0
    /\ outcome' = [t \in Tests |-> "none"]
    /\ judged' = [t \in Tests |-> 0]
    /\ interrupted' = FALSE

GradeInit ==
    /\ phase = "idle"
    /\ limited = FALSE /\ limit = {} /\ limit_inverse = FALSE
    /\ at = 1 /\ calls = <<>>
    /\ complete = {} /\ on_finish = {}
    /\ CURRENT_TEST = 0
    /\ proc_output = Nothing
    /\ TOTAL = 0 /\ POSSIBLE = 0 /\ PART_TOTAL = 0 /\ PART_POSSIBLE = 0
    /\ status = 0
    /\ logs = {}
    /\ outcome = [t \in Tests |-> "none"]
    /\ judged = [t \in Tests |-> 0]
    /\ history = [t \in Tests |-> "none"]
    /\ cut = {}
    /\ interrupted = FALSE

\* The command line is parsed.  A part's title is empty: no filter matches it but
\* the empty one, which matches every title.
Invoke ==
    /\ phase \in {"idle", "exited", "traceback"}
    /\ phase' = "make"
    /\ \/ limited' = FALSE /\ limit' = {}
       \/ /\ limited' = TRUE
          /\ limit' \in {Tests} \cup SUBSET {t \in Tests : TESTS[t].kind # "part"}
    /\ limit_inverse' \in BOOLEAN
    /\ Fresh
    /\ UNCHANGED <<status, logs, history, cut>>

make ==
    /\ phase = "make"
    /\ \/ phase' = "tests" /\ UNCHANGED status
       \/ phase' = "exited" /\ status' = 1
    /\ UNCHANGED <<options, at, calls, complete, on_finish, CURRENT_TEST, proc_output,
                   score, parts, logs, observed>>

should_run(t) == ~limited \/ ((t \in limit) # limit_inverse)

-----------------------------------------------------------------------------
(* run_test, the wrapper around a test function.                           *)

Top == Last(calls)
Label(pc) == calls' = [calls EXCEPT ![Len(calls)].pc = pc]
Caller == Front(calls)

\* Mutant: the loop does not go on from a test that the filters leave out.
NextTest_Stay ==
    /\ phase = "tests" /\ calls = <<>>
    /\ at <= Len(TESTS)
    /\ TESTS[at].kind # "part" \/ ~should_run(at)
    /\ at' = IF should_run(at) THEN at + 1 ELSE at
    /\ calls' = IF should_run(at) THEN <<[test |-> at, pc |-> "enter"]>> ELSE <<>>
    /\ UNCHANGED <<phase, options, complete, on_finish, CURRENT_TEST, proc_output, score,
                   parts, status, logs, observed>>

\* The loop of run_tests calls the next test, or passes over it.
NextTest ==
    /\ phase = "tests" /\ calls = <<>>
    /\ at <= Len(TESTS)
    /\ TESTS[at].kind # "part" \/ ~should_run(at)
    /\ at' = at + 1
    /\ calls' = IF should_run(at) THEN <<[test |-> at, pc |-> "enter"]>> ELSE <<>>
    /\ UNCHANGED <<phase, options, complete, on_finish, CURRENT_TEST, proc_output, score,
                   parts, status, logs, observed>>

show_part ==
    /\ phase = "tests" /\ calls = <<>>
    /\ at <= Len(TESTS)
    /\ TESTS[at].kind = "part" /\ should_run(at)
    /\ at' = at + 1
    /\ PART_TOTAL' = TOTAL /\ PART_POSSIBLE' = POSSIBLE
    /\ UNCHANGED <<phase, options, calls, complete, on_finish, CURRENT_TEST, proc_output,
                   score, status, logs, observed>>

In(pc) == phase = "tests" /\ calls # <<>> /\ Top.pc = pc

\* Mutant: the parent is not called first.
EnterTest_Late ==
    /\ In("enter")
    /\ IF Top.test \in complete THEN calls' = Caller ELSE Label("start")
    /\ complete' = complete \cup {Top.test}
    /\ UNCHANGED <<phase, options, at, on_finish, CURRENT_TEST, proc_output, score, parts,
                   status, logs, observed>>

\* A test that is complete returns; otherwise its parent is called first.
EnterTest ==
    /\ In("enter")
    /\ IF Top.test \in complete THEN calls' = Caller
       ELSE IF TESTS[Top.test].parent = 0 THEN Label("start")
       ELSE calls' = Append([calls EXCEPT ![Len(calls)].pc = "start"],
                            [test |-> TESTS[Top.test].parent, pc |-> "enter"])
    /\ complete' = complete \cup {Top.test}
    /\ UNCHANGED <<phase, options, at, on_finish, CURRENT_TEST, proc_output, score, parts,
                   status, logs, observed>>

StartTest ==
    /\ In("start")
    /\ CURRENT_TEST' = Top.test
    /\ Label("body")
    /\ UNCHANGED <<phase, options, at, complete, on_finish, proc_output, score, parts,
                   status, logs, observed>>

\* Runner.run_test waits for the end of the program, without a time limit.
RunProgram ==
    /\ In("body") /\ TESTS[Top.test].kind = "run"
    /\ \E lines \in Outputs : proc_output' = [by |-> Top.test, lines |-> lines]
    /\ Label("passed")
    /\ UNCHANGED <<phase, options, at, complete, on_finish, CURRENT_TEST, score, parts,
                   status, logs, observed>>

\* The program cannot be started (it is missing, or not executable): Popen raises
\* an OSError that nobody catches.
PopenFails ==
    /\ In("body") /\ TESTS[Top.test].kind = "run"
    /\ phase' = "traceback"
    /\ status' = 1
    /\ calls' = <<>>
    /\ interrupted' = TRUE
    /\ UNCHANGED <<options, at, complete, on_finish, CURRENT_TEST, proc_output, score,
                   parts, logs, outcome, judged, history, cut>>

\* Every regexp matches some line, and no line matches one of no.
assert_lines_match(lines, regexps, no) ==
    /\ \A r \in regexps : \E k \in DOMAIN lines : r \in lines[k]
    /\ \A k \in DOMAIN lines : lines[k] \cap no = {}

\* Runner.match on the most recent output.
match ==
    LET t  == Top.test
        ok == assert_lines_match(proc_output.lines, TESTS[t].regexps, TESTS[t].no)
    IN  /\ In("body") /\ TESTS[t].kind = "match"
        /\ on_finish' = on_finish \cup {CURRENT_TEST}
        /\ Label(IF ok THEN "passed" ELSE "failed")
        /\ judged' = [judged EXCEPT ![t] = proc_output.by]
        /\ UNCHANGED <<phase, options, at, complete, CURRENT_TEST, proc_output, score,
                       parts, status, logs, outcome, history, cut, interrupted>>

Verdict(t, how) ==
    /\ outcome' = [outcome EXCEPT ![t] = how]
    /\ history' = [history EXCEPT ![t] = how]

\* The points count as possible when the test function is back, with or without
\* an AssertionError.
CountPossible(fail) ==
    /\ In(IF fail THEN "failed" ELSE "passed")
    /\ POSSIBLE' = POSSIBLE + TESTS[Top.test].points
    /\ Label(IF fail THEN "count_fail" ELSE "count_pass")
    /\ Verdict(Top.test, IF fail THEN "fail" ELSE "pass")
    /\ UNCHANGED <<phase, options, at, complete, on_finish, CURRENT_TEST, proc_output,
                   TOTAL, parts, status, logs, judged, cut, interrupted>>

\* Mutant: what was possible is awarded, whether the test failed or not.
CountTotal_Always(fail) ==
    /\ In(IF fail THEN "count_fail" ELSE "count_pass")
    /\ TOTAL' = TOTAL + TESTS[Top.test].points
    /\ Label(IF fail THEN "finish_fail" ELSE "finish_pass")
    /\ UNCHANGED <<phase, options, at, complete, on_finish, CURRENT_TEST, proc_output,
                   POSSIBLE, parts, status, logs, observed>>

\* The verdict is printed; a test that did not fail gets its points.
CountTotal(fail) ==
    /\ In(IF fail THEN "count_fail" ELSE "count_pass")
    /\ TOTAL' = IF fail THEN TOTAL ELSE TOTAL + TESTS[Top.test].points
    /\ Label(IF fail THEN "finish_fail" ELSE "finish_pass")
    /\ UNCHANGED <<phase, options, at, complete, on_finish, CURRENT_TEST, proc_output,
                   POSSIBLE, parts, status, logs, observed>>

\* Mutant: the log of an earlier failure stays.
save_on_finish_Keep(fail) ==
    IF Top.test \notin on_finish THEN logs
    ELSE IF fail THEN logs \cup {CURRENT_TEST} ELSE logs

\* The callback writes the log of the current test, or removes an old one.
save_on_finish(fail) ==
    IF Top.test \notin on_finish THEN logs
    ELSE IF fail THEN logs \cup {CURRENT_TEST} ELSE logs \ {CURRENT_TEST}

\* The callbacks, then back to the caller.
FinishTest(fail) ==
    /\ In(IF fail THEN "finish_fail" ELSE "finish_pass")
    /\ logs' = save_on_finish(fail)
    /\ CURRENT_TEST' = 0
    /\ calls' = Caller
    /\ cut' = cut \ {Top.test}
    /\ UNCHANGED <<phase, options, at, complete, on_finish, proc_output, score, parts,
                   status, outcome, judged, history, interrupted>>

-----------------------------------------------------------------------------

\* The status of a grader that gets to the end of run_tests.
ExitStatus == IF TOTAL < POSSIBLE THEN 1 ELSE 0

Exit ==
    /\ phase = "tests" /\ calls = <<>>
    /\ at > Len(TESTS)
    /\ phase' = "exited"
    /\ status' = ExitStatus
    /\ UNCHANGED <<options, at, calls, complete, on_finish, CURRENT_TEST, proc_output,
                   score, parts, logs, observed>>

\* A KeyboardInterrupt leaves the loop and is passed over; while make runs it is
\* not caught.
Interrupt ==
    /\ phase \in {"make", "tests"}
    /\ phase' = IF phase = "make" THEN "traceback" ELSE "exited"
    /\ status' = IF phase = "make" THEN 1 ELSE ExitStatus
    /\ calls' = <<>>
    /\ cut' = IF calls # <<>> /\ outcome[Top.test] # "none" THEN cut \cup {Top.test} ELSE cut
    /\ interrupted' = TRUE
    /\ UNCHANGED <<options, at, complete, on_finish, CURRENT_TEST, proc_output, score,
                   parts, logs, outcome, judged, history>>

GraderStep ==
    \/ make \/ NextTest \/ show_part
    \/ EnterTest \/ StartTest \/ match
    \/ \E fail \in BOOLEAN : CountPossible(fail) \/ CountTotal(fail) \/ FinishTest(fail)
    \/ Exit

GradeNext == Invoke \/ GraderStep \/ RunProgram \/ PopenFails \/ Interrupt

\* A grader that runs gets the processor, and make ends; nobody has to start or
\* stop the grader, and a graded program need not end.
GradeSpec ==
    GradeInit /\ [][GradeNext]_gradeVars /\ WF_gradeVars(GraderStep)

-----------------------------------------------------------------------------
(* Properties.                                                             *)

\* "the most recent output": whatever the filters select, and whichever tests
\* have run before, a match test judges what the program of its own parent
\* printed in this invocation, never the output of another part.
JudgesItsParent ==
    \A t \in Tests :
        TESTS[t].kind = "match" /\ outcome[t] # "none" => judged[t] = TESTS[t].parent

PointsOf(S) == SumFunctionOnSet([t \in Tests |-> TESTS[t].points], S)

\* Every test that has been run is counted once, also when it is reached both as
\* a parent and from the loop.  The exit status never hides a failure, wherever an
\* interrupt falls, and a grader that was not interrupted exits with 0 exactly
\* when no test with points failed.
ScoreExact ==
    LET failed == PointsOf({t \in Tests : outcome[t] = "fail"})
    IN  /\ calls = <<>> /\ ~interrupted =>
               /\ POSSIBLE = PointsOf({t \in Tests : outcome[t] # "none"})
               /\ TOTAL = PointsOf({t \in Tests : outcome[t] = "pass"})
        /\ phase = "exited" /\ status = 0 => failed = 0
        /\ phase = "exited" /\ at > Len(TESTS) /\ ~interrupted => (status = 0 <=> failed = 0)

\* Over all invocations the log files on the disk are those of the match tests
\* that failed when they last ran, except where an interrupt fell between the
\* verdict and the log file.
LogsTell ==
    calls = <<>> =>
        \A t \in Tests \ cut : t \in logs <=> history[t] = "fail"

\* A grader that has been started ends, unless it waits for a program.
GraderEnds ==
    phase \in {"make", "tests"} ~>
        \/ phase \in {"exited", "traceback"}
        \/ In("body") /\ TESTS[Top.test].kind = "run"

=============================================================================
