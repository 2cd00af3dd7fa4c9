------------------------------- MODULE MDriver ------------------------------
(***************************************************************************)
(* malloclab/mdriver.c linked with mm-naive.c (the program mdriver-naive): *)
(* every trace file is first run on libc, then replayed three ways on the  *)
(* mm package: for correctness, for space utilisation, and for speed.      *)
(*                                                                         *)
(* live, of MmNaive, is what a caller of the package holds; the driver     *)
(* never sees it and keeps its own books (blocks, block_sizes, ranges).    *)
(***************************************************************************)
EXTENDS MmNaive, Ranges

CONSTANTS
    FileLists,      \* the command lines: sequences of trace files
    SpeedRuns,      \* how often fsecs runs eval_mm_speed (10 in the code)
    Secs            \* what fsecs may return; a time of 0 is left out

\* read_trace stores the request lines in an array of num_ops: a file with more
\* lines than it declares overruns it before the assert, and is left out.
ASSUME MDriverAssumption ==
    /\ SpeedRuns \in Nat \ {0}
    /\ Secs \subseteq Nat \ {0}
    /\ \A list \in FileLists :
           /\ Len(list) \in Nat /\ DOMAIN list = 1 .. Len(list)
           /\ \A k \in DOMAIN list :
                  /\ Len(list[k].ops) \in Nat
                  /\ DOMAIN list[k].ops = 1 .. Len(list[k].ops)
                  /\ list[k].num_ops >= Len(list[k].ops)

\* A trace file holds its header's num_ids and num_ops and its request lines.
\* A request is [type, index, size]; a type other than these three is bogus.
ALLOC == "a"
REALLOC == "r"
FREE == "f"

\* A file that does not exist.
Missing == [num_ids |-> 0, num_ops |-> 1, ops |-> <<[type |-> "missing"]>>]

VARIABLES
    files,          \* the trace files of this invocation
    phase,          \* where main is
    i,              \* the trace being evaluated
    op,             \* the request being evaluated
    run,            \* the number of this run of eval_mm_speed
    blocks,         \* trace->blocks, where it has been written
    block_sizes,    \* trace->block_sizes, where it has been written
    ranges,         \* the range list
    errors,         \* the global count of malloc_error
    total_size,     \* eval_mm_util's running total ...
    max_total_size, \* ... and its high-water mark
    stats,          \* mm_stats: validity and utilisation of each trace
    report          \* what main prints: numcorrect and each trace's perfindex

books == <<blocks, block_sizes, ranges>>
util == <<total_size, max_total_size>>
package == <<heap, live, aborted>>
driverVars == <<package, books, util, files, phase, i, op, run, errors, stats,
                report>>

-----------------------------------------------------------------------------
(* Trace files.                                                            *)

IndexOf(o) == IF o.type = FREE THEN 0 ELSE o.index

\* read_trace exits on a missing file or a bogus line, and asserts that the
\* header tells the truth; max_index ignores the frees.
read_trace(f) ==
    LET known == \A k \in DOMAIN f.ops : f.ops[k].type \in {ALLOC, REALLOC, FREE}
        max_index == Max({0} \cup {IndexOf(f.ops[k]) : k \in DOMAIN f.ops})
    IN  IF ~known THEN "exit"
        ELSE IF max_index = f.num_ids - 1 /\ f.num_ops = Len(f.ops) THEN "ok"
        ELSE "abort"

-----------------------------------------------------------------------------

Empty == [x \in {} |-> 0]

DriverInit ==
    /\ Init
    /\ files \in FileLists
    /\ phase = "libc"
    /\ i = 1 /\ op = 1 /\ run = 0
    /\ blocks = Empty /\ block_sizes = Empty /\ ranges = clear_ranges
    /\ errors = 0
    /\ total_size = 0 /\ max_total_size = 0
    /\ stats = <<>>
    /\ report = <<>>

Stop(how) ==
    /\ phase' = how
    /\ UNCHANGED <<package, books, util, files, i, op, run, errors, stats, report>>

\* One round of main's first loop.  libc's allocator is external: it serves
\* the trace, or a call fails and the driver exits.
EvalLibc ==
    /\ phase = "libc"
    /\ i <= Len(files)
    /\ read_trace(files[i]) = "ok"
    /\ i' = i + 1
    /\ UNCHANGED <<package, books, util, files, phase, op, run, errors, stats, report>>

\* eval_libc_valid counts the error before it exits, eval_libc_speed does not.
LibcFails ==
    /\ phase = "libc"
    /\ i <= Len(files)
    /\ read_trace(files[i]) = "ok"
    /\ phase' = "unix_error"
    /\ errors' \in {errors, errors + 1}
    /\ UNCHANGED <<package, books, util, files, i, op, run, stats, report>>

LibcDone ==
    /\ phase = "libc"
    /\ i > Len(files)
    /\ phase' = "read"
    /\ i' = 1
    /\ UNCHANGED <<package, books, util, files, op, run, errors, stats, report>>

\* A file main cannot use, in either loop.
BadFile ==
    /\ phase \in {"libc", "read"}
    /\ i <= Len(files)
    /\ read_trace(files[i]) # "ok"
    /\ Stop(read_trace(files[i]))

\* mem_reset_brk and mm_init, the start of every pass.
ResetPackage ==
    /\ heap' = EmptyHeap(heap.mem)
    /\ live' = Empty
    /\ UNCHANGED aborted

\* The trace is read and eval_mm_valid entered: fresh arrays, an empty heap and
\* an empty range list.
ReadTrace ==
    /\ phase = "read"
    /\ i <= Len(files)
    /\ read_trace(files[i]) = "ok"
    /\ ResetPackage
    /\ phase' = "valid"
    /\ op' = 1
    /\ blocks' = Empty /\ block_sizes' = Empty
    /\ ranges' = clear_ranges
    /\ UNCHANGED <<util, files, i, run, errors, stats, report>>

-----------------------------------------------------------------------------
(* The replay.                                                             *)

Request == files[i].ops[op]

At(ph, type) ==
    /\ phase = ph
    /\ op <= files[i].num_ops
    /\ Request.type = type

AtEnd(ph) == phase = ph /\ op > files[i].num_ops

\* A call of the package returns; a failed assert, there or in the driver,
\* aborts the process.
Returned(r, newLive, next) ==
    /\ Return(r, newLive)
    /\ phase' = IF r.ok THEN next ELSE "abort"

Continue == op' = op + 1 /\ UNCHANGED <<files, i, run, errors, stats, report>>

Remember(p) ==
    /\ blocks' = With(blocks, Request.index, p)
    /\ block_sizes' = With(block_sizes, Request.index, Request.size)

Filled(m, p) ==
    [m EXCEPT !.mem = memset(@, p, Request.index % 256, Request.size)]

\* malloc_error: this trace is invalid, on to the next one (free_trace).
Invalid ==
    /\ errors' = errors + 1
    /\ stats' = Append(stats, [valid |-> FALSE])
    /\ i' = i + 1
    /\ UNCHANGED <<files, op, run, report, util, blocks, block_sizes>>

ValidAlloc ==
    LET r == mm_malloc(heap, Request.size)
        a == add_range(ranges, r.heap.brk, r.ret, Request.size)
    IN  /\ At("valid", ALLOC)
        /\ r.ret # NULL
        /\ a.ret = 1
        /\ Returned([heap |-> Filled(r.heap, r.ret), ok |-> r.ok /\ a.ok],
                    With(live, r.ret, Request.size), "valid")
        /\ ranges' = a.ranges
        /\ Remember(r.ret)
        /\ Continue
        /\ UNCHANGED util

ValidAllocError ==
    LET r == mm_malloc(heap, Request.size)
        a == add_range(ranges, r.heap.brk, r.ret, Request.size)
    IN  /\ At("valid", ALLOC)
        /\ r.ret # NULL => a.ret = 0
        /\ Returned([heap |-> r.heap, ok |-> r.ok /\ (r.ret = NULL \/ a.ok)],
                    IF r.ret = NULL THEN live
                    ELSE With(live, r.ret, Request.size), "read")
        /\ Invalid
        /\ UNCHANGED ranges

\* A byte loaded through a char pointer: char is signed in this build.
SignedChar(b) == IF b >= 128 THEN b - 256 ELSE b

\* The driver's check that realloc carried n bytes of the fill over.
Preserved(m, p, n, index) ==
    \A j \in 0 .. n - 1 : SignedChar(m.mem[p + j]) = index % 256

ValidRealloc ==
    LET oldp == blocks[Request.index]
        r    == mm_realloc(heap, oldp, Request.size)
        a    == add_range(remove_range(ranges, oldp), r.heap.brk, r.ret,
                          Request.size)
        kept == Min({block_sizes[Request.index], Request.size})
    IN  /\ At("valid", REALLOC)
        /\ r.ret # NULL
        /\ a.ret = 1
        /\ Preserved(r.heap, r.ret, kept, Request.index)
        /\ Returned([heap |-> Filled(r.heap, r.ret), ok |-> r.ok /\ a.ok],
                    With(Without(live, oldp), r.ret, Request.size), "valid")
        /\ ranges' = a.ranges
        /\ Remember(r.ret)
        /\ Continue
        /\ UNCHANGED util

ValidReallocError ==
    LET oldp == blocks[Request.index]
        r    == mm_realloc(heap, oldp, Request.size)
        a    == add_range(remove_range(ranges, oldp), r.heap.brk, r.ret,
                          Request.size)
        kept == Min({block_sizes[Request.index], Request.size})
    IN  /\ At("valid", REALLOC)
        /\ (r.ret # NULL /\ a.ret = 1)
               => ~Preserved(r.heap, r.ret, kept, Request.index)
        /\ Returned([heap |-> r.heap, ok |-> r.ok /\ (r.ret = NULL \/ a.ok)],
                    IF r.ret # NULL
                    THEN With(Without(live, oldp), r.ret, Request.size)
                    ELSE IF Request.size = 0 THEN Without(live, oldp)
                    ELSE live, "read")
        /\ ranges' = IF r.ret = NULL THEN ranges ELSE a.ranges
        /\ Invalid

ValidFree ==
    LET p == blocks[Request.index]
    IN  /\ At("valid", FREE)
        /\ Returned(mm_free(heap, p), Without(live, p), "valid")
        /\ ranges' = remove_range(ranges, p)
        /\ Continue
        /\ UNCHANGED <<util, blocks, block_sizes>>

\* eval_mm_valid returns 1 and eval_mm_util begins.
ValidDone ==
    /\ AtEnd("valid")
    /\ ResetPackage
    /\ phase' = "util"
    /\ op' = 1
    /\ total_size' = 0 /\ max_total_size' = 0
    /\ UNCHANGED <<books, files, i, run, errors, stats, report>>

-----------------------------------------------------------------------------
(* eval_mm_util and eval_mm_speed exit through app_error when a call fails. *)

\* Mutant: the high-water mark only moves on ALLOC.
Account_NoMax(delta) ==
    /\ total_size' = total_size + delta
    /\ UNCHANGED max_total_size

\* eval_mm_util's statistics after an ALLOC or a REALLOC.
Account(delta) ==
    /\ total_size' = total_size + delta
    /\ max_total_size' = Max({total_size + delta, max_total_size})

UtilAlloc ==
    LET r == mm_malloc(heap, Request.size)
    IN  /\ At("util", ALLOC)
        /\ IF r.ret = NULL THEN Stop("app_error") ELSE
             /\ Returned(r, With(live, r.ret, Request.size), "util")
             /\ Remember(r.ret)
             /\ Account(Request.size)
             /\ Continue
             /\ UNCHANGED ranges

UtilRealloc ==
    LET oldp == blocks[Request.index]
        r    == mm_realloc(heap, oldp, Request.size)
    IN  /\ At("util", REALLOC)
        /\ IF r.ret = NULL THEN Stop("app_error") ELSE
             /\ Returned(r, With(Without(live, oldp), r.ret, Request.size), "util")
             /\ Remember(r.ret)
             /\ Account(Request.size - block_sizes[Request.index])
             /\ Continue
             /\ UNCHANGED ranges

\* Mutant: takes the size from the request, which has none.
UtilFree_RequestSize ==
    LET p == blocks[Request.index]
    IN  /\ At("util", FREE)
        /\ Returned(mm_free(heap, p), Without(live, p), "util")
        /\ total_size' = total_size - Request.size
        /\ Continue
        /\ UNCHANGED <<books, max_total_size>>

UtilFree ==
    LET p == blocks[Request.index]
    IN  /\ At("util", FREE)
        /\ Returned(mm_free(heap, p), Without(live, p), "util")
        /\ total_size' = total_size - block_sizes[Request.index]
        /\ Continue
        /\ UNCHANGED <<books, max_total_size>>

\* The ratio goes to the statistics and fsecs starts eval_mm_speed.
UtilDone ==
    /\ AtEnd("util")
    /\ ResetPackage
    /\ phase' = "speed"
    /\ op' = 1
    /\ run' = 1
    /\ stats' = Append(stats, [valid    |-> TRUE,
                               hwm      |-> max_total_size,
                               heapsize |-> mem_heapsize(heap.brk)])
    /\ UNCHANGED <<books, util, files, i, errors, report>>

-----------------------------------------------------------------------------

SpeedAlloc ==
    LET r == mm_malloc(heap, Request.size)
    IN  /\ At("speed", ALLOC)
        /\ IF r.ret = NULL THEN Stop("app_error") ELSE
             /\ Returned(r, With(live, r.ret, Request.size), "speed")
             /\ blocks' = With(blocks, Request.index, r.ret)
             /\ Continue
             /\ UNCHANGED <<util, block_sizes, ranges>>

SpeedRealloc ==
    LET oldp == blocks[Request.index]
        r    == mm_realloc(heap, oldp, Request.size)
    IN  /\ At("speed", REALLOC)
        /\ IF r.ret = NULL THEN Stop("app_error") ELSE
             /\ Returned(r, With(Without(live, oldp), r.ret, Request.size), "speed")
             /\ blocks' = With(blocks, Request.index, r.ret)
             /\ Continue
             /\ UNCHANGED <<util, block_sizes, ranges>>

SpeedFree ==
    LET p == blocks[Request.index]
    IN  /\ At("speed", FREE)
        /\ Returned(mm_free(heap, p), Without(live, p), "speed")
        /\ Continue
        /\ UNCHANGED <<util, books>>

\* Mutant: the heap is not reset between the runs.
SpeedAgain_NoReset ==
    /\ AtEnd("speed")
    /\ run < SpeedRuns
    /\ UNCHANGED package
    /\ run' = run + 1
    /\ op' = 1
    /\ UNCHANGED <<books, util, files, phase, i, errors, stats, report>>

\* Mutant: the runs are not counted.
SpeedAgain_NoCount ==
    /\ AtEnd("speed")
    /\ run < SpeedRuns
    /\ ResetPackage
    /\ op' = 1
    /\ UNCHANGED <<books, util, files, phase, i, run, errors, stats, report>>

\* ftimer_gettod calls eval_mm_speed again.
SpeedAgain ==
    /\ AtEnd("speed")
    /\ run < SpeedRuns
    /\ ResetPackage
    /\ run' = run + 1
    /\ op' = 1
    /\ UNCHANGED <<books, util, files, phase, i, errors, stats, report>>

SpeedDone ==
    /\ AtEnd("speed")
    /\ run = SpeedRuns
    /\ phase' = "read"
    /\ i' = i + 1
    /\ UNCHANGED <<package, books, util, files, op, run, errors, stats, report>>

\* Points out of 100: the weight of the utilisation, and of the throughput.
UTIL_WEIGHT == 60

\* A double that is a whole number, but for rounding, may be just below it when
\* it is cut to an int.
Truncated(n, d) == {n \div d} \cup {x \in {n \div d - 1} : n % d = 0}

\* Mutant: a package faster than libc is paid for it.
calculate_perfindex_NoCap(st, libcSecs, mmSecs) ==
    IF ~st.valid THEN {0}
    ELSE Truncated(UTIL_WEIGHT * st.hwm * mmSecs
                     + (100 - UTIL_WEIGHT) * st.heapsize * libcSecs,
                   st.heapsize * mmSecs)

\* The index of one trace.  Both throughputs are of the same requests, so their
\* ratio is that of the times; no more is paid than for libc's throughput.
calculate_perfindex(st, libcSecs, mmSecs) ==
    IF ~st.valid THEN {0}
    ELSE Truncated(UTIL_WEIGHT * st.hwm * mmSecs
                     + (100 - UTIL_WEIGHT) * st.heapsize * Min({libcSecs, mmSecs}),
                   st.heapsize * mmSecs)

\* The times of both packages, on which nothing depends before, are chosen here.
Scores(st) == UNION {calculate_perfindex(st, t[1], t[2]) : t \in Secs \X Secs}

\* The index is computed and printed, the arena released and the ranges cleared.
Finish ==
    /\ phase = "read"
    /\ i > Len(files)
    /\ phase' = "done"
    /\ \E index \in [DOMAIN stats -> UNION {Scores(st) : st \in ToSet(stats)}] :
          /\ \A k \in DOMAIN stats : index[k] \in Scores(stats[k])
          /\ report' = [numcorrect |-> Cardinality({k \in DOMAIN stats : stats[k].valid}),
                        perfindex  |-> index]
    /\ ranges' = clear_ranges
    /\ UNCHANGED <<package, util, files, i, op, run, blocks, block_sizes, errors,
                   stats>>

Stopped == phase \in {"done", "exit", "abort", "unix_error", "app_error"}

Terminated == Stopped /\ UNCHANGED driverVars

DriverStep ==
    \/ EvalLibc \/ LibcFails \/ LibcDone \/ BadFile \/ ReadTrace
    \/ ValidAlloc \/ ValidAllocError
    \/ ValidRealloc \/ ValidReallocError
    \/ ValidFree \/ ValidDone
    \/ UtilAlloc \/ UtilRealloc \/ UtilFree \/ UtilDone
    \/ SpeedAlloc \/ SpeedRealloc \/ SpeedFree \/ SpeedAgain \/ SpeedDone
    \/ Finish

DriverNext == DriverStep \/ Terminated

DriverSpec == DriverInit /\ [][DriverNext]_driverVars

\* One thread: the only assumption is that the process is scheduled while it
\* has a step to take.  Some DriverStep is enabled exactly when ~Stopped (no
\* other state deadlocks), so this is weak fairness of DriverStep, written
\* without ENABLED.
Scheduled == []<>Stopped \/ []<><<DriverStep>>_driverVars

FairDriverSpec == DriverSpec /\ Scheduled

-----------------------------------------------------------------------------
(* Properties.                                                             *)

Evaluating == phase \in {"valid", "util", "speed"}

\* The ids a trace holds after its first n requests: the last request that names
\* them is not a free.
HeldIds(ops, n) ==
    {x \in {ops[k].index : k \in 1 .. n} :
        ops[Max({k \in 1 .. n : ops[k].index = x})].type # FREE}

LastSize(ops, n, x) == ops[Max({k \in 1 .. n : ops[k].index = x})].size

\* A trace as the lab's files are: an id is allocated when it is not held,
\* reallocated and freed when it is, and no size is 0 or too large for the int in
\* which mm_malloc computes the size of a chunk.  The driver does not check this.
WellFormed(ops) ==
    /\ ops # <<>>
    /\ \A k \in DOMAIN ops :
           /\ ops[k].index \in Nat
           /\ ops[k].type = ALLOC <=> ops[k].index \notin HeldIds(ops, k - 1)
           /\ ops[k].type # FREE => /\ ops[k].size \in Nat \ {0}
                                   /\ ops[k].size + 31 < INT_MOD \div 2

\* Every file that the driver evaluates.
WellFormedFiles ==
    \A list \in FileLists : \A k \in DOMAIN list :
        read_trace(list[k]) = "ok" => WellFormed(list[k].ops)

\* In all three passes, however many ran before, the driver's blocks array
\* names for every id the trace holds a different block the package still has
\* out, of the size the trace asked for, and the package has no other out: the
\* driver never frees or reallocates a stale pointer of an earlier pass.
BooksMatchPackage ==
    Evaluating =>
        LET ids == HeldIds(files[i].ops, op - 1)
        IN  /\ DOMAIN live = {blocks[x] : x \in ids}
            /\ Cardinality(DOMAIN live) = Cardinality(ids)
            /\ \A x \in ids : live[blocks[x]] = LastSize(files[i].ops, op - 1, x)

\* During eval_mm_valid the range list is exactly the extents of the blocks the
\* package has out, each once.
RangesMatchPackage ==
    phase = "valid" =>
        /\ {<<ranges[k].lo, ranges[k].hi>> : k \in DOMAIN ranges}
             = {<<p, p + live[p] - 1>> : p \in DOMAIN live}
        /\ Len(ranges) = Cardinality(DOMAIN live)

\* eval_mm_util's running total is the sum of the sizes of the blocks that are
\* out, through every grow, shrink and free.
TotalIsLiveBytes ==
    phase = "util" => total_size = SumFunction(live)

\* What a trace costs and needs, from its request lines alone.
ChunkBytes(ops) ==
    LET requests == {k \in DOMAIN ops : ops[k].type # FREE}
    IN  SumFunction([k \in requests |-> RoundUp(ops[k].size) + SIZEOF_HEADER])

LiveBytes(ops, n) ==
    SumFunction([x \in HeldIds(ops, n) |-> LastSize(ops, n, x)])

PeakBytes(ops) == Max({LiveBytes(ops, n) : n \in 0 .. Len(ops)})

FitsArena(ops) == ChunkBytes(ops) <= MAX_HEAP

\* A realloc of a block whose fill, the low byte of its id, has its top bit set.
HighFill(ops) ==
    \E k \in DOMAIN ops : ops[k].type = REALLOC /\ ops[k].index % 256 >= 128

\* The driver's judgement of mm-naive.c.  A valid trace fits the arena with none of
\* its requests reused, and its utilisation is the peak of the bytes it holds over
\* what they cost; a trace that fits and reallocates no block with a high fill is
\* valid; neither depends on the files evaluated before it.  One error is counted for
\* each invalid trace, and a driver that reports has judged every file.
JudgementExact ==
    /\ \A k \in DOMAIN stats :
           LET ops == files[k].ops
           IN  /\ stats[k].valid => /\ FitsArena(ops)
                                    /\ stats[k].hwm = PeakBytes(ops)
                                    /\ stats[k].heapsize = ChunkBytes(ops)
                                    /\ stats[k].hwm <= stats[k].heapsize
               /\ FitsArena(ops) /\ ~HighFill(ops) => stats[k].valid
    /\ phase # "unix_error" =>
           errors = Cardinality({k \in DOMAIN stats : ~stats[k].valid})
    /\ phase = "done" => Len(stats) = Len(files)

\* "Make sure that the new block contains the data from the old block"
\* (eval_mm_valid): mm_realloc carries the data over, so a trace can only be invalid
\* because the arena is too small for it.
ReallocJudgedByData ==
    \A k \in DOMAIN stats : FitsArena(files[k].ops) => stats[k].valid

\* The score: only the traces found valid earn anything, and speed earns at most
\* its 40 points on each, however much faster than libc the package is; the rest
\* is what the trace's own peak and cost give, less what is cut off.
PerfIndexBounded ==
    phase = "done" =>
        /\ report.numcorrect = Len(files) - errors
        /\ \A k \in DOMAIN files :
              LET peak == PeakBytes(files[k].ops)
                  cost == ChunkBytes(files[k].ops)
                  got  == report.perfindex[k]
              IN  IF ~stats[k].valid THEN got = 0
                  ELSE /\ got * cost <= 60 * peak + 40 * cost
                       /\ (got + 1) * cost >= 60 * peak

\* A trace that eval_mm_valid has passed runs through eval_mm_util and every run
\* of eval_mm_speed: app_error is never reached, and no assert of the package
\* or of add_range fails on well-formed files.
ReplaysNeverFail ==
    /\ phase # "app_error"
    /\ phase = "abort" => i <= Len(files) /\ read_trace(files[i]) = "abort"

\* The driver ends: it reports, or exits on a bad file or a failing libc.
DriverTerminates == <>Stopped

=============================================================================
