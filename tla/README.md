# TLA+ verification of the cso18 labs

The repository holds the labs of a systems course: code the students extend,
and the programs that judge what they write. What runs as it stands, and what
every student's result depends on, is

* **malloclab**: a simulated memory (`memlib.c`), an example allocator
  (`mm-naive.c`), and the driver that judges an allocator (`mdriver.c`) with its
  timers (`fcyc.c`, `ftimer.c`, `clock.c`);
* **threadlab**: a hash table (`htable.c`), the multi-threaded test of it
  (`testhash.c`), and the test of a reader-writer lock (`testrwlock.c`);
* **rklab**: a grep (`rkgrep_main.c`) around matchers and a Bloom filter that the
  student writes, and their unit tests (`rkgrep_test.c`);
* **clab**: small exercises, and the grader that runs and scores them
  (`gradelib.py`, `grade-lab`);
* **binarylab**: empty functions.

This project models the first three and the grader of the fourth.

## Inventory

| Component | State | Operations | Hard because |
|---|---|---|---|
| `memlib.c` | the break | `mem_sbrk`, `mem_reset_brk`, heap bounds, `align` | limit of the arena, `size_t` to `int` |
| `mm-naive.c` | chunk headers inside the heap | `mm_malloc`, `mm_free`, `mm_realloc`, `mm_checkheap` | metadata and payload share one memory; nothing is cleared by a reset |
| range list of `mdriver.c` | linked list of extents | `add_range`, `remove_range`, `clear_ranges` | interval arithmetic; the allocator is arbitrary |
| evaluation in `mdriver.c` | a trace, its `blocks` and `block_sizes`, totals, error count | `read_trace`, `eval_mm_valid`, `eval_mm_util`, `eval_mm_speed` (10 times) | four uses of one array over a heap that is reset under it; failure in mid-trace |
| `fcyc.c` | best samples, parameters, cache buffer | `fcyc`, seven setters | parameters change between calls; giving up |
| `htable.c` | array of chains, size | `htable_init/insert/lookup/destroy`, resize | rehash in an insert; no lock |
| `testhash.c` | phase, loop variables of the threads | two runs, validation between them | interleaving of unlocked inserts |
| `testrwlock.c` | flags under a mutex, two condition variables | master, lingering reader, writer, 8 readers | the verdict depends on what the master sees when; a deadline |
| `rkgrep_main.c` | options, patterns, the buffer, the match index | splitting, `read_ascii_file`, three search loops, `print_matched_sentence` | an unterminated buffer, an index nobody may have written, error paths that go on |
| `rkgrep.c`, `bloom.c` | a bitmap | `madd`, `msub`, `mmul`, `hash_i`, `bloom_init`, `bloom_bit_at_pos`; the rest is the exercise | modular edges, signed bytes |
| `rkgrep_test.c` | the document, two filters, counts | four tests against compiled reference functions, a random generator | what the tests let pass, and when they fail what is right |
| `gradelib.py` | registered tests, totals, the last output, log files on the disk | `run_tests`, `run_test`, `end_part`, `match`, `make` | filters and parents change the order; interrupts; files outlive the process |

Interaction: `mdriver.c` calls the `mm_*` package, which calls `memlib.c`; the
driver also asks `memlib.c` for the heap's bounds. The driver's timers call
`eval_mm_speed` back. The threads of `testhash.c` share one `htable`; those of
`testrwlock.c` share a lock and four flags. `rkgrep_main.c` and `rkgrep_test.c`
call the same matchers and filter; the test compares them with those of
`rkgrep_harness.o`. The grader runs one program per part, whose output the tests
under it share, and leaves log files for its next invocation.

What makes each correct: the allocator keeps blocks apart and their bytes
intact; the driver's judgement is exact and independent of earlier traces; the
sampler returns the least time; the table is a map; a test passes what is right
and fails what is wrong, in every interleaving and for every random choice; all
algorithms of the grep find the same matches and the right line is printed; the
grader judges each test by its own program and counts it once.

## Modules

| Module | Models | Notes |
|---|---|---|
| `MemLib` | `memlib.c` | operators on the break; addresses are offsets from `mem_start_brk`; `INT_MOD` is the number of values of an `int`, `SIZE_MOD` its square |
| `MmNaive` | `mm-naive.c` | one flat memory `heap.mem`; a header's word is the cell at its first address, so a stray store into a header destroys the model's word too. `live` is what the client holds. `heap.chunks` is auxiliary |
| `Malloc` | the contract in the comments of `mm.c` | abstract allocator; `MmNaive` implements it (`RefinesMalloc`) |
| `Ranges` | the range list of `mdriver.c` | newest record first, as in the code |
| `RangeCheck` | `Ranges` against any allocator | the allocator may return any address and move the break |
| `MDriver` | `mdriver.c` linked with `mm-naive.c` | composes `MmNaive` and `Ranges`; the phases of `main` are a program counter, each request is one step |
| `FCyc` | `fcyc.c` on the i386 counter of `clock.c` | times are numbers of cycles; `epsilon` is in percent; `samples` is auxiliary and holds the true times |
| `HTable`, `KVMap` | `htable.c` used by one thread, and the map it implements | chains are sequences |
| `HTableThreads` | `testhash.c` and the unlocked `htable.c` | one step per access to shared memory |
| `TestRwlock` | `testrwlock.c`, the stubs and `cond_timedwait` of `rwlock.c` | the lock under test is a parameter; `late` is auxiliary |
| `RkHash` | the arithmetic of `rkgrep.c`, the rolling hash, what a matcher has to find (`Occurrences`) | the hash functions follow the compiled reference |
| `Bloom` | `bloom.c`, the filter of a document | a filter is its set of positions; `Byte` is the signed `char` that holds eight of them |
| `Rkgrep` | `rkgrep_main.c` | composes `Bloom` and `RkHash`; `mem` is the buffer and what follows it |
| `RkTest` | `rkgrep_test.c` | composes them with a submission that is right or wrong in one point |
| `GradeLib` | `gradelib.py`, `grade-lab` | a stack of `run_test` calls; a line of output is the set of the regexps that match it |

The theorems are in modules of their own (see Proofs): `MalloclabProofs` about
`MmNaive` and `MDriver`, `HarnessProofs` about `RangeCheck`, `FCyc` and `GradeLib`,
`ThreadlabProofs` about `HTable` and `TestRwlock`, `HTableThreadsProofs`,
`RkgrepProofs` and `RkTestProofs` about the module they are named after, and
`BloomProofs` and `Collections` with the lemmas several of them need. The `MC...`
modules give constants their values. Definitions named `<definition>_<Word>` are
mutants: the definition after them with a plausible bug, used to see that each
property can fail.

### How state and actions correspond

*`MmNaive`.* `mm_malloc`, `mm_free`, `mm_realloc` take a heap and return the new
one, the returned pointer and whether the asserts held; the actions `Malloc`,
`Free`, `Realloc` are one whole call. A failed assert sets `aborted`, after which
nothing happens. `set_chunk_status` keeps the code's mask, which can only clear
the bit. `mm_checkheap` is the code's loop over the headers, cut at the number of
headers that fit the arena. The client respects malloc's discipline and stores anywhere in its
blocks; `Reset` is what the driver does between passes: the bytes stay.

*`MDriver`.* `files` is the command line. `EvalLibc` is one round of the first
loop of `main`: both libc passes are external and either serve the trace or exit.
`ReadTrace` reads a file and enters `eval_mm_valid`; `Valid...`, `Util...` and
`Speed...` are the cases of the three switch statements, with their error paths;
`SpeedAgain` is the loop of `ftimer_gettod`, which the build selects
(`USE_GETTOD`). A function is `blocks` where the array has been written, so a read
of an entry nobody wrote is an error for TLC. Bytes are read back through a
signed `char`, as in the code.

`Finish` computes the index of `calculate_perfindex` in exact rationals, with the
two outcomes the cut of a rounded double to an `int` may have when the exact value
is whole; the times, on which nothing earlier depends, are chosen there.

*`FCyc`.* `Measure` and `MeasureCompensated` are one round of the two loops of
`fcyc`. `get_counter` subtracts the two words of the counter as the code does; the
words have `WORD` values. `callibrate` is given the set of ratios it sees. On a
platform that is neither i386 nor Alpha `start_counter` exits, and the build as
configured uses `gettimeofday` instead.

*`HTable`.* A key is the sequence of its ASCII characters and `hashcode` is
computed with the code's `madd` and `mmul`. `htable_resize` is the code's two loops:
it walks the slots in order and each chain from its head, and pushes each node on
the head of its new chain (the comment in the code says "at the end"). The search of
`get_prime` is bounded by Bertrand's postulate.

*`RangeCheck`.* The actions are the cases of `eval_mm_valid` as far as they touch the
list. The allocator may return NULL (`CheckNull`), and a realloc may be found to have
lost the data; both end the pass.

*`HTableThreads`.* `ht_store` is `ht->store` and `point` a thread's place in a call.
`LoadHead`, `Walk` and `LinkNode` are the three accesses to
shared memory. A node is written completely before it is linked, and x86 keeps
the order of stores. The table does not resize here.

*`TestRwlock`.* All flags are accessed under `test_m`, so a critical section is
one step; `pthread_cond_wait` ends one and, after a broadcast or spuriously,
begins another. `AskLock` is a call of the lock, `Grant` its return to a queued
thread. Kinds of lock: `contract` (writers first, as the test demands), `stub`
(what the repository ships), `barging` (readers pass a waiting writer), `shared`
(a writer enters next to readers), `unfair` (a queued reader may go before the
queued writer). `late` remembers that a deadline was computed in the last 100 ns
of a second, where the missing carry makes it invalid.

*`Rkgrep`.* One action per stage of `main`, with the error paths of
`read_ascii_file` as actions of their own: a failed or short read, and a byte that
is not ASCII, all end in a use of the NULL pointer. `strtok` is one scan of the
argument, which leaves out empty pieces. `ReadFile` appends one of
`Tails` to the file's characters: what happened to be in memory. A matcher that
finds nothing may store -1 or leave `first_match_ind` as it was, which the stubs
do. A sentence whose printing passes the last byte of the buffer is marked `over`;
its text is then not looked at, and the process may also end there.

*`RkTest`.* `rand()` is a choice. A step is one comparison of the test or one round
of its loops; `panic` is a failed `panic_cond`, `abort` an assert. The submissions:
`right`; `wrong_h` (256 to the power m-1 instead of m); `little_endian` (bits of a
byte in the other order); `one_hash_less` (a loop that stops early).

*`GradeLib`.* `calls` is the stack of `run_test` wrappers, a test and above it its
parent; the wrapper is cut into steps where an interrupt makes a difference.
`Invoke` starts a new process with any filters: all globals are fresh, `logs` stay.
A `KeyboardInterrupt` is possible at every step; in `make` it is not caught. Nor is
the error of `Popen` for a program that cannot be started (`PopenFails`). The totals
of a part (`PART_TOTAL`, `PART_POSSIBLE`) are kept as in the code; they only serve
its report.
`history`, `judged`, `outcome` and `cut` are auxiliary.

## Runs

The parts of a lab that share no state are checked in one run: `MCMalloclab` and
`MCThreadlab` have a variable `part`, chosen at the start, and only that part takes
steps. What is reached is the union of the parts' states, and fairness is assumed of
the part that runs.

| Run, part | Checks | Bounds |
|---|---|---|
| `malloclab`, mm | blocks aligned, in the heap, disjoint from each other and from headers; asserts; `mm_checkheap` accounts for every byte; the inductive invariant; implements `Malloc` | arena of 104 bytes: up to three chunks of two sizes, so that grow, shrink, failure in malloc and in realloc, and reuse of dirty memory after a reset all happen |
| `malloclab`, ranges | the list is exact; accepted blocks lie in the heap; a block overlaps no older one that is at least as long (`OverlapDetected`) | four 16-byte slots, aligned, unaligned and outside addresses, breaks inside a slot |
| `malloclab`, fcyc | `values` holds the smallest true times in order, wherever the counter wraps; the result is the least of them and stops only as documented; the cache buffer has the size its loop uses; a call returns | up to 4 samples of two times, with a timer tick or without, a counter of 16 by 16 values that borrows and wraps, calibrations that find a ratio or none, `kbest` 3 and 6, `maxsamples` 4 and 2 |
| `mdriver` | the books match the package in all passes; running total; utilisation and error count computed from the trace alone, and the verdict for the traces that reallocate no block with a high fill; the score lies between what utilisation alone and utilisation with full speed earn; a validated trace never fails later; the driver ends | all well-formed traces of up to 5 requests on two ids and two sizes, and pairs of files, among them a full arena, leaked blocks, an id of 200, a wrong header and a missing file; 2 speed runs; two times for each package |
| `threadlab`, htable | nodes in the right chain, keys once; sizes prime; implements `KVMap` | five keys, two with one hash, one whose hash is `BIG_PRIME` itself, `MAX_COLLISION` 2, tables that resize up to three times |
| `threadlab`, testhash | chains sound without locks; keys lost only where two inserts on a slot overlapped; the test ends | 3 threads, 4 keys, 2 slots |
| `threadlab`, testrwlock | verdicts, the contest is set up, a contract-keeping lock is always passed when every deadline has a valid time | five readers, five kinds of lock, clock readings inside and at the end of a second |
| `rkgrep` | the filter hides no match; the line printed is that of the first match with the pattern in red; printing leaves the buffer exactly when the match itself does, or when no newline follows it and the byte after the file is a character or the match ends a document that happens to be terminated; a run that returns 0 has searched for everything in an ASCII file | documents of up to five characters, seven pattern arguments (empty pieces, equal and unequal lengths, more patterns than the array holds), five contents of the memory after the buffer; `PRIME` 13, so that hashes collide and `msub` meets equal arguments |
| `rk_test` | a right submission fails only where a random document repeats the pattern; the generator fills its buffer exactly; a wrong `h`, which `test_rkhash` overwrites, is caught by the searches unless they only drew position 0 | four pairs of lengths (equal ones, and one whose filter is not a multiple of 8 bits), two letters, words of 2 and 3, two tries; `PRIME` 10007, large enough that no wrong hash is right by accident (`NoAccident`, an ASSUME the run evaluates) |
| `gradelib` | each match test judges the program of its parent; points counted once, exit status; the log files are those of the tests that last failed; the grader ends | two programs with a match test each and a part between them, three outputs, all filters, any number of invocations, an interrupt at every step, programs that do not start |

Runs that show a disagreement between the code and what the repository says:

| Run | What happens |
|---|---|
| `mm_naive_zero` | `mm_malloc(0)` returns the break; freeing it fails the assert of `mm_free` |
| `range_overlap` | `add_range` accepts a block that encloses an older one: "The payload must not overlap any other payloads" |
| `mdriver_realloc` | `newp[j]` is a signed `char` compared with `index & 0xFF`: a correct realloc of an id whose low byte is 128 or more is reported as one that lost the data. `DriverVerdict` proves that nothing else is misjudged |
| `rwlock_deadline` | `get_expiretime` adds 100 **ns** (the comment says 100 ms) without a carry: in the last 100 ns of a second the assert of `cond_timedwait` fails in a correct lock |
| `rk_test_bits` | `bloom_bit_at_pos` masks nothing: it calls a bit set because of others in its byte. `TestBitsComparedByClass` proves what it does tell apart, so a wrong filter can pass |
| `rkgrep_unterminated` | `read_ascii_file` writes the terminating zero only if the buffer is NULL; the matchers take null-terminated strings |

Every pass run's property has a mutant that breaks it.

Also met while modelling; each is a clause of a property or a note here:

* Without locks a key is lost when two inserts on a slot overlap
  (`LostOnlyByContention`); adding the locks is the exercise.
* `generate_random_document` leaves no spaces in its document, which its comment calls
  "a sequence of words": each is overwritten by the next word. No property depends
  on it.
* With `-n` not a multiple of 4 the filter's size is not a multiple of 8 and the
  assert of `bloom_init` fails; with equal `-m` and `-n`, `rand() % 0` is computed;
  an empty file with `-a rkbloom` divides by zero.
* A match at the end of a document that happens to be terminated prints past the
  zero (`OverreadsExactly`). The proof found a case an earlier form of the property
  left out: when the bytes behind the file are, say, a newline and a letter, a
  pattern can match across the end of the file, and printing leaves the buffer
  although a newline follows.
* With a negative `char` behind the file a rolled hash can be `PRIME` more than the
  hash of the same window, so the Rabin-Karp search can miss a match there that the
  naive one finds; hence the hypothesis `AsciiTails` of `RkAlgorithmsAgree`.
* A size near the width of an `int` makes `mm_malloc` truncate the chunk size
  (`Sizes` with 497 and `INT_MOD` 512 violates `BlocksSound`), which is why the
  theorems assume `GoodSizes`.
* `is_prime(1)` is 1.

## Fairness

* `MDriver`: `Scheduled`, weak fairness of the single thread's step. The process
  is one thread and nothing blocks, so it needs only the processor. It is written
  without ENABLED, as "infinitely often stopped or infinitely often a step": the
  run's deadlock check shows that a step is enabled until the driver has stopped.
* `FCyc`: weak fairness inside a call; calls and setters need not happen. In
  `MCMalloclab` no call is entered in another part, so the condition is the same.
* `HTableThreads`: weak fairness of each thread and of main; there is no lock to
  wait for. In `MCThreadlab` it holds of the part that runs, as does the next one:
  the processes of another part have not been started. `TesthashEnds` is `TestEnds`
  for the behaviours of its part.
* `TestRwlock`: weak fairness of the master and of each thread. Spurious wakeups
  get none. That a critical section under `test_m` is one step also assumes that
  the master's polling does not starve the others of the mutex.
* `GradeLib`: weak fairness of the grader's own steps and of `make`. A graded
  program need not end (`communicate` has no time limit), and nobody has to start
  or interrupt the grader; `GraderEnds` allows for exactly that wait.
* `Rkgrep` and `RkTest` are single sequential programs of bounded length and state
  only safety.

## Proofs

Eight modules hold theorems. Every invariant and action property of every passing
run, and both refinements, are stated by a theorem; only liveness is not. A theorem
is for every value of the constants; the run of the same component shows the
property on one small instance, and TLC checked it there before it was proved.

| Module | Inductive invariant | What is proved from it |
|---|---|---|
| `MalloclabProofs` | `NaiveInv` | `AssertsHold`, `BlocksSound`, `CheckHeapExact`, the refinement `RefinesMalloc` |
| | `DriverInv` | `BooksMatchPackage`, `RangesMatchPackage`, `TotalIsLiveBytes`, `ReplaysNeverFail`, `JudgementExact`, `VerdictByRequests`, `PerfIndexBounded` |
| `HarnessProofs` | `CheckInv` | `RangesAreHeld`, `AcceptedInHeap`, `OverlapDetected` |
| | `FCycInv` | `KSmallest`, `BufferFits`, the action property `ResultIsBest` |
| | `GradeInv`, `ScoreInv` | `JudgesItsParent`, `LogsTell`; `ScoreExact` |
| `ThreadlabProofs` | `TableInv` | `WellPlaced`, `SizeIsPrime`, the refinement `RefinesKVMap` |
| | `RwInv` | `VerdictRight`, `ContestIsSet` |
| `HTableThreadsProofs` | `ThreadsInv` | `ThreadsTypeOK`, `ChainsSound`, `LostOnlyByContention` |
| `RkgrepProofs` | `RkInv`, `SearchInv` | `OverreadsExactly`, `PrintsMatchedLine`; `AlgorithmsAgree` |
| `RkTestProofs` | `TestInv`, `WrongInv` | `RightPasses`, `DocumentIsFull`; `WrongHCaught`; `BitsComparedByClass` |
| `BloomProofs` | | lemmas about the rolling hash and the filter |
| `Collections` | | lemmas about numbers, sums and sequences |

The assumptions are the named ASSUMEs of the modules, which TLC evaluates in every
run, and the hypotheses that some theorems state:

| Hypothesis | Of | Says | Why |
|---|---|---|---|
| `GoodSizes` | `Naive...` | sizes are positive and a chunk size fits an `int` | a size of 0 fails (`mm_naive_zero`), a larger one is truncated |
| `WellFormedFiles` | `Driver...` | a file that `read_trace` accepts allocates an id before it uses it, with sizes as above | the driver never checks this; the lab's trace files are so, and `MCMDriver` has it as an ASSUME |
| `PrimesFound` | `Table...` | there is a prime (for `is_prime`) from n to 2n + 3 | number theory, on which `get_prime` ends; `MCHTable` has it up to 300 as an ASSUME |
| `0 \notin InitSizes` | `TableSizeIsPrime` | the table is asked for at least one slot | `is_prime(1)` is 1; `testhash.c` asks for `TESTSZ/100` |
| `LinePatterns` | `RkPrintsMatchedLine` | no pattern holds a newline | a match over two lines is not in a line |
| `AsciiTails` | `RkAlgorithmsAgree` | no negative `char` lies behind the file | see "Also met while modelling" |
| `NoAccident` | `TestWrongHCaught` | a hash rolled with the wrong `h` to another position than 0 of the worst case is not the right one | with the code's `PRIME` 961748941 it is wrong by a multiple of 256^pos - 1, and the order of 256 modulo `PRIME` is 240437235, far above the document's length; `MCRkTest` has it as an ASSUME |

*`MmNaive`.* For every arena, every `int` width, every set of byte values and every
set of sizes with `GoodSizes`: positive, and small enough that the chunk size fits
an `int`. (A size of 0 is outside it: `mm_naive_zero` shows what happens then.) The arena
fits an `int` (`MemLibAssumption`), as 200 MB does. `BlocksSound` and `AssertsHold`
are not inductive. That a store inside a block leaves headers alone needs the
position of every header; that `mm_free` finds a header at `ptr - 16` needs that
every block is a chunk's payload. `NaiveInv` adds both: the chunks tile the heap
(`ChunksTile`: each is aligned, at least 32 bytes, and ends at another chunk or at
the break; no chunk starts inside another), and the chunks with their status bit set
are the client's blocks, each large enough (`LiveMatchesStatus`). The proof follows
the actions: a new chunk at the break extends the tiling (`GrowConsistent`),
clearing a status bit removes one block (`ClearConsistent`), stores and copies
inside one payload touch no header word (`StoreConsistent`, `CopyConsistent`), and
`mm_realloc` is the composition of the three (`ReallocStep`). The refinement uses
the same steps with what they do to memory: a grown heap keeps the bytes of every
block (`GrewKeeps`), so does a freed chunk (`FreedKeeps`), and a moved block takes
its bytes along and leaves the others theirs (`MovedKeeps`). `CheckHeapExact` needs
that a heap that is not empty begins with a chunk (`FirstChunk`); then, by induction
on the rounds, the totals of the walk are the chunks, and the blocks among them,
below its cursor.

*`MDriver`.* For every arena and every list of files with `WellFormedFiles`, any
number of speed runs and any times measured. The package's heap under a trace is a
function of the requests, but of a heap that earlier traces left dirty, so the
invariant ties every pass to the requests replayed so far: the ids held by the trace
are the entries of `blocks` in use, each a different block of the package of the size
asked for, and the break is what the chunks of those requests cost (`ReplayInv`); in
`eval_mm_valid` the bytes of each block are its fill and the ranges are the blocks
(`ValidInv`); in `eval_mm_util` the total is the sum over the blocks and the mark its
maximum (`UtilInv`). Because the break depends on the requests alone, a request fails
in one pass exactly if it fails in all: that is why a validated trace never fails
later, and why the verdict is a function of the lines: `JudgementExact` where the
repository's words and the code agree, and for every trace `VerdictByRequests`, which
says that the fill read as a signed `char` is the only other cause of an error. `DriverInv` with its report
gives the bounds of the index by integer division alone (`PerfindexBounds`). The
theorems are about `DriverSpec`, the specification without fairness, which the one of
the run implies.

*`RangeCheck`.* For an allocator that returns any address and moves the break
anywhere up. `CheckInv` says that the records are the held blocks and start at
different addresses (`Books`, without which `remove_range` could unlink the wrong
one), lie in the heap (`Placed`), and that a newer record meets an older one only by
enclosing it (`Nested`, a statement about the order of the list, which is what
`add_range`'s test of the two end points gives). An enclosing record is longer than
the enclosed one, hence `OverlapDetected`.

*`FCyc`.* For every `kbest`, `maxsamples`, `epsilon` and cache setting between calls,
every sequence of times and every position of the counter. The times are assumed to
be less than the counter's range `WORD * WORD` (`FCycAssumption`; a longer one cannot
be told from a shorter one). `CounterExact` proves that the borrow of `get_counter`
gives the true difference for every wrap of the low word or the whole counter.
`KSmallest` is about a multiset, so its form is "there is a permutation that sorts
the samples, and `values` is the beginning of the sorted sequence"; the invariant
carries such a permutation, and the proof of `add_sample` builds the next one by
placing the new sample (`PlaceProperties`, `InsertedRanks`).

*`HTable`.* For every finite or infinite set of keys, every initial size and every
`MAX_COLLISION`. `TableInv` says that the table is `Sound`: as many slots as `size`,
in each a chain of different keys that hash to it. A push on a chain adds one node
(`PushSound`), so the inner loop of `htable_resize` adds those of a chain
(`MoveChainSound`) and the outer loop those of all chains (`ResizeSound`): the set of
nodes stays the same although every one changes its place. The refinement is about
that set: it is the map (`MapIs`), a lookup in the one slot finds what is anywhere in
it (`SearchDecides`), and an insert adds its own entry (`InsertNew`). `IsPrimeIs` says
that the odd divisors `is_prime` tries are enough.

*`HTableThreads`.* For every number of threads and keys, every table size and every
hash. The chain is a recursive function of the `next` pointers, and a step changes it
in the middle of other threads' walks, so nothing about chains is inductive. The
invariant speaks of single nodes: there are functions `seen` and `depth` (`Behind`,
under an existential quantifier, so they are history variables of the proof and not
of the model) with the keys that stood before a node when it was linked; a pointer
leads from a node to one that has seen exactly one key more, whoever stored it, and
a walk has compared its key with all that its cursor has seen. A lost node keeps its
`seen`; that is why a late store over it cannot duplicate a key. `depth` is bounded
and grows along a pointer: no chain is a circle, `Chain` is well defined
(`ChainIsPath`), and its nodes have different keys (`ChainKeysDiffer`). For
`LostOnlyByContention` the invariant also says that on a slot nobody contended the
cursors of the one insert are up to date (`EndInv`) and every linked node has a
predecessor (`PredecessorInv`), so it is in the chain (`NothingLost`).

*`TestRwlock`.* For every finite nonempty set of readers (`ReadersAssumption`; the
three kinds of thread are different, as `pthread_create` makes them), every clock
and each of the five kinds of lock. `RwInv` ties the place of each thread and of the
master to the flags and to the lock's counts, and says which kinds of lock can still
be under test at each place of the master.

*`GradeLib`.* For every list of tests in which a test of an output is registered
after its program with no other program between them (`RegistrationAssumption`), as
`grade-lab` registers them; `gradelib.py` alone does not guarantee it, and without it
"the most recent output" can be another program's. `GradeInv` describes the stack of
`run_test` calls (the loop's test, with at most its parent above it), that the output
at hand is that of the last program the loop has come to, and what the log files say
apart from the call in progress. `ScoreInv` adds that a test ends at most once in an
invocation, that the totals are the points of the tests that ended (`Counted`, `Paid`,
which differ by the test that a wrapper is counting), and that the exit status knows
of every failure.

*`Rkgrep`.* For every file, argument, algorithm, `PRIME` and memory behind the buffer.
`RkInv` says what memory is once the file is read, that a stored index is the first
occurrence in the document up to its first zero, and that each printed sentence is the
one `print_matched_sentence` makes around it; from that, where it leaves the buffer
(`SentenceOver`) and what it shows (`SentenceGood`) is a matter of positions. The
Rabin-Karp search is right because, modulo `PRIME`, dropping the first character and
adding the next gives the hash of the next window (`Rolls`), hence every rolled hash is
the hash of its window (`WindowHashes`), hence every window is in the filter
(`FilterHolds`) and no match is hidden (`NoMatchHidden`).

*`RkTest`.* For every pair of lengths, every draw and every submission. By the same
lemmas a right submission finds exactly the occurrences (`RightFinds`,
`RightFindsFiltered`); the worst-case document holds its pattern once (`OneB`); a word
never passes the end of the buffer (`WordFits`). A byte of the filter is between -128
and 127 (`ByteRange`) and its shifts are zero or not at fixed thresholds (`Shifted`,
`ClassIs`), which is `BitsComparedByClass`.

Induction over data is done without the library's schemas: a set of naturals has a
least element, so a set that holds 0 and n + 1 with n is all of them
(`CountingInduction` in `Collections`), and a recursive function is shown to be some
function that satisfies its equation before anything is said of its values.

Only model-checked: the liveness properties (`DriverTerminates`, `FCycReturns`,
`TesthashEnds`, `ContractPasses`, `GraderEnds`). The prover does neither fairness nor
ENABLED.

## Not modelled

* The bodies left to the students: `mm.c`, `rwlock.c`, the matchers of `rkgrep.c`,
  `bloom_add` and `bloom_query`, the parts of clab, binarylab. Where another part
  uses them they are modelled by their contract, their compiled reference or as a
  parameter.
* The harnesses of clab's parts (`part7_harness.c` among them) call those bodies
  once on fixed inputs and print a line; `GradeLib` takes that line as an input.
* `printresults` and option parsing of `mdriver.c`, `tester.c`; the Alpha counter,
  the interval timer and the clock rate.
* A time of zero seconds in `calculate_perfindex`; trace files with more lines than
  they declare (`read_trace` overruns its array before the assert); keys that are
  not ASCII (a negative `char` makes the hash code and the slot negative): the
  outcomes are undefined, and the inputs are excluded by named assumptions.
* A resize under threads without a lock: it uses freed memory, after which
  everything is possible; without an overlap it is the resize of `HTable`.

## Plan

1. Done: `MemLib`, `MmNaive` with `Malloc`; `Ranges`, `RangeCheck`, `MDriver`; `HTable`
   with `KVMap`; `HTableThreads`; `TestRwlock`; `FCyc`; `RkHash`, `Bloom`, `Rkgrep`,
   `RkTest`; `GradeLib`.
2. Proved: every safety property of the runs, the action property and both
   refinements.
3. Left: liveness stays with TLC. A resize under threads could be added to
   `HTableThreads` once the lab's locks are written.
