-------------------------------- MODULE FCyc --------------------------------
(***************************************************************************)
(* malloclab/fcyc.c: the K-best measurement of a function's running time,  *)
(* with its parameters set between the calls, on the cycle counter of      *)
(* clock.c (its i386 version).  A time is a number of cycles.              *)
(***************************************************************************)
EXTENDS Integers, SequencesExt, FiniteSetsExt

CONSTANTS
    K, MAXSAMPLES, EPSILON,     \* the defaults: 3, 20 and 1 percent
    Times,          \* the cycles the measured function may take
    WORD,           \* values of an unsigned: 2^32, so the counter has WORD^2
    Starts,         \* what the counter may read when a measurement starts
    Ticks,          \* timer interrupts in a measurement
    Calibrations,   \* sets of cycles per tick callibrate may see
    RECORDTHRESH,   \* 3000 in clock.c
    KSettings, MaxSettings, EpsilonSettings,    \* epsilon in percent
    CacheSizes,     \* arguments of set_fcyc_cache_size
    CacheBlocks     \* arguments of set_fcyc_cache_block

ASSUME FCycAssumption ==
    /\ WORD \in Nat \ {0}
    /\ Times \subseteq 0 .. WORD * WORD - 1
    /\ Starts \cup Ticks \subseteq Nat
    /\ \A events \in Calibrations : events # {} /\ events \subseteq Nat
    /\ RECORDTHRESH \in Nat
    /\ {K, MAXSAMPLES} \cup KSettings \cup MaxSettings \subseteq Nat \ {0}
    /\ {EPSILON} \cup EpsilonSettings \subseteq Nat
    /\ CacheSizes \cup CacheBlocks \subseteq Nat \ {0}

SIZEOF_INT == 4

VARIABLES
    kbest, maxsamples, epsilon, compensate,     \* the parameters
    clear_cache, cache_bytes, cache_block,
    cache_buf,      \* bytes of the buffer clear() reads; 0 for NULL
    values,         \* the array of the best samples
    samplecount,
    cyc_per_tick,   \* clock.c: 0 until a calibration has found it
    where,          \* idle, sampling (inside fcyc), or exited
    result,         \* what the last call returned; -1 before that and in a call
    samples         \* auxiliary: the true times the current call has measured

parameters == <<kbest, maxsamples, epsilon, compensate, clear_cache>>
cache == <<cache_bytes, cache_block, cache_buf>>
sampler == <<values, samplecount, cyc_per_tick, where, result, samples>>
fcycVars == <<parameters, cache, sampler>>

-----------------------------------------------------------------------------
(* The cycle counter.                                                      *)

\* The counter's two words after c cycles.
access_counter(c) == [hi |-> (c \div WORD) % WORD, lo |-> c % WORD]

\* Mutant: the borrow of the low words is forgotten.
get_counter_NoBorrow(start, now) ==
    LET cyc  == access_counter(start)
        ncyc == access_counter(now)
    IN  ((ncyc.hi - cyc.hi) % WORD) * WORD + ((ncyc.lo - cyc.lo) % WORD)

\* The cycles from start to now, subtracted word by word.
get_counter(start, now) ==
    LET cyc    == access_counter(start)
        ncyc   == access_counter(now)
        lo     == (ncyc.lo - cyc.lo) % WORD
        borrow == IF lo > ncyc.lo THEN 1 ELSE 0
        hi     == (ncyc.hi - cyc.hi - borrow) % WORD
    IN  hi * WORD + lo

\* The least ratio of cycles to ticks above the threshold among the events.
callibrate(events) ==
    LET recorded == {cpt \in events : cpt > RECORDTHRESH}
    IN  IF recorded = {} THEN 0 ELSE Min(recorded)

\* Calibrates until it has found the ratio.
start_comp_counter(events) ==
    cyc_per_tick' = IF cyc_per_tick = 0 THEN callibrate(events) ELSE cyc_per_tick

get_comp_counter(start, now, ticks) ==
    get_counter(start, now) - ticks * cyc_per_tick'

-----------------------------------------------------------------------------
(* The sampler.  values[1] is the program's values[0].                     *)

\* Where add_sample puts the value, or 0: the array is full and the value is
\* not among the best (the program's pos stays at the sorted first entry).
Position(val) ==
    IF samplecount < kbest THEN samplecount + 1
    ELSE IF val < values[kbest] THEN kbest ELSE 0

\* Mutant: the loop never compares with the first entry.
Sorted_ShortLoop(vals, pos) ==
    LET place == 1 + Max({1} \cup {j \in 2 .. pos - 1 : vals[j] <= vals[pos]})
    IN  [j \in DOMAIN vals |->
            IF j < place \/ j > pos THEN vals[j]
            ELSE IF j = place THEN vals[pos] ELSE vals[j - 1]]

\* The insertion sort: the entry at pos moves down until the one before it is
\* not larger.
Sorted(vals, pos) ==
    LET place == 1 + Max({0} \cup {j \in 1 .. pos - 1 : vals[j] <= vals[pos]})
    IN  [j \in DOMAIN vals |->
            IF j < place \/ j > pos THEN vals[j]
            ELSE IF j = place THEN vals[pos] ELSE vals[j - 1]]

add_sample(val) ==
    LET pos == Position(val)
    IN  /\ values' = IF pos = 0 THEN values
                     ELSE Sorted([values EXCEPT ![pos] = val], pos)
        /\ samplecount' = samplecount + 1

\* Mutant: compares with the last sample, not with the best one.
has_converged_Last ==
    samplecount >= kbest /\ (100 + epsilon) * Last(samples) >= 100 * values[kbest]

has_converged ==
    samplecount >= kbest /\ (100 + epsilon) * values[1] >= 100 * values[kbest]

-----------------------------------------------------------------------------

FCycInit ==
    /\ kbest = K /\ maxsamples = MAXSAMPLES /\ epsilon = EPSILON
    /\ compensate = FALSE
    /\ clear_cache = FALSE
    /\ cache_bytes = 524288 /\ cache_block = 32 /\ cache_buf = 0
    /\ values = <<>> /\ samplecount = 0 /\ cyc_per_tick = 0
    /\ where = "idle" /\ result = -1 /\ samples = <<>>

\* fcyc is entered: init_sampler.
init_sampler ==
    /\ where = "idle"
    /\ where' = "sampling"
    /\ values' = [j \in 1 .. kbest |-> 0]
    /\ samplecount' = 0
    /\ samples' = <<>> /\ result' = -1
    /\ UNCHANGED <<parameters, cache, cyc_per_tick>>

\* The loop's condition.
Again == ~has_converged /\ samplecount < maxsamples

\* Mutant: the stride counts longs.
Stride_InLongs == cache_block \div 8

\* incr, the ints from one cache block to the next.
Stride == cache_block \div SIZEOF_INT

\* clear() allocates its buffer on first use and strides over it.
clear ==
    /\ Stride > 0
    /\ cache_buf' = IF cache_buf = 0 THEN cache_bytes ELSE cache_buf
    /\ UNCHANGED <<cache_bytes, cache_block>>

\* One round of the do-while loop without compensation; the measured function
\* takes t cycles.
Measure(start, t) ==
    /\ where = "sampling" /\ ~compensate
    /\ samplecount = 0 \/ Again
    /\ IF clear_cache THEN clear ELSE UNCHANGED cache
    /\ add_sample(get_counter(start, start + t))
    /\ samples' = Append(samples, t)
    /\ UNCHANGED <<parameters, cyc_per_tick, where, result>>

\* One round of the loop that takes the timer interrupts out of the time.
MeasureCompensated(start, t, ticks, events) ==
    /\ where = "sampling" /\ compensate
    /\ samplecount = 0 \/ Again
    /\ IF clear_cache THEN clear ELSE UNCHANGED cache
    /\ start_comp_counter(events)
    /\ add_sample(get_comp_counter(start, start + t, ticks))
    /\ samples' = Append(samples, t - ticks * cyc_per_tick')
    /\ UNCHANGED <<parameters, where, result>>

\* clear() exits when it gets no buffer.
ClearFails ==
    /\ where = "sampling"
    /\ samplecount = 0 \/ Again
    /\ clear_cache /\ cache_buf = 0
    /\ where' = "exited"
    /\ UNCHANGED <<parameters, cache, values, samplecount, cyc_per_tick, result,
                   samples>>

\* With a stride of 0 clear() never gets to the end of the buffer.
ClearLoops ==
    /\ where = "sampling"
    /\ samplecount = 0 \/ Again
    /\ clear_cache /\ Stride = 0
    /\ UNCHANGED fcycVars

\* fcyc returns the best sample and frees the array.
ReturnBest ==
    /\ where = "sampling"
    /\ samplecount > 0 /\ ~Again
    /\ result' = values[1]
    /\ values' = <<>> /\ samples' = <<>>
    /\ where' = "idle"
    /\ UNCHANGED <<parameters, cache, samplecount, cyc_per_tick>>

-----------------------------------------------------------------------------
(* The parameters, set between calls.                                      *)

set_fcyc_k(k) ==
    /\ where = "idle"
    /\ kbest' = k
    /\ UNCHANGED <<maxsamples, epsilon, compensate, clear_cache, cache, sampler>>

set_fcyc_maxsamples(n) ==
    /\ where = "idle"
    /\ maxsamples' = n
    /\ UNCHANGED <<kbest, epsilon, compensate, clear_cache, cache, sampler>>

set_fcyc_epsilon(e) ==
    /\ where = "idle"
    /\ epsilon' = e
    /\ UNCHANGED <<kbest, maxsamples, compensate, clear_cache, cache, sampler>>

set_fcyc_compensate(c) ==
    /\ where = "idle"
    /\ compensate' = c
    /\ UNCHANGED <<kbest, maxsamples, epsilon, clear_cache, cache, sampler>>

set_fcyc_clear_cache(c) ==
    /\ where = "idle"
    /\ clear_cache' = c
    /\ UNCHANGED <<kbest, maxsamples, epsilon, compensate, cache, sampler>>

\* Mutant: the old buffer is kept.
set_fcyc_cache_size_KeepBuffer(bytes) ==
    /\ where = "idle"
    /\ cache_bytes' = bytes
    /\ UNCHANGED <<parameters, cache_buf, cache_block, sampler>>

\* A new size drops the buffer.
set_fcyc_cache_size(bytes) ==
    /\ where = "idle"
    /\ cache_bytes' = bytes
    /\ cache_buf' = IF bytes # cache_bytes THEN 0 ELSE cache_buf
    /\ UNCHANGED <<parameters, cache_block, sampler>>

set_fcyc_cache_block(bytes) ==
    /\ where = "idle"
    /\ cache_block' = bytes
    /\ UNCHANGED <<parameters, cache_bytes, cache_buf, sampler>>

SetParameter ==
    \/ \E k \in KSettings : set_fcyc_k(k)
    \/ \E n \in MaxSettings : set_fcyc_maxsamples(n)
    \/ \E e \in EpsilonSettings : set_fcyc_epsilon(e)
    \/ \E c \in BOOLEAN : set_fcyc_compensate(c) \/ set_fcyc_clear_cache(c)
    \/ \E b \in CacheSizes : set_fcyc_cache_size(b)
    \/ \E b \in CacheBlocks : set_fcyc_cache_block(b)

Round ==
    \E start \in Starts, t \in Times :
        \/ Measure(start, t)
        \/ \E ticks \in Ticks, events \in Calibrations :
               MeasureCompensated(start, t, ticks, events)

FCycNext ==
    \/ init_sampler
    \/ Round
    \/ ClearFails
    \/ ClearLoops
    \/ ReturnBest
    \/ SetParameter
    \/ where = "exited" /\ UNCHANGED fcycVars

\* A call, once entered, is executed; nobody has to call.
FCycSpec ==
    /\ FCycInit
    /\ [][FCycNext]_fcycVars
    /\ WF_fcycVars(Round \/ ReturnBest)

-----------------------------------------------------------------------------
(* Properties.                                                             *)

\* During a call values holds the best of the true times so far, in order,
\* however they arrived, whether or not there are kbest of them yet, and wherever
\* the words of the counter wrapped around.
KSmallest ==
    where = "sampling" =>
        \E p \in Bijection(DOMAIN samples, DOMAIN samples) :
            /\ \A i, j \in DOMAIN samples : i < j => samples[p[i]] <= samples[p[j]]
            /\ \A i \in 1 .. Min({samplecount, kbest}) : values[i] = samples[p[i]]

\* What fcyc promises: it returns the least of the true times, also when it gives
\* up, or was told to take fewer samples than kbest; and it gives up only after
\* maxsamples, otherwise kbest of the samples lie within epsilon of the result.
ResultIsBest ==
    [][ReturnBest =>
        /\ result' = Min(ToSet(samples))
        /\ \/ Len(samples) >= maxsamples
           \/ Cardinality({j \in DOMAIN samples :
                              100 * samples[j] <= (100 + epsilon) * result'}) >= kbest
      ]_fcycVars

\* clear() never reads past its buffer: the buffer has the size that the loop
\* uses, through every change of the cache size.
BufferFits == cache_buf # 0 => cache_buf = cache_bytes

\* A measurement ends, unless it clears the cache with blocks smaller than an
\* int.
FCycReturns ==
    where = "sampling" /\ ~(clear_cache /\ cache_block < SIZEOF_INT)
        ~> where # "sampling"

=============================================================================
