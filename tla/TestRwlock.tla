----------------------------- MODULE TestRwlock -----------------------------
(***************************************************************************)
(* threadlab/testrwlock.c: the judge of the reader-writer lock a student   *)
(* writes.  test_rwl_basic calls the lock from one thread; in              *)
(* test_rwl_priority the master plays a lingering reader, a writer and     *)
(* some readers against each other.  The lock is a parameter of the run:   *)
(* one that keeps the contract of rwlock.c, the stubs the repository       *)
(* ships, and locks that break the contract in a way the test is about.    *)
(*                                                                         *)
(* Every access to the test's flags is made under test_m, so each critical *)
(* section is one step; pthread_cond_wait ends one step and begins another.*)
(***************************************************************************)
EXTENDS Integers, Sequences, FiniteSets

CONSTANTS
    Readers,        \* the competing readers, 8 in the code
    ClockNsec,      \* what tv_nsec of the real-time clock may be
    Locks           \* the kinds of lock under test

\* The readers, the lingering reader and the writer are different threads.
ASSUME ReadersAssumption ==
    IsFiniteSet(Readers) /\ Readers # {} /\ Readers \cap {"linger", "writer"} = {}

ASSUME ClockAssumption == ClockNsec \subseteq 0 .. 999999999

ASSUME LocksAssumption == Locks \subseteq {"contract", "stub", "barging", "unfair", "shared"}

VARIABLES
    lock,           \* the kind of lock under test
    master,         \* where the master thread is
    step,           \* the next call of test_rwl_basic
    l1,             \* the lock of test_rwl_basic: readers and writers inside
    pc,             \* thread of test_rwl_priority -> where it is
    reader_in_cs, who_is_in_cs, reader_getout, peers_getout,
    late            \* auxiliary: a deadline was computed in the last 100 ns of a second

flags == <<reader_in_cs, who_is_in_cs, reader_getout, peers_getout>>
rwVars == <<lock, master, step, l1, pc, flags, late>>

-----------------------------------------------------------------------------
(* The lock.                                                               *)

ETIMEDOUT == 110
EINVAL == 22

\* May a thread enter in this mode, with this many readers and writers inside
\* and writers waiting?  "barging" admits readers past a waiting writer;
\* "shared" admits a writer next to readers; the stub admits everyone.
Admits(mode, readers, writers, waiting) ==
    \/ lock = "stub"
    \/ /\ writers = 0
       /\ \/ mode = "r" /\ (waiting = 0 \/ lock = "barging")
          \/ mode = "w" /\ (readers = 0 \/ lock = "shared")

\* A queued thread enters when it could; "unfair" lets a queued reader go
\* before a queued writer.
AdmitsQueued(mode, readers, writers, waiting) ==
    \/ Admits(mode, readers, writers, waiting)
    \/ lock = "unfair" /\ mode = "r" /\ writers = 0 /\ readers = 0

\* cond_timedwait of rwlock.c on a lock nobody else will release.
cond_timedwait(tv_nsec) == IF tv_nsec > 999999999 THEN EINVAL ELSE ETIMEDOUT

-----------------------------------------------------------------------------
(* test_rwl_basic.                                                         *)

Call(op, timed, want) == [op |-> op, timed |-> timed, want |-> want]

\* The calls in order, whether they have a deadline, and the result the test
\* insists on.
BasicCalls ==
    << Call("r", FALSE, 0), Call("w", TRUE, ETIMEDOUT), Call("r", TRUE, 0),
       Call("runlock", FALSE, 0), Call("runlock", FALSE, 0),
       Call("w", FALSE, 0), Call("w", TRUE, ETIMEDOUT), Call("r", TRUE, ETIMEDOUT),
       Call("wunlock", FALSE, 0) >>

\* get_expiretime: the clock plus 100 in tv_nsec, with no carry.
get_expiretime(now) == now + 100

Lock1(op) ==
    CASE op = "r" -> [l1 EXCEPT !.r = @ + 1]
      [] op = "w" -> [l1 EXCEPT !.w = @ + 1]
      [] op = "runlock" -> [l1 EXCEPT !.r = @ - 1]
      [] op = "wunlock" -> [l1 EXCEPT !.w = @ - 1]

Granted(op) == op \in {"runlock", "wunlock"} \/ Admits(op, l1.r, l1.w, 0)

\* One call; now is the clock when its deadline is computed.  A call without
\* a deadline that cannot enter never returns.
BasicStep(now) ==
    LET c == BasicCalls[step]
        got == IF Granted(c.op) THEN 0 ELSE cond_timedwait(get_expiretime(now))
    IN  /\ master = "basic"
        /\ step <= Len(BasicCalls)
        /\ Granted(c.op) \/ c.timed
        /\ l1' = IF got = 0 THEN Lock1(c.op) ELSE l1
        /\ step' = step + 1
        /\ master' = IF got = EINVAL THEN "ABORT"
                     ELSE IF got # c.want THEN "FATAL" ELSE "basic"
        /\ late' = (late \/ (c.timed /\ now >= 999999900))
        /\ UNCHANGED <<lock, pc, flags>>

-----------------------------------------------------------------------------
(* The threads of test_rwl_priority.                                       *)

Linger == "linger"
Writer == "writer"
Peers == Readers \cup {Writer}
AllThreads == Peers \cup {Linger}

Mode(t) == IF t = Writer THEN "w" ELSE "r"

\* A thread holds l2 from the return of its lock call to its unlock.
Inside == {t \in AllThreads : pc[t] \in {"locked", "condwait", "woken", "unlock"}}
Waiting == {t \in AllThreads : pc[t] = "queued"}

Inside2(mode) == Cardinality({t \in Inside : Mode(t) = mode})
WaitingWriters == Cardinality({t \in Waiting : Mode(t) = "w"})

\* The stub counts nobody.
rwl_nwaiters == IF lock = "stub" THEN 0 ELSE Cardinality(Waiting)

Goto(t, label) == pc' = [pc EXCEPT ![t] = label]

\* rwl_rlock or rwl_wlock is called without a deadline.
AskLock(t) ==
    /\ pc[t] = "start"
    /\ Goto(t, IF Admits(Mode(t), Inside2("r"), Inside2("w"), WaitingWriters)
               THEN "locked" ELSE "queued")
    /\ UNCHANGED <<lock, late, master, step, l1, flags>>

Grant(t) ==
    /\ pc[t] = "queued"
    /\ AdmitsQueued(Mode(t), Inside2("r"), Inside2("w"),
                    IF t = Writer THEN 0 ELSE WaitingWriters)
    /\ Goto(t, "locked")
    /\ UNCHANGED <<lock, late, master, step, l1, flags>>

GetOut(t) == IF t = Linger THEN reader_getout = 1 ELSE peers_getout = 1

\* The loop around pthread_cond_wait.
StayOrLeave(t) == Goto(t, IF GetOut(t) THEN "unlock" ELSE "condwait")

\* In the critical section of the lock: tell the master, then wait for it.
Announce(t) ==
    /\ pc[t] = "locked"
    /\ reader_in_cs' = IF t = Linger THEN 1 ELSE reader_in_cs
    /\ who_is_in_cs' = IF t = Linger THEN who_is_in_cs
                       ELSE IF t = Writer THEN 1 ELSE 2
    /\ StayOrLeave(t)
    /\ UNCHANGED <<lock, late, master, step, l1, reader_getout, peers_getout>>

\* POSIX allows pthread_cond_wait to return without a broadcast.
Spurious(t) ==
    /\ pc[t] = "condwait"
    /\ Goto(t, "woken")
    /\ UNCHANGED <<lock, late, master, step, l1, flags>>

Recheck(t) ==
    /\ pc[t] = "woken"
    /\ StayOrLeave(t)
    /\ UNCHANGED <<lock, late, master, step, l1, flags>>

Unlock(t) ==
    /\ pc[t] = "unlock"
    /\ Goto(t, "done")
    /\ UNCHANGED <<lock, late, master, step, l1, flags>>

ThreadStep(t) == AskLock(t) \/ Grant(t) \/ Announce(t) \/ Recheck(t) \/ Unlock(t)

-----------------------------------------------------------------------------
(* The master.                                                             *)

Master(from, to) ==
    /\ master = from
    /\ master' = to
    /\ UNCHANGED <<lock, late, step, l1>>

\* pthread_create of a thread that does not exist yet.
Create(t) == pc[t] = "unborn" /\ Goto(t, "start")

BasicDone ==
    /\ step > Len(BasicCalls)
    /\ Master("basic", "await_reader")
    /\ Create(Linger)
    /\ UNCHANGED flags

SpawnWriter ==
    /\ reader_in_cs = 1
    /\ Master("await_reader", "await_writer")
    /\ Create(Writer)
    /\ UNCHANGED flags

\* rwl_nwaiters is 1: the writer is waiting.
WriterWaits ==
    /\ rwl_nwaiters = 1
    /\ Master("await_writer", "spawn")
    /\ UNCHANGED <<pc, flags>>

SpawnReader ==
    /\ Master("spawn", "spawn")
    /\ \E t \in Readers : Create(t)
    /\ UNCHANGED flags

\* After the usleep, which ends at any time.
CheckNobody ==
    /\ \A t \in Readers : pc[t] # "unborn"
    /\ Master("spawn", IF who_is_in_cs = 0 THEN "await_all" ELSE "FATAL")
    /\ UNCHANGED <<pc, flags>>

\* Mutant: one waiter is enough.
AllWait_One ==
    /\ rwl_nwaiters >= 1
    /\ Master("await_all", "release")
    /\ UNCHANGED <<pc, flags>>

\* rwl_nwaiters is 9: the writer and the readers are all waiting.
AllWait ==
    /\ rwl_nwaiters = Cardinality(Peers)
    /\ Master("await_all", "release")
    /\ UNCHANGED <<pc, flags>>

\* Mutant: the flag is set, the waiter is not told.
Broadcast_Lost(group) == pc

\* pthread_cond_broadcast wakes the group's waiters.
Broadcast(group) ==
    [t \in AllThreads |-> IF t \in group /\ pc[t] = "condwait" THEN "woken" ELSE pc[t]]

ReleaseLinger ==
    /\ Master("release", "await_who")
    /\ reader_getout' = 1
    /\ pc' = Broadcast({Linger})
    /\ UNCHANGED <<reader_in_cs, who_is_in_cs, peers_getout>>

CheckWho ==
    /\ who_is_in_cs # 0
    /\ Master("await_who", IF who_is_in_cs = 1 THEN "let_out" ELSE "FATAL")
    /\ UNCHANGED <<pc, flags>>

ReleasePeers ==
    /\ Master("let_out", "join")
    /\ peers_getout' = 1
    /\ pc' = Broadcast(Peers)
    /\ UNCHANGED <<reader_in_cs, who_is_in_cs, reader_getout>>

Join ==
    /\ \A t \in AllThreads : pc[t] = "done"
    /\ Master("join", "PASSED")
    /\ UNCHANGED <<pc, flags>>

Over == master \in {"PASSED", "FATAL", "ABORT"}

\* The loops in which the master polls, and the end of the process.
Spin ==
    /\ \/ master = "await_writer" /\ rwl_nwaiters # 1
       \/ master = "await_all" /\ rwl_nwaiters # Cardinality(Peers)
       \/ Over
    /\ UNCHANGED rwVars

MasterStep ==
    \/ \E now \in ClockNsec : BasicStep(now)
    \/ BasicDone \/ SpawnWriter \/ WriterWaits \/ SpawnReader \/ CheckNobody
    \/ AllWait \/ ReleaseLinger \/ CheckWho \/ ReleasePeers \/ Join

RwInit ==
    /\ lock \in Locks
    /\ master = "basic"
    /\ step = 1
    /\ l1 = [r |-> 0, w |-> 0]
    /\ pc = [t \in AllThreads |-> "unborn"]
    /\ reader_in_cs = 0 /\ who_is_in_cs = 0
    /\ reader_getout = 0 /\ peers_getout = 0
    /\ late = FALSE

\* exit() of the master ends every thread.
RwNext ==
    \/ MasterStep
    \/ ~Over /\ \E t \in AllThreads : ThreadStep(t) \/ Spurious(t)
    \/ Spin

\* The scheduler runs every thread; nothing makes a spurious wakeup happen.
RwSpec ==
    /\ RwInit
    /\ [][RwNext]_rwVars
    /\ WF_rwVars(MasterStep)
    /\ \A t \in AllThreads : WF_rwVars(~Over /\ ThreadStep(t))

-----------------------------------------------------------------------------
(* Properties.                                                             *)

\* The judge is right, however the threads interleave: a lock that keeps the
\* contract is never failed, and neither the repository's stubs, nor a lock
\* that admits readers past a waiting writer, nor one that admits a writer next
\* to a reader is ever passed.
VerdictRight ==
    /\ master = "FATAL" => lock # "contract"
    /\ master = "PASSED" => lock \in {"contract", "unfair"}

\* When the master tells the lingering reader to get out, the contest is set
\* up as its comments say: "writer and other 8 readers are all waiting", and
\* nobody but the lingering reader is inside, whatever the lock.
ContestIsSet ==
    master = "release" => Waiting = Peers /\ Inside = {Linger}

\* A lock that keeps the contract is passed: no wakeup is lost between the flag
\* and the wait, and the polling loops see what they wait for.  Said of the runs in
\* which no deadline is computed in the last 100 ns of a second.
ContractPasses ==
    lock = "contract" => <>(master = "PASSED" \/ late)

\* "assert(r == 0 || r == ETIMEDOUT)" of cond_timedwait (rwlock.c) holds: whenever
\* the clock is read, get_expiretime gives a deadline that the wait accepts.
DeadlineAssertHolds == master # "ABORT"

=============================================================================
