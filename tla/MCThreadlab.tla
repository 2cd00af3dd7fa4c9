---------------------------- MODULE MCThreadlab -----------------------------
(***************************************************************************)
(* The parts of threadlab for TLC.  They share no state, so a behaviour    *)
(* first chooses its part: the table used by one thread, testhash on a     *)
(* table without a lock, or testrwlock on one of the locks.  The others    *)
(* stay as they were at the start.                                         *)
(***************************************************************************)
EXTENDS MCHTable, MCHTableThreads, MCTestRwlock

VARIABLE part

ThreadlabInit ==
    /\ part \in {"htable", "testhash", "testrwlock"}
    /\ TableInit /\ ThreadsInit /\ RwInit
    /\ part # "testrwlock" => lock = "stub"

ThreadlabNext ==
    /\ \/ part = "htable" /\ TableNext /\ UNCHANGED <<threadVars, rwVars>>
       \/ part = "testhash" /\ ThreadsNext /\ UNCHANGED <<tableVars, rwVars>>
       \/ part = "testrwlock" /\ RwNext /\ UNCHANGED <<tableVars, threadVars>>
    /\ UNCHANGED part

\* The fairness of ThreadsSpec and RwSpec, for the part that runs.
ThreadlabSpec ==
    /\ ThreadlabInit
    /\ [][ThreadlabNext]_<<part, tableVars, threadVars, rwVars>>
    /\ \A t \in Threads : WF_threadVars(part = "testhash" /\ TestThreadStep(t))
    /\ WF_threadVars(part = "testhash" /\ (Validate \/ Passed))
    /\ WF_rwVars(part = "testrwlock" /\ MasterStep)
    /\ \A t \in AllThreads : WF_rwVars(part = "testrwlock" /\ ~Over /\ ThreadStep(t))

\* TestEnds of the part it is about: testhash ends, because no interleaving links a
\* chain into a cycle that a walk would follow for ever.
TesthashEnds == part = "testhash" => TestEnds
=============================================================================
