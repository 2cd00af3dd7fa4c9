---------------------------- MODULE MCMalloclab -----------------------------
(***************************************************************************)
(* The parts of malloclab below the driver, for TLC.  They share no state, *)
(* so a behaviour first chooses its part: a client of mm-naive.c, the      *)
(* driver's range list against an arbitrary allocator, or the sampler of   *)
(* fcyc.c.  The others stay as they were at the start.                     *)
(***************************************************************************)
EXTENDS MCMmNaive, MCRangeCheck, MCFCyc

VARIABLE part

MalloclabInit ==
    /\ part \in {"mm", "ranges", "fcyc"}
    /\ Init /\ CheckInit /\ FCycInit

MalloclabNext ==
    /\ \/ part = "mm" /\ NaiveNext /\ UNCHANGED <<checkVars, fcycVars>>
       \/ part = "ranges" /\ CheckNext /\ UNCHANGED <<vars, fcycVars>>
       \/ part = "fcyc" /\ FCycNext /\ UNCHANGED <<vars, checkVars>>
    /\ UNCHANGED part

\* The fairness of FCycSpec: a call of fcyc is executed.
MalloclabSpec ==
    /\ MalloclabInit
    /\ [][MalloclabNext]_<<part, vars, checkVars, fcycVars>>
    /\ WF_fcycVars(Round \/ ReturnBest)
=============================================================================
