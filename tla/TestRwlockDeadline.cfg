\* One reader, a lock that keeps the contract, and a clock at the first nanosecond
\* whose deadline needs a carry.
CONSTANTS
    Readers = {r1}
    ClockNsec = {0, 999999900}
    Locks = {"contract"}
SPECIFICATION RwSpec
INVARIANT DeadlineAssertHolds
