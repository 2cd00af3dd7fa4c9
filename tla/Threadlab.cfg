CONSTANTS
\* htable: sizes 2 and 11 at first; inserts take them to 5, 11 and 23.
    Keys <- MCKeys
    Vals = {v1, v2}
    None = None
    BIG_PRIME = 1560007
    InitSizes = {1, 8}
    MAX_COLLISION = 2
\* testhash: three threads, four keys, three of them on one slot.
    TESTSZ = 4
    num_threads = 3
    HashOf <- MCHash
    SIZE = 2
\* testrwlock: five readers; some queue, some can still be starting when others
\* have gone.
    Readers = {r1, r2, r3, r4, r5}
    ClockNsec = {0, 999999899, 999999900}
    Locks <- MCLocks
SPECIFICATION ThreadlabSpec
INVARIANTS WellPlaced SizeIsPrime
           ThreadsTypeOK ChainsSound LostOnlyByContention
           VerdictRight ContestIsSet
PROPERTIES RefinesKVMap TesthashEnds ContractPasses
