\* The picked traces of MDriver.cfg, two of which reallocate id 200.
CONSTANTS
    MAX_HEAP = 128
    INT_MOD = 512
    Sizes = {1, 17}
    Bytes = {}
    Garbage = 999
    SpeedRuns = 2
    Secs = {2, 3}
    MaxOps = 1
    FileLists <- MCFileLists
SPECIFICATION FairDriverSpec
INVARIANT ReallocJudgedByData
