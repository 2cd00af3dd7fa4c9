CONSTANTS
    MAX_HEAP = 128
    INT_MOD = 512
    Sizes = {1, 17}
    Bytes = {}
    Garbage = 999
    SpeedRuns = 2
    Secs = {2, 3}
    MaxOps = 5
    FileLists <- MCFileLists
SPECIFICATION FairDriverSpec
INVARIANTS BooksMatchPackage RangesMatchPackage TotalIsLiveBytes
           JudgementExact PerfIndexBounded ReplaysNeverFail
PROPERTY DriverTerminates
