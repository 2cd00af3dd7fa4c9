CONSTANTS
\* mm: chunks of 32 bytes (size 1) and 48 bytes (size 17) in an arena that holds at
\* most three of them and is never filled to the last byte.
    MAX_HEAP = 104
    INT_MOD = 512
    Sizes = {1, 17}
    Bytes = {1}
    Garbage = 0
\* ranges: four 16-byte slots; a size of 48 can enclose a block of 1 or 16.
    BlockSizes = {1, 16, 17, 48}
    Returns <- MCReturns
    Breaks <- MCBreaks
\* fcyc: at most four samples of two times, with a tick or without; kbest below, at
\* and above the number of samples.  From 15 on the low word of the counter borrows,
\* from 250 on the whole counter wraps around.  The last calibration finds no ratio.
    K = 3
    MAXSAMPLES = 4
    EPSILON = 1
    Times = {100, 150}
    WORD = 16
    Starts = {15, 250}
    Ticks = {0, 1}
    Calibrations <- MCCalibrations
    RECORDTHRESH = 30
    KSettings = {6}
    MaxSettings = {2}
    EpsilonSettings = {50}
    CacheSizes = {64}
    CacheBlocks = {2, 4}
SPECIFICATION MalloclabSpec
INVARIANTS BlocksSound AssertsHold CheckHeapExact NaiveInv
           RangesAreHeld AcceptedInHeap OverlapDetected
           KSmallest BufferFits
PROPERTIES RefinesMalloc ResultIsBest FCycReturns
