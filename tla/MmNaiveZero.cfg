\* A request of zero bytes at the end of the heap.
CONSTANTS
    MAX_HEAP = 64
    INT_MOD = 512
    Sizes = {0, 16}
    Bytes = {}
    Garbage = 0
SPECIFICATION NaiveSpec
INVARIANT AssertsHold
