\* Four 16-byte slots; a size of 48 can enclose a block of 1 or 16.
CONSTANTS
    MAX_HEAP = 64
    INT_MOD = 256
    BlockSizes = {1, 16, 17, 48}
    Returns <- MCReturns
    Breaks <- MCBreaks
SPECIFICATION CheckSpec
INVARIANT NoOverlap
