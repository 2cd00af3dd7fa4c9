CONSTANTS
    PRIME = 13
    RADIX = 256
    H1PRIME = 7
    H2PRIME = 5
    BLOOM_HASH_NUM = 3
    MAX_PATTERNS = 3
    Garbage <- MCGarbage
    Args <- MCArgs
    Files <- MCFiles
    Tails <- MCTails
SPECIFICATION RkSpec
CHECK_DEADLOCK FALSE
INVARIANTS AlgorithmsAgree PrintsMatchedLine OverreadsExactly
