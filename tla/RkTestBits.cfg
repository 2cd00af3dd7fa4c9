\* The filters of the right submission.
CONSTANTS
    PRIME = 10007
    RADIX = 256
    H1PRIME = 7
    H2PRIME = 5
    BLOOM_HASH_NUM = 3
    Submissions = {"right"}
    Lengths <- MCLengths
    WordLens = {2, 3}
    Letters = {1, 2}
    Numbers = {0, 3, 8, 12, 50}
    TRIES = 2
    SMALL = 16
    LARGE = 24
SPECIFICATION TestSpec
CHECK_DEADLOCK FALSE
INVARIANT BitIsRead
