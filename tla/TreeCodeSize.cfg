SPECIFICATION EndsSpec
CONSTANTS
    Keys = {1, 2, 3, 4, 5, 6, 7, 8, 9, 10, 11, 12, 13, 99}
    Vals = {0}
    NilKey = 99
    Modes = {"N"}
    Cap = 4
    BucketCap = 10
CHECK_DEADLOCK FALSE
INVARIANTS
    ChainSorted
    SearchReaches
