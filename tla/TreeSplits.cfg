SPECIFICATION SplitsSpec
CONSTANTS
    Keys = {1, 2, 3, 4, 5, 6, 7}
    Vals = {0}
    NilKey = 99
    Modes = {"N", "Y"}
    Cap = 2
    BucketCap = 1
INVARIANTS
    TypeOK
    Allocation
    ChainSorted
    SearchReaches
    Balanced
    ParentsRight
    NeverPanics
    WritesInside
PROPERTIES
    Refinement
    CallsReturn
