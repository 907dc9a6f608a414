SPECIFICATION QuerySpec
CONSTANTS
    Keys = {1, 2, 3, 4}
    Vals = {0, 1}
    NilKey = 99
    Modes = {"Y", "N"}
    Cap = 2
    BucketCap = 1
    Cols = {1, 2}
    Indexed = 1
    Unknown = 9
    NoCol = 0
    PerBlock = 2
    MaxRows = 4
INVARIANTS
    BucketsRight
    SelectComplete
    RowsOnce
PROPERTIES
    Refinement
    SelectReturns
