SPECIFICATION Spec
CONSTANTS
    Keys = {1, 2, 3, 4, 5, 99}
    Vals = {0}
    NilKey = 99
    Modes = {"N"}
    Cap = 4
    BucketCap = 10
CHECK_DEADLOCK FALSE
INVARIANT
    NeverPanics
