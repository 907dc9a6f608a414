SPECIFICATION CrashSpec
CONSTANTS
    Keys = {1, 2, 3, 4, 5}
    Vals = {0, 1}
    Shared = {2}
    NilKey = 99
    Modes = {"Y", "N"}
    Cap = 2
    BucketCap = 1
CHECK_DEADLOCK FALSE
INVARIANTS
    OtherwiseHarmless
PROPERTIES
    CrashTearsNothing
