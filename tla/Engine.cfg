SPECIFICATION Spec
CONSTANTS
    Names = {"t"}
    IndexNames = {1, 2}
    Cols = {1, 2}
    Keys = {k1, k2, NilKey}
    NilKey = NilKey
    Width = 5
    MaxTables = 1
    MaxRec = 3
    Blank = Blank
INVARIANTS
    TypeOK
    ScanIsRows
    IndexExact
    UniqueKeys
    FilesMatch
    CrashKeepsSaved
    
PROPERTIES
    RejectsCleanly
SYMMETRY Symmetry
CONSTRAINT Bounded
CHECK_DEADLOCK FALSE
