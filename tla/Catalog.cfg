SPECIFICATION Spec
CONSTANTS
    Names = {"t", "u"}
    IndexNames = {"i", "j", "k"}
    Cols = {1, 2, 3}
    Widths = {3, 5, 8, 9}
    MaxTables = 2
    MaxRec = 5
INVARIANTS
    TypeOK
    Placement
    CountersAgree
    OneIndexPerColumn
