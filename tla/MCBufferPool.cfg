SPECIFICATION Spec
CONSTANTS
    Tables = {t1, t2}
    MaxBlock = 1
    MaxSlot = 1
    Recs = {r1}
    Fill = Fill
    Zero = Zero
    Limit = 2
SYMMETRY Symmetry
INVARIANTS
    TypeOK
    UniqueFrames
    PoolBound
    FilesEnd
PROPERTIES
    ReadsLatest
    CommitSaves
    Refinement
