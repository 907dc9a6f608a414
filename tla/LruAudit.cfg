SPECIFICATION AuditSpec
CONSTANTS
    Tables = {t1}
    MaxBlock = 2
    MaxSlot = 0
    Recs = {r1}
    Fill = Fill
    Zero = Zero
    Limit = 2
INVARIANT
    HeadIsLRU
