SPECIFICATION DropSpec
CONSTANTS
    Tables = {t1}
    MaxBlock = 2
    MaxSlot = 1
    Recs = {r1}
    Fill = Fill
    Zero = Zero
    Limit = 2
    NoTable = NoTable
    MaxRows = 5
PROPERTIES
    FirstByteIsNewBlock
