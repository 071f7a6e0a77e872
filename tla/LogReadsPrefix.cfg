CONSTANTS
    Commands = {c1, c2}
    HeaderUnits = 2
    RecordUnits = 3
    MaxRecords = 3
    Unreadable = Unreadable
SPECIFICATION Spec
SYMMETRY Symmetry
INVARIANTS
    ReadsAPrefix
    FlushIsKept
