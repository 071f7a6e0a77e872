CONSTANTS
    OrderIds = {o1, o2, o3}
    Traders = {t1, t2}
    MinPrice = 1
    MaxPrice = 2
    MaxQty = 2
    MaxSeq = 3
    Slots = {s1, s2, s3}
    NoSlot = NoSlot
    NoOrder = NoOrder
    NoTaker = NoTaker
    Stp = "CancelResting"
SPECIFICATION Spec
SYMMETRY Symmetry
INVARIANTS
    TypeOK
    StructuresAgree
    NoLeak
    NoEmptyLevel
    TimePriority
    NotCrossed
    DepthIsSum
    NoSelfTrade
    SnapshotIsTheBook
PROPERTIES
    ImplementsPriceTimeBook
    PriceTimeOrder
    PlaceIsKept
