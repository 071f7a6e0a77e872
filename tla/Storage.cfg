CONSTANTS
    OrderIds = {o1, o2, o3, o4}
    Level = {l1, l2}
    NoLevel = NoLevel
    MaxQty = 3
    PoolCapacity = 0
    Word = 4
SPECIFICATION Spec
SYMMETRY Symmetry
INVARIANTS
    SlotsPartitioned
    ListsLinked
    DepthWraps
PROPERTIES
    ImplementsQueues
