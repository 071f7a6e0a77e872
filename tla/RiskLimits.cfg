CONSTANTS
    o1 = o1
    o2 = o2
    Word = 16
    BpsScale = 4
    MaxOrderSize = 3
    MaxNotional = 6
    CollarBps = 3
    UniqueIds = TRUE
    NoReference = NoReference
    NoCheck = NoCheck
    Orders <- MCOrders
    References <- MCReferences
    MaxChecks = 3
SPECIFICATION Spec
INVARIANTS
    IdsAcceptedOnce
    WithinLimits
PROPERTY HaltTakesHold
