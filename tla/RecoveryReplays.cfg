CONSTANTS
    o1 = o1
    o2 = o2
    t1 = t1
    t2 = t2
    Submits <- MCSubmits
    Cancels <- MCCancels
    Shutdown <- MCShutdown
    Idle = Idle
    Capacity = 2
    MaxPushes = 3
    Stp = "CancelResting"
    OrderIds = {o1, o2}
    Traders = {t1, t2}
    MinPrice = 1
    MaxPrice = 2
    MaxQty = 3
    Word = 1024
    BpsScale = 10
    MaxOrderSize = 2
    MaxNotional = 0
    CollarBps = 0
    UniqueIds = TRUE
    NoReference = NoReference
    NoCheck = NoCheck
    HeaderUnits = 2
    RecordUnits = 2
    Unreadable = Unreadable
SPECIFICATION RecoverySpec
CHECK_DEADLOCK FALSE
INVARIANTS
    RecoversALiveState
    FlushedSessionIsWhole
