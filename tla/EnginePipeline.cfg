CONSTANTS
    o1 = o1
    o2 = o2
    t1 = t1
    t2 = t2
    Submits <- MCSubmits
    Cancels <- MCCancels
    Shutdown <- MCShutdown
    Idle = Idle
    Capacity = 2
    MaxPushes = 4
    Stp = "CancelResting"
    OrderIds = {o1, o2}
    Traders = {t1, t2}
    MinPrice = 1
    MaxPrice = 2
    MaxQty = 3
    Word = 1024
    BpsScale = 10
    MaxOrderSize = 2
    MaxNotional = 0
    CollarBps = 6
    UniqueIds = TRUE
    NoReference = NoReference
    NoCheck = NoCheck
    HeaderUnits = 1
    RecordUnits = 1
    Unreadable = Unreadable
SPECIFICATION FairSpec
INVARIANTS
    EveryCommandOnce
    JournalLeads
    CountersAgree
    AtMostOneIsLate
    GateCoversTheIndex
PROPERTY Drains
