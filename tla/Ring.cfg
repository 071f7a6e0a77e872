CONSTANTS
    Width = 3
    Capacity = 4
    Items = 10
    Raw = Raw
SPECIFICATION FairSpec
CHECK_DEADLOCK FALSE
INVARIANTS
    NoDataRace
    LifetimesPair
PROPERTIES
    ImplementsFifo
    Delivered
