CONSTANTS
    Key <- MCKey
    Value <- MCValue
    ValuesOf <- MCValuesOf
    NoValue = NoValue
    kEmpty = kEmpty
    Hashes <- MCHashes
    InitialCapacity = 2
    Reserves = {7}
    MaxLog2 = 5
SPECIFICATION Spec
INVARIANTS
    Searchable
PROPERTIES
    ReserveHolds
    ImplementsMap
