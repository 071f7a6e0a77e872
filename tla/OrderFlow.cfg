CONSTANTS
    OrderIds = {1, 2, 3}
    Traders = {t1, t2}
    MinPrice = 1
    MaxPrice = 3
    MaxQty = 2
    MaxSeq = 3
    Slots = {s1, s2, s3}
    NoSlot = NoSlot
    NoOrder = NoOrder
    NoTaker = NoTaker
    Stp = "CancelAggressing"
    initial_mid = 1
    tick = 1
    depth_levels = 1
    max_qty = 2
    MaxMid = 2
SPECIFICATION FlowSpec
SYMMETRY Symmetry
CHECK_DEADLOCK FALSE
INVARIANTS
    OrdersAreValid
    TracksOpenOrders
PROPERTIES
    ImplementsPriceTimeBook
    SubmitReturns
