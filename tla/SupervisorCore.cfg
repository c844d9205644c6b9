SPECIFICATION Spec
CONSTANTS
    o1 = o1
    o2 = o2
    Orders <- MCOrders
    NoOrder = NoOrder
    Bank = Bank
    MaxAttempts = 2
    InitialBackoff = 1
    MaxBackoff = 2
    InnerCap = 2
    OuterCap = 1
    MaxLong = 0
    MaxPanics = 1
    MaxDiskFaults = 0
    MaxCrashes = 1
CHECK_DEADLOCK FALSE
INVARIANTS TypeOK CancelStops GoalIsDurable
PROPERTY ImplementsStandingOrder
