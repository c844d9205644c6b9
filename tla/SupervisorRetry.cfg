SPECIFICATION FairSpec
CONSTANTS
    o1 = o1
    o2 = o2
    Orders <- MCOneOrder
    NoOrder = NoOrder
    Bank = Bank
    MaxAttempts = 4
    InitialBackoff = 1
    MaxBackoff = 3
    InnerCap = 1
    OuterCap = 1
    MaxLong = 1
    MaxPanics = 0
    MaxDiskFaults = 0
    MaxCrashes = 0
CHECK_DEADLOCK FALSE
INVARIANT BackoffKeepsPace
PROPERTY DisconnectEnds
