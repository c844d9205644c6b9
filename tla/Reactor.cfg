SPECIFICATION FairSpec
CONSTANTS
    m1 = m1
    m2 = m2
    Targets <- MCTargets
    NoTarget = NoTarget
    AutoPlay = TRUE
    MaxOrders = 3
    MaxTrouble = 1
    MaxStatus = 1
CHECK_DEADLOCK FALSE
INVARIANTS EngagedTogether CancelDisengages FishingInTurn
PROPERTIES EngageSettles FishingEnds
