SPECIFICATION FairSpec
CONSTANTS
    Modulus = 10
    Unapplied = Unapplied
    MaxSubs = 2
    Lifetime = 2
    MaxFlight = 2
    Burst = 2
    MaxStale = 0
    MaxLost = 1
    MaxDup = 1
INVARIANTS TypeOK NothingSkipped
PROPERTIES InLockstep FlowResumes
CHECK_DEADLOCK FALSE
