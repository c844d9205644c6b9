SPECIFICATION FairSpec
CONSTANTS
    l1 = l1
    l2 = l2
    Lines <- MCLines
    NoLine = NoLine
    MaxLost = 1
    MaxLate = 1
    MaxOld = 0
    MaxEvents = 1
    MaxWarps = 1
    MaxAsks = 2
    MaxPos = 1
CHECK_DEADLOCK FALSE
INVARIANTS PosAwaitsZone TransitionInOrder ViaIsAsked AsksOutsideEvents
PROPERTIES HandshakeServed LimboEnds
