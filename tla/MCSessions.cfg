CONSTANTS
    s1 = s1
    s2 = s2
    s3 = s3
    None = None
    Session <- ThreeSessions
    MaxSession = 2
SPECIFICATION FairSpec
INVARIANTS TypeOK SlotBalance ReleasedOnce NothingLeft
PROPERTIES ImplementsConnections StopEnds ServedIsReleased
CHECK_DEADLOCK FALSE
