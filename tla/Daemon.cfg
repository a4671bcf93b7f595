CONSTANTS
    MaxKey = 2
SPECIFICATION FairSpec
INVARIANTS DestroyedAfterJoin CaptureOnlyWhenProbed
PROPERTIES StopEnds
CHECK_DEADLOCK FALSE
