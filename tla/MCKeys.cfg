CONSTANTS
    b1 = b1
    b2 = b2
    s1 = s1
    s2 = s2
    None = None
    Blocks <- TwoBlocks
    Sessions <- TwoSessions
    Timeout = 1
    MaxTime = 2
SYMMETRY Symmetry
SPECIFICATION Spec
INVARIANTS ListedIsLive ActiveKept NoLateService
