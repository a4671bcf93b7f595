CONSTANTS
    c1 = c1
    c2 = c2
    a1 = a1
    a2 = a2
    h1 = h1
    h2 = h2
    HalfSeen = HalfSeen
    NoHash = NoHash
    Down = Down
    None = None
    Ids <- TwoIds
    Ips <- TwoIps
    Fold <- SameFold
    Prints <- OnePrint
    Ops <- NoOps
    Faults <- NoFaults
    InitDb <- MixedPair
    MaxInbox = 1
    MaxDetq = 1
    MaxAcl = 0
    MaxHalts = 0
SPECIFICATION FairSpec
INVARIANTS OnlyFaultyBlocked AclMatchesSwitch
PROPERTIES ImplementsOrders ImpostorGetsBlocked RecoveredGetsFreed ProbedForever
CHECK_DEADLOCK TRUE
