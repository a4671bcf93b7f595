CONSTANTS
    c1 = c1
    c2 = c2
    a1 = a1
    a2 = a2
    h1 = h1
    h2 = h2
    HalfSeen = HalfSeen
    NoHash = NoHash
    Down = Down
    None = None
    Ids <- OneId
    Ips <- OneIp
    Fold <- SameFold
    Prints <- OnePrint
    Ops <- AddDelReset
    Faults <- HaltSwitchSays
    InitDb <- EmptyDb
    MaxInbox = 2
    MaxDetq = 1
    MaxAcl = 1
    MaxHalts = 1
SPECIFICATION Spec
INVARIANTS OnlyConvictedBlocked BlocksAreListed
CHECK_DEADLOCK TRUE
