CONSTANTS
    c1 = c1
    c2 = c2
    a1 = a1
    a2 = a2
    h1 = h1
    h2 = h2
    HalfSeen = HalfSeen
    NoHash = NoHash
    Down = Down
    None = None
    Ids <- OneId
    Ips <- OneIp
    Fold <- SameFold
    Prints <- OnePrint
    Ops <- AddResetPolicy
    Faults <- SwitchFails
    InitDb <- FreshDb
    MaxInbox = 1
    MaxDetq = 1
    MaxAcl = 2
    MaxHalts = 0
SPECIFICATION Spec
INVARIANTS EntryInUse
CHECK_DEADLOCK TRUE
