CONSTANTS
    c1 = c1
    c2 = c2
    a1 = a1
    a2 = a2
    h1 = h1
    h2 = h2
    HalfSeen = HalfSeen
    NoHash = NoHash
    Down = Down
    None = None
    Ids <- OneId
    Ips <- OneIp
    Fold <- SameFold
    Prints <- OnePrint
    Ops <- AddDelReset
    Faults <- DbFails
    InitDb <- UsedDb
    MaxInbox = 2
    MaxDetq = 1
    MaxAcl = 0
    MaxHalts = 1
SPECIFICATION Spec
INVARIANTS StoredInDb
CHECK_DEADLOCK TRUE
