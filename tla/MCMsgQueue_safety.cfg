CONSTANTS
    p1 = p1
    p2 = p2
    c1 = c1
    c2 = c2
    m1 = m1
    m2 = m2
    m3 = m3
    NoMsg = NoMsg
    Producers <- TwoProducers
    Consumers <- TwoConsumers
    Message <- ThreeMessages
SYMMETRY Symmetry
SPECIFICATION Spec
INVARIANTS TypeOK TokenBalance OneOwner
CHECK_DEADLOCK FALSE
