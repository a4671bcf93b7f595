CONSTANTS
    p1 = p1
    p2 = p2
    c1 = c1
    c2 = c2
    m1 = m1
    m2 = m2
    m3 = m3
    NoMsg = NoMsg
    Producers <- TwoProducers
    Consumers <- OneConsumer
    Message <- ThreeMessages
SPECIFICATION FairSpec
INVARIANTS SingleReaderPops
PROPERTIES ImplementsFifo QueuedIsRead
CHECK_DEADLOCK FALSE
