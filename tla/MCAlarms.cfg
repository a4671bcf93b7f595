CONSTANTS
    n1 = n1
    n2 = n2
    text1 = text1
    reworded1 = reworded1
    text2 = text2
    b1 = b1
    b2 = b2
    t1 = t1
    t2 = t2
    xHead = xHead
    None = None
    Texts <- ThreeTexts
    NameOf <- NamesOfTexts
    Blocks <- TwoBlocks
    Sessions <- TwoSessions
    MaxPending = 1
SPECIFICATION FairSpec
INVARIANTS TypeOK OneOwner IterInList ComesBack NotifiesAll
PROPERTIES NotifierReturns
