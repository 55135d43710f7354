CONSTANTS
    t1 = t1
    t2 = t2
    t3 = t3
    t4 = t4
    TaskIds <- ThreeIds
    ActiveLimit = 1
    WaitingLimit = 2
SPECIFICATION FairSpec
PROPERTIES
    CancelPromotesNext
