CONSTANTS
    a = a
    b = b
    c = c
    Ids = {a, b, c}
    NoId = NoId
    MaxRecent = 2
    MaxCreations = 1
SPECIFICATION FairSpec
INVARIANTS
    TypeOK
    ModeRequestsShared
PROPERTIES
    HomeAndStorageAgree
    ModesSettle
