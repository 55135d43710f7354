CONSTANTS
    LastVersion = 3
    Finals = {3}
    Reviews = {2}
    Buttons = {"confirm", "cancel"}
    InTransit = 2
SPECIFICATION FairSpec
INVARIANT TypeOK
PROPERTIES
    HeardInOrder
    NewestIsShown
CHECK_DEADLOCK FALSE
