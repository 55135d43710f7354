CONSTANTS
    LastVersion = 2
    Finals = {}
    Reviews = {2}
    Buttons = {}
    InTransit = 2
SPECIFICATION FairSpec
PROPERTY NewestIsShown
CHECK_DEADLOCK FALSE
