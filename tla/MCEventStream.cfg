CONSTANTS
    worker = worker
    request = request
    c1 = c1
    c2 = c2
    Nobody = Nobody
    Readers = {c1}
    Writers = {worker, request}
    Interruptible = {worker}
    ChannelSize = 2
    LastVersion = 4
    Finals = {2, 4}
SPECIFICATION FairSpec
INVARIANTS
    TypeOK
    ChannelsFit
    NoUpdateLost
PROPERTIES
    ShowsInOrder
    StreamsEnd
