CONSTANTS
    Pages <- MCPages
    Quality <- MCQuality
    Documents <- MCDocuments
    Blank = blank
    Invalid = invalid
    Payloads <- MCPayloads
    MaxSubqueries = 3
    QueryCount <- MCQueryCount
    SourceLimit <- MCSourceLimit
    Attempts = 3
    SourceIds = {1, 2}

SPECIFICATION FairSpec

INVARIANTS
    TypeOK
    EvidenceNamesItsSource
    CitationsResolve
    SourcesAreBest
    MetricsCount
PROPERTY GraphEnds

CHECK_DEADLOCK FALSE
