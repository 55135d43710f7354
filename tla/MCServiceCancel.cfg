CONSTANTS
    r1 = r1
    r2 = r2
    r3 = r3
    h1 = h1
    h2 = h2
    p1 = p1
    p2 = p2
    k1 = k1
    NoPlan = NoPlan
    NoKey = NoKey
    NoRun = NoRun
    MaxErrors = 2
    Runs = {r1}
    Deep = {r1}
    Plans = {p1, p2}
    Handlers = {h1, h2}
    Cancellers = {h1, h2}
    Keys = {k1}
    QuotaKey <- OneKey
    DailyLimit = 1
    SubmitAttempts = 2
    ActiveLimit = 1
    WaitingLimit = 0
SPECIFICATION Spec
SYMMETRY Symmetry
INVARIANTS
    TypeOK
    PlanAgreement
    ResultMatchesStatus
PROPERTIES
    FollowsLifecycle
