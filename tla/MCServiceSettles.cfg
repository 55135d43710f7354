CONSTANTS
    r1 = r1
    r2 = r2
    r3 = r3
    h1 = h1
    h2 = h2
    p1 = p1
    p2 = p2
    k1 = k1
    NoPlan = NoPlan
    NoKey = NoKey
    NoRun = NoRun
    MaxErrors = 1
    Runs = {r1, r2}
    Deep = {r2}
    Plans = {p1}
    Handlers = {h1}
    Cancellers = {h1}
    Keys = {k1}
    QuotaKey <- SecondExempt
    DailyLimit = 1
    SubmitAttempts = 2
    ActiveLimit = 1
    WaitingLimit = 1
SPECIFICATION FairSpec
PROPERTIES
    EveryRunSettles
