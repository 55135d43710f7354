CONSTANTS
    r1 = r1
    r2 = r2
    r3 = r3
    h1 = h1
    h2 = h2
    p1 = p1
    p2 = p2
    k1 = k1
    NoPlan = NoPlan
    NoKey = NoKey
    NoRun = NoRun
    MaxErrors = 2
    Runs = {r1, r2, r3}
    Deep = {r3}
    Plans = {p1}
    Handlers = {h1, h2}
    Cancellers = {}
    Keys = {k1}
    QuotaKey <- ThirdExempt
    DailyLimit = 1
    SubmitAttempts = 2
    ActiveLimit = 1
    WaitingLimit = 0
SPECIFICATION Spec
SYMMETRY RoomsSymmetry
INVARIANTS
    InProgressIsOwned
    QuotaConserved
    StreamsSeeTheEnd
