CONSTANTS
    Runs = {r1, r2}
    Examples = {"battery", "coding", "energy"}
    LastVersion = 2
    ExamplesOf <- MCExamplesOf

SPECIFICATION FairSpec

INVARIANTS
    TypeOK
    NothingIsLeftBehind
    ReviewCanResume
    ExamplesAreCurrent
PROPERTY ExpiredIsDeleted
