CONSTANTS
    t1 = t1
    t2 = t2
    t3 = t3
    t4 = t4
    TaskIds <- FourIds
    ActiveLimit = 2
    WaitingLimit = 2
SPECIFICATION FairSpec
INVARIANTS
    TypeOK
    CapacityBound
    AdmittedOnce
    WorkConserving
    FutureMatchesAdmission
    ShutdownIsComplete
PROPERTIES
    NoOvertaking
    WaitingIsServed
    ShutdownTerminates
