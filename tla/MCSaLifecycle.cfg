CONSTANTS
    SaIds = {s1, s2}
    Rounds = 2
    CleanupAttempts = 2
    MaxPrograms = 2
    MaxLate = 1
SPECIFICATION FairSpec
CHECK_DEADLOCK FALSE
INVARIANTS
    TypeOK
    VerifiedIsClean
    SuccessLeavesNothing
PROPERTIES
    RemovalReturns
