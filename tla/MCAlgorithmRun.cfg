CONSTANTS
    Cases = {1, 2}
    NoCase = 0
    MaxRuns = 1
SPECIFICATION Spec
INVARIANTS
    TypeOK
    PassIsOwn
    DoneIsTrue
    PassLeavesNothing
