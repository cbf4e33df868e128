CONSTANTS
    Cases = {1}
    NoCase = 0
    MaxRuns = 1
SPECIFICATION Spec
INVARIANT
    PreparedBeforeStart
