CONSTANTS
    Cases = {1}
    NoCase = 0
    MaxRuns = 1
SPECIFICATION FairSpec
PROPERTIES
    RunEnds
    CaseEnds
    InterruptEnds
