CONSTANTS
    Responders = {r1, r2}
    Policies = {tunnel, transport}
    LogonLimit = 2
    Capacity = 3
    Backlog = 1
    MaxAttempts = 2
    MaxEpoch = 2
SPECIFICATION FairSpec
INVARIANTS
    TypeOK
    AssignedIsRegistered
    IdsNotShared
    OneEntryPerRegistration
PROPERTIES
    StopReturns
    RegisterReturns
