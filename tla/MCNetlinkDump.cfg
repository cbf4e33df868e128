SPECIFICATION FairSpec
CONSTANTS
    Entries <- McEntries
    OtherFamily <- McOtherFamily
    Queries = {"states", "policies", "interfaces", "addresses", "routes"}
    MaxPerDatagram = 2
    MaxDatagrams = 3
    MaxChanges = 2
    Faults = {"socket", "receive", "silent", "refused", "aborted", "ack", "endless", "header", "sequence", "attribute", "memory"}
INVARIANTS TypeOK OkIsSnapshot OkIsComplete
PROPERTY QueryReturns
CHECK_DEADLOCK FALSE
