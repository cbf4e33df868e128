CONSTANTS
    Packets <- MCPackets
    NameLengths = {0, 1, 40}
    ValueLengths = {0, 40}
    MaxDepth = 4
    UintRange = 65536
    Queries = {"ikes", "children", "conns"}
SPECIFICATION Spec
CHECK_DEADLOCK FALSE
INVARIANTS
    TypeOK
    ReadsInside
    EventsStartClean
    CollectedAsSent
