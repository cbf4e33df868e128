CONSTANTS
    Contexts = {x1, x2}
    Sockets = {"default1", "default2", "other"}
    Timeouts = {0, 1, 2}
    DefaultTimeout = 1
    MaxRows = 2
    MaxChanges = 2
SPECIFICATION Spec
CHECK_DEADLOCK FALSE
INVARIANTS
    TypeOK
    NoContextLost
    ConnectedAsConfigured
SYMMETRY ContextSymmetry
