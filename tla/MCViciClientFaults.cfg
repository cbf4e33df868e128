CONSTANTS
    Threads = {t1, t2}
    Calls = {c1, c2, c3}
    NoThread = NoThread
    NoCall = NoCall
    CommandTimeout = 1
    SocketBuffer = 2
    Faults = {"BAD_EVENT"}
SPECIFICATION Spec
INVARIANT
    OneCommandAtATime
