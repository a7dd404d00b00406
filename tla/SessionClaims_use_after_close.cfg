SPECIFICATION Spec
CONSTANTS
    None = None
    Procs = {p1, p2}
    FaultyClients = {}
    Ops <- ViewOps
    MaxChunks = 1
    ChanCap = 1
    TtyCap = 1
INVARIANT
    SafeForConcurrentUse
CHECK_DEADLOCK FALSE
