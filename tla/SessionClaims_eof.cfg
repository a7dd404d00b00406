SPECIFICATION Spec
CONSTANTS
    None = None
    Procs = {p1}
    FaultyClients = {}
    Ops <- WatchOnly
    MaxChunks = 1
    ChanCap = 1
    TtyCap = 1
PROPERTY
    EofAfterOutput
CHECK_DEADLOCK FALSE
