SPECIFICATION Spec
CONSTANTS
    None = None
    Procs = {p1, p2}
    FaultyClients = {p1, p2}
    Ops <- AllOps
    MaxChunks = 3
    ChanCap = 2
    TtyCap = 1
INVARIANTS
    TypeOK
    NoSendOnClosed
    StreamContiguous
    TeardownLast
    DoneIsFinal
    OkIsTrue
PROPERTIES
    NoLateSubscriber
    ImplementsFeed
CHECK_DEADLOCK FALSE
