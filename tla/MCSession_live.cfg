SPECIFICATION FairSpec
CONSTANTS
    None = None
    Procs = {p1, p2}
    FaultyClients = {}
    Ops <- LiveOps
    MaxChunks = 2
    ChanCap = 1
    TtyCap = 1
PROPERTIES
    EndReturns
    WatchersEnd
    ChunksDelivered
