SPECIFICATION FairWaitSpec
CONSTANTS
    None = None
    Procs = {w1}
    Waiters = {w1}
    FaultyClients = {}
    Ops <- Nothing
    Conds <- TimedText
    TextOn <- ShowsBriefly
    MaxChunks = 3
    ChanCap = 1
    TtyCap = 1
PROPERTIES
    TimeoutIsOverall
CHECK_DEADLOCK FALSE
