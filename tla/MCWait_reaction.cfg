SPECIFICATION WaitSpec
CONSTANTS
    None = None
    Procs = {w1}
    Waiters = {w1}
    FaultyClients = {}
    Ops <- Nothing
    Conds <- Reactions
    TextOn <- ShowsBriefly
    MaxChunks = 2
    ChanCap = 2
    TtyCap = 1
INVARIANTS
    ReactionCounts
CHECK_DEADLOCK FALSE
