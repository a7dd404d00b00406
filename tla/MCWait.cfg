SPECIFICATION FairWaitSpec
CONSTANTS
    None = None
    Procs = {w1, p1}
    Waiters = {w1}
    FaultyClients = {}
    Ops <- Removals
    Conds <- AllConds
    TextOn <- ShowsBriefly
    MaxChunks = 2
    ChanCap = 1
    TtyCap = 1
INVARIANTS
    WaitTypeOK
    NoMissedOutput
    IdleMeansQuiet
    MatchIsTrue
PROPERTIES
    WaitReturns
CHECK_DEADLOCK FALSE
