SPECIFICATION ViewSpec
CONSTANTS
    None = None
    Foreign = Foreign
    c1 = c1
    c2 = c2
    c3 = c3
    Commands = {c1, c2, c3}
    Scenarios <- AllScenarios
    MaxFaults = 1
    MaxFrames = 2
INVARIANTS
    ViewTypeOK
    StaleNeverBlocks
    RefusedForCause
    TerminalRestored
    StreamWhole
PROPERTIES
    OnlyRivalsTakeTheSocket
    CommandsEnd
    StopTakesEffect
    ViewEnds
CHECK_DEADLOCK FALSE
