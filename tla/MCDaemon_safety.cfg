SPECIFICATION Spec
CONSTANTS
    None = None
    n1 = n1
    n2 = n2
    i1 = i1
    i2 = i2
    Handlers = {h1, h2, h3}
    Ids <- TwoIds
    Names <- TwoNames
    Prefixed <- PrefixOfI1
    Ops <- AllOps
    MayStick = TRUE
SYMMETRY HandlerSymmetry
INVARIANTS
    TypeOK
    NamesResolve
    WaiterInOnePlace
    DeliverNeverBlocks
    WatchGetsItsSession
    NoLostChild

    
