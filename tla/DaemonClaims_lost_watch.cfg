SPECIFICATION Spec
CONSTANTS
    None = None
    n1 = n1
    n2 = n2
    i1 = i1
    i2 = i2
    Handlers = {h1, h2}
    Ids <- TwoIds
    Names <- OneName
    Prefixed <- PrefixOfI1
    Ops <- QueueOps
    MayStick = FALSE
INVARIANT
    NoWatchLeftBehind
