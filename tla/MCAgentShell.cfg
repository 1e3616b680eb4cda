SPECIFICATION FairSpec
CONSTANTS
    Clients = {c1, c2}
    MaxShells = 2
INVARIANTS RunningIsShared
PROPERTIES HandlerReturns AttachEnds
CHECK_DEADLOCK FALSE
