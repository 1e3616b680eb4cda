SPECIFICATION FairSpec
CONSTANTS
    IPs = {i1, i2}
    Conns = {c1}
    WakePolls = 1
    MaxEvents = 3
PROPERTIES
    HandlerAdvances
    HandlerEnds
    ClientServed
CHECK_DEADLOCK FALSE
