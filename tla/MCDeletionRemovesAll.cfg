SPECIFICATION Spec
CONSTANTS
    Hashes = {h1}
    IPs = {i1}
    Sessions = {}
    IdleTimeout = 0
    Home = "Delete"
    MaxTime = 0
    MaxEvents = 2
INVARIANTS DeletionRemovesAll
CHECK_DEADLOCK FALSE
