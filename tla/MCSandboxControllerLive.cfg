SPECIFICATION FairSpec
CONSTANTS
    Hashes = {h1}
    IPs = {i1}
    Sessions = {s1}
    IdleTimeout = 0
    Home = "Existing"
    MaxTime = 0
    MaxEvents = 2
PROPERTIES StopSuspends DeletionCompletes
CHECK_DEADLOCK FALSE
