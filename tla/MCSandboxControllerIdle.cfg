SPECIFICATION FairSpec
CONSTANTS
    Hashes = {h1}
    IPs = {i1}
    Sessions = {s1}
    IdleTimeout = 1
    Home = "Retain"
    MaxTime = 2
    MaxEvents = 1
PROPERTIES IdleSuspends WantedRuns
CHECK_DEADLOCK FALSE
