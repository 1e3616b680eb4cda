SPECIFICATION FairSpec
CONSTANTS
    Procs = {2, 3, 4}
    MaxFaults = 1
INVARIANTS KeyPairMatches
PROPERTIES CommandsEnd PairKept
CHECK_DEADLOCK FALSE
