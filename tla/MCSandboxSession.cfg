SPECIFICATION FairSpec
CONSTANTS
    Conns = {c1}
    HeartbeatInterval = 1
    ClosedSessionRetention = 2
    Horizon = 3
    CloseHorizon = 4
    MaxTime = 7
INVARIANTS EndCoversActivity OpenMeansActive SessionQueued
PROPERTIES ClosedIsFinal ReapedOnlyWhenStale AbandonedSessionCloses ClosedSessionCollected
CHECK_DEADLOCK FALSE
