SPECIFICATION Spec
CONSTANTS
    Hashes = {h1}
    IPs = {i1, i2}
    Sessions = {s1}
    IdleTimeout = 1
    Home = "Delete"
    MaxTime = 1
    MaxEvents = 2
INVARIANTS RunningIsRoutable SettledIsRight GoneLeavesNothing FinalizerGuardsChildren
PROPERTIES FollowsLife
SYMMETRY IPSymmetry
CHECK_DEADLOCK FALSE
