SPECIFICATION MCSpec
CONSTANTS
    Sandboxes = {1, 2}
    Owners = {0, 1}
    MaxEvents = 2
INVARIANTS
    OlderKeepsClaim
    NoneForgotten
PROPERTIES
    WinnerRuns
    ClaimAppears
CHECK_DEADLOCK FALSE
