SPECIFICATION FairSpec
CONSTANTS
    a = a
    b = b
    r1 = r1
    r2 = r2
    Namespaces = {a, b}
    Rules = {r1, r2}
    Grants <- MCGrants
    MaxEvents = 1
INVARIANTS RolesUnderFinalizer
PROPERTIES AccessRevoked AccessGranted ValidTruthful ReadyTruthful ProfileDeleted
