SPECIFICATION FairSpec
CONSTANTS
    s1 = s1
    NoKey = 0
    Gateways = {g1, g2}
    Operators = {o1}
    Sandboxes = {s1}
    Principals = {"ann", "bob"}
    owner <- MCowner
    Keys = {1, 2, 3, 4, 5, 6}
    TTL = 1
    MaxEvents = 1
INVARIANTS CertOpensItsSandboxes
PROPERTIES KeysAgree GatewaysServe SandboxesKeyed
