\* A GitHub connection, two sweeps, one request, two rotations, one crash.
SPECIFICATION FairSpec
CONSTANTS
    Connections = {gh}
    GitHub = {gh}
    Sweeps = {s1, s2}
    Requests = {r1}
    None = None
    Faults = {"network", "store", "crash"}
    MaxRotations = 2
    MaxCrashes = 1
INVARIANTS TypeOK NewestTokenKept
PROPERTIES DueIsHandled SuccessHeals
