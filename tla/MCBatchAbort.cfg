\* The documented result of Promise.any.
SPECIFICATION Spec
CONSTANTS
    Races = {b1}
    p1 = p1
    p2 = p2
    Providers = {p1, p2}
    None = None
    CandidateLists <- Lists
    Parallel = 2
    Threshold = 2
    Cooldown = 1
    MaxFailures = 2
INVARIANT ReturnsSuccess
