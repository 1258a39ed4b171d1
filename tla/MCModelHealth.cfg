\* Two requests and two overlapping sweeps over one local model; the third
\* tier is the ceiling.
SPECIFICATION FairSpec
CONSTANTS
    box = box
    alias = alias
    None = None
    Models = {box}
    Local = {box}
    NodeRow <- SameName
    Calls = {c1, c2}
    Sweeps = {s1, s2}
    Threshold = 2
    MaxTier = 2
    Backoff <- Growing
    MaxFailures = 4
    MaxTorn = 1
INVARIANTS TypeOK DegradedAtThreshold TierEarned HeldForItsTier
PROPERTIES HealsWithoutTraffic
