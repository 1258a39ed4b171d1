\* The documented effect of a recovery probe.
SPECIFICATION Spec

CONSTANTS
    box = box
    alias = alias
    None = None
    Models = {box, alias}
    Local = {box, alias}
    NodeRow <- OtherName
    Calls = {c1}
    Sweeps = {s1}
    Threshold = 2
    MaxTier = 1
    Backoff <- Short
    MaxFailures = 3
    MaxTorn = 0

PROPERTIES
    ProbeDecides
