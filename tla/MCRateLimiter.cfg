\* Two requests, a rolling and a fixed bucket, one restart.
SPECIFICATION FairSpec
CONSTANTS
    Requests = {r1, r2}
    None = None
    Never = Never
    rpm = rpm
    tpd = tpd
    Buckets = {rpm, tpd}
    Fixed = {tpd}
    Hinted = {rpm, tpd}
    Unit <- Units
    Length <- OneEach
    Limit <- OneEach
    Usage = {2}
    MaxTokens = 2
    Responses <- Answers
    Overdrawn <- TooMany
    MaxCrashes = 1
    MaxLate = 1
INVARIANTS Overshoot SavedWhenClean
PROPERTIES DenialEnds
