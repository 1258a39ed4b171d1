\* Three requests at a time; a key that is gone takes no more requests.
SPECIFICATION Spec
CONSTANTS
    Requests = {r1, r2, r3}
    None = None
    Budget = 2
    MaxTokens = 2
    MaxMonth = 2
INVARIANTS OverspendBounded CountsThisMonth
CHECK_DEADLOCK FALSE
