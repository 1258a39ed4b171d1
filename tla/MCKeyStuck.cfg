\* Two requests and the end of a month.
SPECIFICATION Spec
CONSTANTS
    Requests = {r1, r2}
    None = None
    Budget = 2
    MaxTokens = 2
    MaxMonth = 1
INVARIANT RefusedInItsMonth
CHECK_DEADLOCK FALSE
