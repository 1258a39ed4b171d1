\* One request that tries its candidates in turn next to a race of two tasks.
SPECIFICATION ModesSpec
CONSTANTS
    Requests = {r1}
    Races = {b1}
    Parallel = 2
    Groups = {"default"}
    Intents = {"chat"}
    DefaultLimit = 1
    p1 = p1
    p2 = p2
    Providers = {p1, p2}
    None = None
    CandidateLists <- Lists
    MaxCandidates = 3
    MaxRetries = 1
    Threshold = 2
    Cooldown = 1
    MaxFailures = 2
INVARIANTS SlotHeldUntilSettled EveryCandidateTried SharedFailuresMatchState
PROPERTIES ModesImplementBreaker
