\* Three requests, two slots, two providers, one retry.
SPECIFICATION FairSpec
CONSTANTS
    Requests = {r1, r2, r3}
    Groups = {"default"}
    Intents = {"chat"}
    DefaultLimit = 2
    p1 = p1
    p2 = p2
    Providers = {p1, p2}
    None = None
    CandidateLists <- ShortLists
    MaxCandidates = 2
    MaxRetries = 1
    Threshold = 1
    Cooldown = 1
    MaxFailures = 1
INVARIANTS TypeOK SlotHeldUntilSettled EveryCandidateTried
PROPERTIES ImplementsBreaker EveryRequestAnswered
