\* Two accounts of one provider too, and two failures to open; no liveness.
SPECIFICATION Spec
CONSTANTS
    Requests = {r1, r2, r3}
    Groups = {"default"}
    Intents = {"chat"}
    DefaultLimit = 2
    p1 = p1
    p2 = p2
    Providers = {p1, p2}
    None = None
    CandidateLists <- Lists
    MaxCandidates = 2
    MaxRetries = 1
    Threshold = 2
    Cooldown = 1
    MaxFailures = 2
SYMMETRY Interchangeable
INVARIANTS TypeOK SlotHeldUntilSettled EveryCandidateTried
PROPERTIES ImplementsBreaker
