\* The documented rejection of calls while a circuit is open.
SPECIFICATION Spec
CONSTANTS
    Requests = {r1, r2}
    Groups = {"default"}
    Intents = {"chat"}
    DefaultLimit = 2
    p1 = p1
    p2 = p2
    Providers = {p1, p2}
    None = None
    CandidateLists <- Lists
    MaxCandidates = 2
    MaxRetries = 1
    Threshold = 2
    Cooldown = 1
    MaxFailures = 2
PROPERTIES NoCallWhileOpen
