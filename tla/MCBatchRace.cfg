\* Two concurrent batch requests of two tasks over two providers.
SPECIFICATION FairSpec
CONSTANTS
    Races = {b1, b2}
    p1 = p1
    p2 = p2
    Providers = {p1, p2}
    None = None
    CandidateLists <- Lists
    Parallel = 2
    Threshold = 2
    Cooldown = 1
    MaxFailures = 2
INVARIANTS AnswerJustified
PROPERTIES ImplementsBreaker EveryRaceAnswered
