\* Three overlapping calls, two providers; a circuit trips after two failures.
SPECIFICATION FairSpec
CONSTANTS
    Providers = {p1, p2}
    Calls = {c1, c2, c3}
    None = None
    Threshold = 2
    Cooldown = 2
    MaxFailures = 3
INVARIANTS TypeOK FailuresMatchState HalfOpenAfterCooldown
PROPERTIES OpenDrains CooldownNeverRestarts Recovers
