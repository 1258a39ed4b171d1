\* Three voters of whom two decide, four votes, two handlers at once.
SPECIFICATION Spec
CONSTANTS
    Voters = {v1, v2, v3}
    Submitter = s
    None = None
    VotesRequired = 2
    VotesToReject = 2
    TimeoutAt = 1
    Modes = {"file", "cloud"}
    MaxVotes = 4
    MaxOverlap = 2
SYMMETRY Interchangeable
INVARIANTS VerdictsFollowVotes CloudDecidesOnce RecordedVoteKept
CHECK_DEADLOCK FALSE
