\* The file, and one handler at a time.
SPECIFICATION Spec
CONSTANTS
    Voters = {v1, v2}
    Submitter = s
    None = None
    VotesRequired = 2
    VotesToReject = 3
    TimeoutAt = 3
    Modes = {"file"}
    MaxVotes = 3
    MaxOverlap = 1
PROPERTIES VerdictIsStored
CHECK_DEADLOCK FALSE
