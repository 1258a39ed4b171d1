\* Two streams that overlap, or follow each other.
SPECIFICATION Spec
CONSTANTS
    Streams = {s1, s2}
    None = None
    Bodies <- Answers
INVARIANTS ContentExact
CHECK_DEADLOCK FALSE
