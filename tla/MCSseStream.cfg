\* Three streams, each of one of two bodies.
SPECIFICATION Spec
CONSTANTS
    Streams = {s1, s2, s3}
    None = None
    Bodies <- Answers
SYMMETRY Interchangeable
INVARIANTS ContentKept
CHECK_DEADLOCK FALSE
