SPECIFICATION Spec
CONSTANTS
    b1 = b1
    b2 = b2
    b3 = b3
    s1 = s1
    s2 = s2
    Blocking = {b1, b2, b3}
    Streaming = {s1, s2}
    Rejected = {b3, s2}
    Chunks <- MCChunks
    MaxNew <- MCMaxNew
    MaxBatch = 2
    MaxFaults = 1
    MayLeave = {b1, s1}
    Ports = {"rust", "python"}
CHECK_DEADLOCK FALSE
INVARIANTS
    Undivided
    WholeAnswers
    LossNeedsCompany
PROPERTY
    Answered
