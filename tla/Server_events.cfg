SPECIFICATION Spec
CONSTANTS
    b1 = b1
    b2 = b2
    b3 = b3
    s1 = s1
    s2 = s2
    Blocking = {}
    Streaming = {s1, s2}
    Rejected = {}
    Chunks <- MCChunks
    MaxNew <- MCMaxNew
    MaxBatch = 2
    MaxFaults = 0
    MayLeave = {}
    Ports = {"rust"}
CHECK_DEADLOCK FALSE
INVARIANT
    EventPerToken
