SPECIFICATION Spec
CONSTANTS
    Configs <- ChunkedConfigs
    MaxPos = 6
CHECK_DEADLOCK FALSE
INVARIANT
    SampledInContext
