SPECIFICATION Spec
CONSTANTS
    Configs <- OnePassConfigs
    MaxPos = 8
CHECK_DEADLOCK FALSE
INVARIANTS
    SampledInContext
    CacheExact
