CONSTANTS
    RequestIds = {r1, r2}
    NoRequest = none
    NumBlocks = 3
    BlockSize = 2
    MaxTokens = 4
    MaxCacheRefs = 1
SPECIFICATION Spec
INVARIANTS
    TypeOK
    RefCountExact
    FreePoolExact
    OwnersHold
