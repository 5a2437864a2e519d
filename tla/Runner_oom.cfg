SPECIFICATION RunnerSpec
CONSTANTS
    r1 = r1
    r2 = r2
    r3 = r3
    r4 = r4
    Requests = {r1, r2, r3, r4}
    PromptLen <- MCPromptLen
    MaxNew <- MCMaxNew
    Priority <- MCPriority
    CachedTokens <- MCCachedTokens
    MaxBatch = 2
    MaxTokensPerStep = 2
    ChunkSize = 2
    BlockSize = 2
    Configs <- TightConfigs
    NumLayers = 2
    MaxFaults = 1
CHECK_DEADLOCK FALSE
INVARIANT
    FedInOrder
