CONSTANTS
    OpsPerFunc = 7
    Requests <- MCRequests
    Strategies <- MCStrategies
    Checkpoints <- MCCheckpoints
SPECIFICATION Spec
CHECK_DEADLOCK FALSE
INVARIANTS
    ReadBack
    GraphRouted
    Routed
    PlanRouted
    TypesAgree
    CacheBound
    CutKeepsAttributes
    ShapesSound
    Executed
    WeightsBound
    RewritesKeepResults
    OracleAgrees
