SPECIFICATION Spec
CONSTANTS
    r1 = r1
    r2 = r2
    r3 = r3
    Requests = {r1, r2, r3}
    Sequences <- MCSequences
    Blocks = {b1, b2, b3, b4}
    BlockSize = 2
    Modes <- MCModes
SYMMETRY Symmetry
CHECK_DEADLOCK FALSE
INVARIANTS
    TreeShape
    Remembered
    BlocksSafe
PROPERTY
    StableHits
