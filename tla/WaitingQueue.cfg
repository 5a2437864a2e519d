SPECIFICATION Spec
CONSTANTS
    r1 = r1
    r2 = r2
    r3 = r3
    r4 = r4
    r5 = r5
    r6 = r6
    Requests = {r1, r2, r3, r4, r5, r6}
    Priority <- MCPriority
    MaxBatch = 1
CHECK_DEADLOCK FALSE
INVARIANTS
    HeapOrder
    Conserved
PROPERTY
    ImplementsPriorityAdmission
