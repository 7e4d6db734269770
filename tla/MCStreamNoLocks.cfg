SPECIFICATION Spec
CONSTANTS
    k1 = k1
    k2 = k2
    NULL = NULL
    Card = {k1, k2}
    CardMax = 2
    BufferSize = 2
    Period <- MCPeriod
    Bytes = 2
    LocksWork = FALSE
INVARIANTS MutualExclusion
