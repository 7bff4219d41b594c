SPECIFICATION Spec
CONSTANTS
    Depth = 2
    Radix = 2
    Value = {1}
    NULL = NULL
    HeapMayFail = FALSE
INVARIANTS
    GEQFindsNext
