SPECIFICATION Spec
CONSTANTS
    Depth = 3
    Radix = 2
    Value = {1, 2}
    NULL = NULL
    HeapMayFail = TRUE
INVARIANTS
    TypeOK
    TreeOwnsNodes
    LookupExact
    GEQSound
PROPERTIES
    ImplementsMap
