SPECIFICATION HistorySpec
CONSTANTS
    Words = 2
    WordBits = 2
    Log2Max = 6
    Log2Align = 0
    LevelBits = 2
    Key <- Keys
    Value = {1, 2}
    NonLeafArray = {n1, n2, n3}
    LeafArray = {l1, l2, l3}
    NULL = NULL
    HeapMayFail = TRUE
    NoCall = NoCall
    Pending = Pending
    Failed = Failed
    Undefined = Undefined
SYMMETRY Arrays
INVARIANTS
    TypeOK
    FreeArraysAreClean
    TreeOwnsItsArrays
    NothingHollowUnlessFailed
    GEQExactUnlessFailed
    SmallWhenEmptied
PROPERTIES
    ImplementsMap
