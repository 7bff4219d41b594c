SPECIFICATION StoredSpec
CONSTANTS
    Words = 2
    WordBits = 2
    Log2Max = 6
    Log2Align = 2
    LevelBits = 2
    Key <- AlignedKeys
    Value = {1, 2}
    NonLeafArray = {n1, n2, n3}
    LeafArray = {l1, l2, l3, l4}
    NULL = NULL
    HeapMayFail = FALSE
    NoCall = NoCall
    Pending = Pending
    Failed = Failed
    Undefined = Undefined
INVARIANTS
    FoundKeysWereStored
