SPECIFICATION Spec
CONSTANTS
    Node = {a, b, c, d}
    KeyBits = 3
    NULL = NULL
SYMMETRY Nodes
VIEW InUse
INVARIANTS
    TypeOK
    TrieWellFormed
    AssertionsHold
    GEQExact
    EveryNodeQueued
PROPERTIES
    ImplementsMultiMap
