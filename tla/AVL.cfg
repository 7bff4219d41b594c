SPECIFICATION GrownSpec
CONSTANTS
    Node <- MCKeys
    Key <- MCKeys
    KeysOf <- MCKeysOf
    NULL = NULL
VIEW InUse
INVARIANTS
    TypeOK
    LinksAgree
    Balanced
    SearchesExact
    NeighboursExact
PROPERTIES
    EveryWalkEnds
    ImplementsNodeMap
