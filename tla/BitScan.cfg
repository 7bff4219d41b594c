SPECIFICATION Spec
CONSTANTS
    Words = 4
    Samples <- MCSamples
    StartBits <- MCStartBits
    EndBits <- MCEndBits
INVARIANTS
    TypeOK
    ReturnsFirst
CHECK_DEADLOCK FALSE
