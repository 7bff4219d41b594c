SPECIFICATION Spec
CONSTANTS
    MaxCapacity = 2
    MaxBlocks = 3
INVARIANTS
    TypeOK
    EachObjectOnce
    UsedIsExact
PROPERTIES
    GrowsOnlyWhenAllHeld
    ImplementsAllocator
