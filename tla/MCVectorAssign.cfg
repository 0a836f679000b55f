\* operator= on a vector in use.
SPECIFICATION SpecWithAssign
CONSTANTS
    BaseCapacity = 2
    Values <- MCValues
    a = a
    b = b
    Default = a
    MaxSize = 9
    MaxBlocks = 2
INVARIANTS
    MemorySafe
