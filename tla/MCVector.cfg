\* The vector under every call but operator= on a vector in use.
SPECIFICATION Spec
CONSTANTS
    BaseCapacity = 2
    Values <- MCValues
    a = a
    b = b
    Default = a
    MaxSize = 9
    MaxBlocks = 2
INVARIANTS
    TypeOK
    HoldsWhatWasPut
    NothingLeaked
    MemorySafe
