\* The list under every sequence of emplace_front, erase and destruction.
SPECIFICATION Spec
CONSTANTS
    Values <- MCValues
    a = a
    b = b
    MinGrow = 1
    MaxCapacity = 4
INVARIANTS
    TypeOK
    IsTheSequence
    EveryEntryOnOneChain
    ReleasedOnDestruction
