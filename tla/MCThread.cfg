\* An owner that joins before it destroys, against the threads it started.
SPECIFICATION Spec
CONSTANTS
    Objects <- MCObjects
    Impls <- MCImpls
    o1 = o1
    o2 = o2
    i1 = i1
    i2 = i2
    None = None
INVARIANTS
    TypeOK
    MemorySafe
    OneOwnerEach
PROPERTIES
    JoinReturns
