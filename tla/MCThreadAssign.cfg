\* operator= on a Thread that owns a thread it has joined.
SPECIFICATION SpecWithAssign
CONSTANTS
    Objects <- MCObjects
    Impls <- MCImpls
    o1 = o1
    o2 = o2
    i1 = i1
    i2 = i2
    None = None
INVARIANTS
    OneOwnerEach
