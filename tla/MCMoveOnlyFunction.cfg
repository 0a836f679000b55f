SPECIFICATION Spec
CONSTANTS
    Functions <- MCFunctions
    Callables <- MCCallables
    SmallCallables <- MCSmallCallables
    f1 = f1
    f2 = f2
    small = small
    large = large
    None = None
    Cells <- MCCells
    p1 = p1
    p2 = p2
    p3 = p3
INVARIANTS
    TypeOK
    EveryCallableOwnedOnce
    MemorySafe
PROPERTIES
    ImplementsFunctionSpec
