\* Threads that make fibers, switch between them and delete them by the rules
\* of the header.  SizeModulus 4 stands for 2^32: size 5 is a size the
\* conversion to uint32_t changes and leaves usable.
SPECIFICATION Spec
CONSTANTS
    Threads <- MCThreads
    Fibers <- MCFibers
    t1 = t1
    t2 = t2
    f1 = f1
    f2 = f2
    f3 = f3
    None = None
    StackSizes = {2, 5}
    SizeModulus = 4
    MaxSteps = 3
SYMMETRY Symmetry
INVARIANTS
    TypeOK
    MemorySafe
    ResumesWhereItLeft
