\* Both allocators over every placement of two blocks.
SPECIFICATION Spec
CONSTANTS
    MaxAddress = 15
    Sizes <- MCSizes
    Alignments <- MCAlignments
    OffsetModulus = 4
    PointerSize = 2
    MaxLive = 2
INVARIANTS
    TypeOK
    AlignedInsideABlock
    OneBlockEach
    MemorySafe
    AlignedMallocTestPasses
