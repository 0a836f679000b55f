------------------------------- MODULE Memory -------------------------------
(***************************************************************************)
(* Aligned allocation in marl: marl::aligned_malloc and aligned_free of    *)
(* include/marl/memory.h, which keep the distance to the start of the      *)
(* block in the byte before the aligned pointer, and the default allocator *)
(* of src/memory.cpp, which keeps the start of the block behind the last   *)
(* byte of the caller.                                                     *)
(*                                                                         *)
(* Memory is an array of cells.  The C library hands out blocks anywhere   *)
(* it likes, at any alignment, and takes back only an address it handed    *)
(* out; the caller of an allocator writes to every byte it asked for.      *)
(***************************************************************************)
EXTENDS Integers, FiniteSets

CONSTANTS
    MaxAddress,      \* bound on the addresses
    Sizes,           \* the sizes asked for
    Alignments,      \* the alignments asked for
    OffsetModulus,   \* 2^8: the offset is kept in a uint8_t
    PointerSize,     \* sizeof(void*)
    MaxLive          \* bound on the allocations alive at a time

ASSUME /\ MaxAddress \in Nat /\ OffsetModulus \in Nat /\ PointerSize \in Nat \ {0}
       /\ Sizes \subseteq Nat /\ Alignments \subseteq Nat \ {0} /\ MaxLive \in Nat

VARIABLES
    blocks,   \* the blocks of malloc() and new[] in use: [base, size]
    cells,    \* cells[a]: what the allocator wrote at a, Data or Garbage otherwise
    handed,   \* the allocations the callers hold
    fault     \* the undefined behaviour met, "none" so far

vars == <<blocks, cells, handed, fault>>

Addresses == 0 .. MaxAddress
Garbage   == -1     \* a cell nobody wrote since its block was allocated
Data      == -2     \* a cell the caller wrote

Range(base, size) == base .. (base + size - 1)

\* Mutant: alignUp() that rounds down.
AlignUpRoundsDown(val, alignment) == alignment * (val \div alignment)

\* Mutant: alignUp() without the division.
AlignUpTimes(val, alignment) == alignment * (val + alignment - 1)

\* alignUp
AlignUp(val, alignment) == alignment * ((val + alignment - 1) \div alignment)

\* Mutant: an assertion that lets an alignment of 256 through.
AssertedAlignmentInclusive(alignment) == alignment <= OffsetModulus

\* MARL_ASSERT(alignment < 256, ...)
AssertedAlignment(alignment) == alignment < OffsetModulus

\* malloc(n), new uint8_t[n]: any n cells that no block in use holds.
CanMalloc(base, n) ==
    /\ Range(base, n) \subseteq Addresses
    /\ \A b \in blocks : Range(base, n) \cap Range(b.base, b.size) = {}

\* free(p), delete[] p: p must be the start of a block in use.
FreeBlock(p) ==
    IF \E b \in blocks : b.base = p
    THEN /\ blocks' = {b \in blocks : b.base # p}
         /\ cells' = [a \in Addresses |->
                         IF \E b \in blocks : b.base = p /\ a \in Range(b.base, b.size)
                         THEN Garbage ELSE cells[a]]
         /\ UNCHANGED fault
    ELSE /\ fault' = "free of what was not allocated"
         /\ UNCHANGED <<blocks, cells>>

\* The allocator writes value at address a of the block it just got.
Store(base, n, a, width, value) ==
    IF Range(a, width) \subseteq Range(base, n)
    THEN cells' = [cells EXCEPT ![a] = value] /\ UNCHANGED fault
    ELSE fault' = "write outside the block" /\ UNCHANGED cells

Hand(ptr, size, alignment, by) ==
    handed' = handed \cup {[ptr |-> ptr, size |-> size, alignment |-> alignment, by |-> by]}

Running == fault = "none"

-----------------------------------------------------------------------------
(* memory.h                                                                *)

\* Mutant: aligned_malloc() without the byte it sets aside for the offset.
PlacementWithoutOffsetByte(base, alignment, size, modulus) ==
    LET aligned == AlignUp(base, alignment)
    IN  [n       |-> size + alignment,
         aligned |-> aligned,
         offset  |-> (aligned - base) % modulus]

\* aligned_malloc with new[] returning base: the bytes it asks for, the
\* pointer it returns and the offset it stores, a uint8_t of the given
\* modulus.
Placement(base, alignment, size, modulus) ==
    LET aligned == AlignUp(base + 1, alignment)
    IN  [n       |-> size + 1 + alignment,
         aligned |-> aligned,
         offset  |-> (aligned - base) % modulus]

\* marl::aligned_malloc
AlignedMalloc(alignment, size) ==
    /\ Running /\ Cardinality(handed) < MaxLive
    /\ AssertedAlignment(alignment)
    /\ \E base \in Addresses :
          LET n       == Placement(base, alignment, size, OffsetModulus).n
              aligned == Placement(base, alignment, size, OffsetModulus).aligned
              offset  == Placement(base, alignment, size, OffsetModulus).offset
          IN  /\ CanMalloc(base, n)
              /\ blocks' = blocks \cup {[base |-> base, size |-> n]}
              /\ Store(base, n, aligned - 1, 1, offset)
              /\ Hand(aligned, size, alignment, "memory.h")

\* marl::aligned_free
AlignedFree(h) ==
    /\ Running /\ h.by = "memory.h"
    /\ IF cells[h.ptr - 1] \notin Addresses
       THEN fault' = "read of what was overwritten" /\ UNCHANGED <<blocks, cells>>
       ELSE FreeBlock(h.ptr - cells[h.ptr - 1])
    /\ handed' = handed \ {h}

-----------------------------------------------------------------------------
(* memory.cpp                                                              *)

\* DefaultAllocator::allocate: aligned_malloc() of memory.cpp for an
\* alignment above 1, malloc() otherwise.
Allocate(alignment, size) ==
    /\ Running /\ Cardinality(handed) < MaxLive
    /\ \E base \in Addresses :
          IF alignment > 1
          THEN LET n       == size + alignment + PointerSize
                   aligned == AlignUp(base, alignment)
               IN  /\ CanMalloc(base, n)
                   /\ blocks' = blocks \cup {[base |-> base, size |-> n]}
                   /\ Store(base, n, aligned + size, PointerSize, base)
                   /\ Hand(aligned, size, alignment, "memory.cpp")
          ELSE /\ CanMalloc(base, size)
               /\ blocks' = blocks \cup {[base |-> base, size |-> size]}
               /\ Hand(base, size, alignment, "memory.cpp")
               /\ UNCHANGED <<cells, fault>>

\* Mutant: DefaultAllocator::free that leaves unaligned blocks alone.
FreeSkipsUnaligned(h) ==
    /\ Running /\ h.by = "memory.cpp"
    /\ IF h.alignment > 1
       THEN FreeBlock(cells[h.ptr + h.size])
       ELSE UNCHANGED <<blocks, cells, fault>>
    /\ handed' = handed \ {h}

\* DefaultAllocator::free: aligned_free() of memory.cpp, or free().
Free(h) ==
    /\ Running /\ h.by = "memory.cpp"
    /\ IF h.alignment <= 1 THEN FreeBlock(h.ptr)
       ELSE IF cells[h.ptr + h.size] \notin Addresses
       THEN fault' = "read of what was overwritten" /\ UNCHANGED <<blocks, cells>>
       ELSE FreeBlock(cells[h.ptr + h.size])
    /\ handed' = handed \ {h}

-----------------------------------------------------------------------------
(* MemoryTest.AlignedMalloc                                                *)

TestSizes ==
    {1, 2, 3, 4, 5, 7, 8, 14, 16, 17, 31, 34, 50, 63, 64, 65, 100, 127, 128, 129,
     200, 255, 256, 257, 500, 511, 512, 513}

TestAlignments == {1, 2, 4, 8, 16, 32, 64, 128}

\* One round of the test with new[] returning base: the pointer is a multiple
\* of the alignment (ASSERT_EQ), memset() of size bytes stays behind the
\* offset byte and inside the block, and aligned_free() goes from the offset
\* it reads back to the start of the block.
AlignedMallocRound(base, alignment, size, modulus) ==
    LET p == Placement(base, alignment, size, modulus)
    IN  /\ p.aligned % alignment = 0
        /\ base < p.aligned
        /\ p.aligned + size <= base + p.n
        /\ p.aligned - p.offset = base

\* The test, over the bases new[] may return.
AlignedMallocTest(bases, modulus) ==
    \A alignment \in TestAlignments, size \in TestSizes, base \in bases :
        AlignedMallocRound(base, alignment, size, modulus)

\* The caller fills the bytes it asked for, as memset() in the tests does.
Fill(h) ==
    /\ Running
    /\ \E a \in Range(h.ptr, h.size) : cells[a] # Data
    /\ cells' = [a \in Addresses |-> IF a \in Range(h.ptr, h.size) THEN Data ELSE cells[a]]
    /\ UNCHANGED <<blocks, handed, fault>>

Init ==
    /\ blocks = {}
    /\ cells = [a \in Addresses |-> Garbage]
    /\ handed = {}
    /\ fault = "none"

Next ==
    \/ \E alignment \in Alignments, size \in Sizes :
          AlignedMalloc(alignment, size) \/ Allocate(alignment, size)
    \/ \E h \in handed : AlignedFree(h) \/ Free(h) \/ Fill(h)

Spec == Init /\ [][Next]_vars

-----------------------------------------------------------------------------
TypeOK ==
    /\ blocks \subseteq [base : Addresses, size : Nat]
    /\ cells \in [Addresses -> Addresses \cup {Garbage, Data}]
    /\ handed \subseteq [ptr : Addresses, size : Sizes, alignment : Alignments,
                         by : {"memory.h", "memory.cpp"}]
    /\ fault \in {"none", "free of what was not allocated", "write outside the block",
                  "read of what was overwritten"}

\* The block of an allocation: the one its bytes lie in.
BlocksOf(h) == {b \in blocks : Range(h.ptr, h.size) \subseteq Range(b.base, b.size)}

\* What a caller gets is what it asked for: the pointer is a multiple of the
\* alignment and all size bytes lie inside one block that is in use, whatever
\* address malloc() chose and however often blocks were freed and reused.
\* aligned_malloc() asks for size + alignment + room for its bookkeeping and
\* rounds the address up.
AlignedInsideABlock ==
    \A h \in handed : h.ptr % h.alignment = 0 /\ BlocksOf(h) # {}

\* No block is lost and none is shared: the blocks in use are the blocks of
\* the allocations the callers hold, one each.  free() finds the start of the
\* block in the bookkeeping that allocate() left next to the caller's bytes.
OneBlockEach ==
    Running =>
        /\ Cardinality(blocks) = Cardinality(handed)
        /\ \A h \in handed : Cardinality(BlocksOf(h)) = 1

\* No allocation or release is undefined: the bookkeeping is written inside
\* the block, the caller's bytes never cover it, and free() and delete[] get
\* the address malloc() and new[] returned, with the offset kept in eight
\* bits.
MemorySafe == Running
=============================================================================
