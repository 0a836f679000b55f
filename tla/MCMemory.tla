------------------------------ MODULE MCMemory ------------------------------
(***************************************************************************)
(* Memory for TLC, scaled: the offset is kept in two bits instead of eight *)
(* (OffsetModulus 4 for 256), a pointer takes two cells, and the           *)
(* alignments go up to the modulus, the first one the assertion of         *)
(* aligned_malloc() turns away.                                            *)
(***************************************************************************)
EXTENDS Memory

MCSizes == 1 .. 2
MCAlignments == 1 .. 4

\* MemoryTest.AlignedMalloc at full width, with the offset in eight bits.
\* Every alignment of the test divides 256, so the bases 0 .. 255 stand for
\* every address new[] can return.
FullWidthTest == AlignedMallocTest(0 .. 255, 256)

\* MemoryTest.AlignedMalloc passes in a program that has used the allocators
\* as they ask to be used: aligned_malloc() hands out a multiple of each
\* alignment of the test, the size bytes behind it lie inside the block, and
\* aligned_free() finds the start of the block from the offset byte.
AlignedMallocTestPasses == Running => FullWidthTest
=============================================================================
