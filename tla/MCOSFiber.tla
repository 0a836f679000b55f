----------------------------- MODULE MCOSFiber ------------------------------
(***************************************************************************)
(* OSFiber for TLC: two threads, so that one allocates and switches while  *)
(* the other does; three objects, so that a thread has the fiber made from *)
(* it and two more to switch between, and an address is used again after a *)
(* delete.                                                                 *)
(***************************************************************************)
EXTENDS OSFiber, TLC

CONSTANTS t1, t2, f1, f2, f3

MCThreads == {t1, t2}
MCFibers == {f1, f2, f3}

\* Threads are alike, and so are the addresses of the objects.
Symmetry == Permutations(MCThreads) \cup Permutations(MCFibers)
=============================================================================
