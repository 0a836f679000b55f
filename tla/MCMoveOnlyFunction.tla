------------------------- MODULE MCMoveOnlyFunction -------------------------
(***************************************************************************)
(* MoveOnlyFunction for TLC: two function objects, and two callables of    *)
(* each storage class, so that a move can be told from a copy and the      *)
(* buffer from the heap.                                                   *)
(***************************************************************************)
EXTENDS MoveOnlyFunction

CONSTANTS f1, f2, small, large, p1, p2, p3

MCFunctions == {f1, f2}
MCCallables == {small, large}
MCSmallCallables == {small}
MCCells == {p1, p2, p3}
=============================================================================
