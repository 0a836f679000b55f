------------------------------ MODULE MCVector ------------------------------
(***************************************************************************)
(* Vector for TLC.  With BASE_CAPACITY 2 the vector leaves its buffer at   *)
(* the third element for a block of 8 and leaves that block at the ninth   *)
(* for one of 18: sizes up to 9 take it through both kinds of growth.      *)
(***************************************************************************)
EXTENDS Vector

CONSTANTS a, b

MCValues == {a, b}
=============================================================================
