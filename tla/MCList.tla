------------------------------- MODULE MCList -------------------------------
(***************************************************************************)
(* List for TLC.  With a least growth of 1 entry and at most 4 entries the *)
(* list grows three times (by 1, by 1, by 2): from nothing, by the least   *)
(* amount and by doubling.                                                 *)
(***************************************************************************)
EXTENDS List

CONSTANTS a, b

MCValues == {a, b}
=============================================================================
