------------------------------ MODULE MCEvent -------------------------------
(***************************************************************************)
(* Event for TLC: three threads, so that a signal can choose between two   *)
(* waiters while a third thread signals, tests or clears.                  *)
(***************************************************************************)
EXTENDS Event
=============================================================================
