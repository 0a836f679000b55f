------------------------------ MODULE MCThread ------------------------------
(***************************************************************************)
(* Thread for TLC: two Thread objects, so that one can be moved into the   *)
(* other, and two threads, so that one runs while the other is joined and  *)
(* destroyed.                                                              *)
(***************************************************************************)
EXTENDS Thread

CONSTANTS o1, o2, i1, i2

MCObjects == {o1, o2}
MCImpls == {i1, i2}
=============================================================================
