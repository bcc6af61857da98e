------------------------------ MODULE MCLogHub ------------------------------
(***************************************************************************)
(* Small instances of LogHub.                                              *)
(***************************************************************************)
EXTENDS LogHub

CONSTANT r1

TwoSinks == 1 .. 2
=============================================================================
