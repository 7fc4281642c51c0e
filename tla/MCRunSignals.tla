---------------------------- MODULE MCRunSignals ----------------------------
(***************************************************************************)
(* A steer and an abort to one run, two attempts at it, one fault.         *)
(***************************************************************************)
EXTENDS RunSignals

CONSTANTS g1, a1
=============================================================================
