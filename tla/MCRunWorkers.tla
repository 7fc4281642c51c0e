---------------------------- MODULE MCRunWorkers ----------------------------
(***************************************************************************)
(* One conversation, two processes and the reaper.                         *)
(***************************************************************************)
EXTENDS RunWorkers

CONSTANTS r1, r2, s1, w1, w2

MCSessionOf == [r \in Runs |-> s1]

MCKeyOf == [r \in Runs |-> NoKey]
=============================================================================
