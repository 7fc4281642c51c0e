---------------------------- MODULE MCCompaction ----------------------------
(***************************************************************************)
(* One session, two processes that compact it and a turn that does.        *)
(***************************************************************************)
EXTENDS Compaction

CONSTANTS s1, p1, p2, t1
=============================================================================
