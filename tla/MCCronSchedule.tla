--------------------------- MODULE MCCronSchedule ---------------------------
(***************************************************************************)
(* One job, two processes with a fire each, schedules of every kind.       *)
(***************************************************************************)
EXTENDS CronSchedule

CONSTANTS c1, p1, p2, h1, h2

MCProcOf == [h \in Handlers |-> IF h = h1 THEN p1 ELSE p2]

MCModes == {[p \in Procs |-> p \in on] : on \in {{}, {p1}, {p1, p2}}}

MCSchedules ==
  {[kind |-> "once", every |-> 0, first |-> NoTime],
   [kind |-> "every", every |-> 1, first |-> NoTime],
   [kind |-> "calendar", every |-> 1, first |-> NoTime]}
=============================================================================
