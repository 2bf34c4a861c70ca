------------------------- MODULE MCSchedulerSnapshot -------------------------
(***************************************************************************)
(* SchedulerSnapshot on small instances.                                   *)
(***************************************************************************)
EXTENDS SchedulerSnapshot
==============================================================================
