-------------------------- MODULE MCSchedulerSystem --------------------------
(***************************************************************************)
(* Two vehicles, two workers: one more than the code starts, for which it  *)
(* is written.                                                             *)
(***************************************************************************)
EXTENDS SchedulerSystem
=============================================================================
