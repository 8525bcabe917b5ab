-------------------------- MODULE MCSchedulerWake --------------------------
(***************************************************************************)
(* Scheduler with one task that sleeps, long enough for the wheel to turn. *)
(***************************************************************************)
EXTENDS Scheduler
=============================================================================
