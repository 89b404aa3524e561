----------------------------- MODULE MCScheduler -----------------------------
(* Two tasks with short slices and short alarms. *)
EXTENDS Scheduler
=============================================================================
