-------------------------- MODULE MCSchedulerLease --------------------------
(* Small instances of SchedulerLease for TLC. *)
EXTENDS SchedulerLease
=============================================================================
