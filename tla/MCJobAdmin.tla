----------------------------- MODULE MCJobAdmin -----------------------------
(* Instances of the job queue with an operator who cancels jobs, for TLC. *)
EXTENDS JobAdmin
=============================================================================
