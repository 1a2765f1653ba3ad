-------------------------- MODULE MCBackgroundJobs --------------------------
(* Two agents that succeed one another, two jobs, one wait, one active job  *)
(* per owner.                                                               *)
EXTENDS BackgroundJobs
=============================================================================
