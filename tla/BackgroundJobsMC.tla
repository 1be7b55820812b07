-------------------------- MODULE BackgroundJobsMC --------------------------
(* Small instances of BackgroundJobs. *)
EXTENDS BackgroundJobs
=============================================================================
