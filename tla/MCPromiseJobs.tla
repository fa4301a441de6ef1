--------------------------- MODULE MCPromiseJobs ---------------------------
(* Instances of PromiseJobs for TLC. *)
EXTENDS PromiseJobs
=============================================================================
