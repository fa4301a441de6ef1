------------------------ MODULE MCPromiseCombinators ------------------------
(* An instance of PromiseCombinators for TLC. *)
EXTENDS PromiseCombinators
=============================================================================
