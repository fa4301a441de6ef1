---------------------------- MODULE MCAgentTurn ----------------------------
(* An instance of AgentTurn for TLC: the workers are interchangeable. *)
EXTENDS AgentTurn, TLC

WorkerSymmetry == Permutations(Workers)
=============================================================================
