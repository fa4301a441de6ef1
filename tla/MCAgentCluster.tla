-------------------------- MODULE MCAgentCluster --------------------------
(* Instances of AgentCluster for TLC. *)
EXTENDS AgentCluster, TLC
CONSTANTS w1, w2
WorkerSymmetry == Permutations(Workers)
=============================================================================
