------------------------------ MODULE MCMcpTasks ------------------------------
(* Instances of McpTasks for TLC. *)
EXTENDS McpTasks, TLC

Symmetry == Permutations(Requests) \cup Permutations(Tasks) \cup Permutations(Callers)
=============================================================================
