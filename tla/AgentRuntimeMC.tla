---------------------------- MODULE AgentRuntimeMC ----------------------------
(***************************************************************************)
(* Instances of AgentRuntime for TLC. Executors are interchangeable, which *)
(* the runs of invariants use and the run of liveness does not.            *)
(***************************************************************************)
EXTENDS AgentRuntime, TLC

Symmetry == Permutations(Executors)
=============================================================================
