---------------------------- MODULE RunServiceMC ----------------------------
(***************************************************************************)
(* Instances of RunService for TLC. Runs and clients are interchangeable.  *)
(***************************************************************************)
EXTENDS RunService, TLC

Symmetry == Permutations(Runs) \cup Permutations(Clients)
=============================================================================
