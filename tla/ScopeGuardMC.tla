---------------------------- MODULE ScopeGuardMC ----------------------------
(***************************************************************************)
(* An instance of ScopeGuard: one project asked for with two rates (a task *)
(* keeps the ScopeProject it was created with), and another project.       *)
(***************************************************************************)
EXTENDS ScopeGuard, TLC

CONSTANTS acme, other, www, apex

MCBelow == {<<www, apex>>}

Rules == {[host |-> apex, wildcard |-> TRUE]}

Site == [valid |-> TRUE, web |-> TRUE, host |-> www, port |-> 443]

ProjectOf(id, rate) ==
  [id |-> id, allowed |-> Rules, excluded |-> {[host |-> apex, wildcard |-> FALSE]},
   ports |-> {443}, rate |-> rate, authorized |-> TRUE]

MCRequests ==
  {[project |-> ProjectOf(acme, 1), target |-> Site],
   [project |-> ProjectOf(acme, 2), target |-> Site],
   [project |-> ProjectOf(other, 1), target |-> Site],
   [project |-> ProjectOf(other, 1), target |-> [Site EXCEPT !.host = apex]]}

Symmetry == Permutations(Runs)
=============================================================================
