---------------------------- MODULE ReconGraphMC ----------------------------
(***************************************************************************)
(* An instance of ReconGraph: a value in two spellings, two assets, one of *)
(* everything else, and decisions that are right or wrong in one respect.  *)
(***************************************************************************)
EXTENDS ReconGraph, TLC

CONSTANTS it, elsewhere, a1, a2, x, y, h1, g1, lower, upper

MCFolded(value) == lower

Candidate(id, target) == [id |-> id, targets |-> {target}]

Good == [run |-> it, step |-> 1, hypothesis |-> h1,
         candidates |-> <<Candidate(x, a1), Candidate(y, a2)>>,
         gaps |-> <<[id |-> g1, asset |-> a1, actionable |-> TRUE, blocked |-> FALSE]>>,
         scores |-> <<y, x>>, recommended |-> x, selected |-> y, coverage |-> 100]

Plain == [Good EXCEPT !.step = 2, !.hypothesis = None, !.gaps = <<>>,
                      !.candidates = <<Candidate(x, a2)>>, !.scores = <<x>>, !.selected = None]

MCDecisions ==
  {Good, Plain, [Good EXCEPT !.run = elsewhere],
   [Good EXCEPT !.selected = x, !.hypothesis = None], [Good EXCEPT !.scores = <<x, x>>],
   [Good EXCEPT !.scores = <<x>>], [Plain EXCEPT !.selected = y],
   [Plain EXCEPT !.candidates = <<Candidate(x, a1), Candidate(x, a2)>>, !.scores = <<x, y>>],
   [Good EXCEPT !.gaps = <<[Good.gaps[1] EXCEPT !.blocked = TRUE]>>],
   [Good EXCEPT !.gaps = @ \o @], [Plain EXCEPT !.coverage = 101]}

=============================================================================
