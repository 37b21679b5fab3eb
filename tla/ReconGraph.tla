------------------------------ MODULE ReconGraph ------------------------------
(***************************************************************************)
(* The recon snapshot of one run: what is known of its targets as a graph  *)
(* of assets and relations, the observations it rests on, the hypotheses   *)
(* drawn from them, and the decision of every step.                        *)
(*                                                                         *)
(* The snapshot is saved as one JSON document: no key and no foreign key   *)
(* of a table guards it, only the checks of the seven calls that change it *)
(* (mutate_recon_snapshot: clone, change, save or put back, which          *)
(* RunService models).  The ingestor, the correlator and the runtime call  *)
(* them with whatever the tools and the planner bring.  A call that is     *)
(* refused changes nothing.                                                *)
(*                                                                         *)
(* Collections are Vecs in the code; no check looks at their order, so     *)
(* they are sets here, but for the lists inside of a decision, which may   *)
(* repeat an element.                                                      *)
(***************************************************************************)
EXTENDS Naturals, Sequences, FiniteSets

CONSTANTS
  Runs,            (* run identifiers                                       *)
  It,              (* the run whose snapshot this is                        *)
  AssetIds,        (* identifiers of assets                                 *)
  Kinds,           (* kinds of assets                                       *)
  RelationKinds,   (* kinds of relations                                    *)
  Values,          (* canonical values, as they are spelled                 *)
  Folded(_),       (* the value with all letters in lower case              *)
  RelationIds, ObservationIds, HypothesisIds, ActionIds, GapIds,
  None,            (* no hypothesis, no recommended or selected action      *)
  Decisions        (* the decisions the planner may bring                   *)

Asset == [id : AssetIds, kind : Kinds, value : Values]

Relation == [id : RelationIds, from : AssetIds, to : AssetIds, kind : RelationKinds]

Observation == [id : ObservationIds, run : Runs, subjects : SUBSET AssetIds]

Hypothesis == [id : HypothesisIds, subjects : SUBSET AssetIds,
               supporting : SUBSET ObservationIds, contradicting : SUBSET ObservationIds]

Action == [id : ActionIds, targets : SUBSET AssetIds]

Gap == [id : GapIds, asset : AssetIds, actionable : BOOLEAN, blocked : BOOLEAN]

(* Scores name the action they score; a coverage of None is zero.          *)
Decision == [run : Runs, step : Nat, hypothesis : HypothesisIds \cup {None},
             candidates : Seq(Action), gaps : Seq(Gap), scores : Seq(ActionIds),
             recommended : ActionIds \cup {None}, selected : ActionIds \cup {None},
             coverage : Nat]

ASSUME InputsAssumption ==
  /\ It \in Runs
  /\ Decisions \subseteq Decision
  /\ None \notin ActionIds \cup HypothesisIds

VARIABLES
  status,        (* of the run: "Created", "Running" or "Ended"             *)
  assets, relations, observations, hypotheses, decisions

graph == <<assets, relations, observations, hypotheses, decisions>>

vars == <<status, graph>>

TypeOK ==
  /\ status \in {"Created", "Running", "Ended"}
  /\ assets \subseteq Asset
  /\ relations \subseteq Relation
  /\ observations \subseteq Observation
  /\ hypotheses \subseteq Hypothesis
  /\ decisions \subseteq Decision

-----------------------------------------------------------------------------
(* Checks.                                                                 *)

IdsOf(items) == {item.id : item \in items}

(* Mutant: the snapshot of a run that has ended may still be changed.      *)
ActiveLate == status # "Created"

(* mutate_recon_snapshot.                                                  *)
Active == status = "Running"

(* The identity of an asset: its kind, and its value in any case.          *)
SameIdentity(a, b) == a.kind = b.kind /\ Folded(a.value) = Folded(b.value)

(* ensure_assets_exist.                                                    *)
AssetsExist(ids) == ids \subseteq IdsOf(assets)

(* Mutant: contradicting observations are not looked up.                   *)
SupportedOnly(h) ==
  AssetsExist(h.subjects) /\ h.supporting \subseteq IdsOf(observations)

(* validate_hypothesis_references.                                         *)
ReferencesValid(h) ==
  AssetsExist(h.subjects) /\ h.supporting \cup h.contradicting \subseteq IdsOf(observations)

NoDuplicates(ids) == \A i, j \in DOMAIN ids : ids[i] = ids[j] => i = j

Candidates(d) == [i \in DOMAIN d.candidates |-> d.candidates[i].id]

Proposed(d) == {d.candidates[i].id : i \in DOMAIN d.candidates}

CandidatesValid(d) ==
  /\ NoDuplicates(Candidates(d))
  /\ \A i \in DOMAIN d.candidates : AssetsExist(d.candidates[i].targets)

GapsValid(d) ==
  /\ NoDuplicates([i \in DOMAIN d.gaps |-> d.gaps[i].id])
  /\ \A i \in DOMAIN d.gaps :
       AssetsExist({d.gaps[i].asset}) /\ d.gaps[i].actionable # d.gaps[i].blocked

(* Mutant: as many scores as candidates, but one may be scored twice.      *)
ScoresCounted(d) ==
  /\ \A i \in DOMAIN d.scores : d.scores[i] \in Proposed(d)
  /\ Len(d.scores) = Len(d.candidates)

ScoresValid(d) ==
  /\ NoDuplicates(d.scores)
  /\ \A i \in DOMAIN d.scores : d.scores[i] \in Proposed(d)
  /\ Len(d.scores) = Len(d.candidates)

-----------------------------------------------------------------------------
(* Calls.                                                                  *)

AppendAsset(asset) ==
  /\ Active
  /\ ~ \E stored \in assets : stored.id = asset.id \/ SameIdentity(stored, asset)
  /\ assets' = assets \cup {asset}
  /\ UNCHANGED <<status, relations, observations, hypotheses, decisions>>

(* Mutant: only an append looks for another asset of that identity.        *)
UpdateAssetUnchecked(asset) ==
  /\ Active
  /\ asset.id \in IdsOf(assets)
  /\ assets' = {stored \in assets : stored.id # asset.id} \cup {asset}
  /\ UNCHANGED <<status, relations, observations, hypotheses, decisions>>

(* The asset is replaced as a whole, its kind and value included.          *)
UpdateAsset(asset) ==
  /\ Active
  /\ ~ \E stored \in assets : stored.id # asset.id /\ SameIdentity(stored, asset)
  /\ asset.id \in IdsOf(assets)
  /\ assets' = {stored \in assets : stored.id # asset.id} \cup {asset}
  /\ UNCHANGED <<status, relations, observations, hypotheses, decisions>>

AppendRelation(relation) ==
  /\ Active
  /\ ~ \E stored \in relations :
         \/ stored.id = relation.id
         \/ /\ stored.from = relation.from /\ stored.to = relation.to
            /\ stored.kind = relation.kind
  /\ AssetsExist({relation.from, relation.to})
  /\ relations' = relations \cup {relation}
  /\ UNCHANGED <<status, assets, observations, hypotheses, decisions>>

AppendObservation(observation) ==
  /\ Active
  /\ observation.run = It
  /\ observation.id \notin IdsOf(observations)
  /\ AssetsExist(observation.subjects)
  /\ observations' = observations \cup {observation}
  /\ UNCHANGED <<status, assets, relations, hypotheses, decisions>>

AppendHypothesis(hypothesis) ==
  /\ Active
  /\ hypothesis.id \notin IdsOf(hypotheses)
  /\ ReferencesValid(hypothesis)
  /\ hypotheses' = hypotheses \cup {hypothesis}
  /\ UNCHANGED <<status, assets, relations, observations, decisions>>

UpdateHypothesis(hypothesis) ==
  /\ Active
  /\ ReferencesValid(hypothesis)
  /\ hypothesis.id \in IdsOf(hypotheses)
  /\ hypotheses' = {stored \in hypotheses : stored.id # hypothesis.id} \cup {hypothesis}
  /\ UNCHANGED <<status, assets, relations, observations, decisions>>

AppendDecision(d) ==
  /\ Active
  /\ d.run = It
  /\ ~ \E stored \in decisions : stored.step = d.step
  /\ d.hypothesis # None => d.hypothesis \in IdsOf(hypotheses)
  /\ CandidatesValid(d) /\ GapsValid(d) /\ ScoresValid(d)
  /\ {d.recommended, d.selected} \subseteq Proposed(d) \cup {None}
  /\ d.coverage <= 100
  /\ decisions' = decisions \cup {d}
  /\ UNCHANGED <<status, assets, relations, observations, hypotheses>>

(* The lifecycle of the run around it; a run that is recovered after a     *)
(* crash has Ended as well.                                                *)
StartRun == status = "Created" /\ status' = "Running" /\ UNCHANGED graph

EndRun == status # "Ended" /\ status' = "Ended" /\ UNCHANGED graph

Init ==
  /\ status = "Created"
  /\ assets = {} /\ relations = {} /\ observations = {}
  /\ hypotheses = {} /\ decisions = {}

Next ==
  \/ \E asset \in Asset : AppendAsset(asset) \/ UpdateAsset(asset)
  \/ \E relation \in Relation : AppendRelation(relation)
  \/ \E observation \in Observation : AppendObservation(observation)
  \/ \E hypothesis \in Hypothesis : AppendHypothesis(hypothesis) \/ UpdateHypothesis(hypothesis)
  \/ \E d \in Decisions : AppendDecision(d)
  \/ StartRun \/ EndRun

Spec == Init /\ [][Next]_vars

-----------------------------------------------------------------------------
(* Correctness.                                                            *)

(* An asset is known once: no two have the same id or, after any sequence  *)
(* of merges that change kinds and values, the same identity; and no two   *)
(* edges of the graph say the same.                                        *)
KnownOnce ==
  /\ \A a, b \in assets : a.id = b.id \/ SameIdentity(a, b) => a = b
  /\ \A p, q \in relations :
       (p.from = q.from /\ p.to = q.to /\ p.kind = q.kind) => p = q

RelationGrounded(r) == AssetsExist({r.from, r.to})

ObservationGrounded(o) == o.run = It /\ AssetsExist(o.subjects)

HypothesisGrounded(h) ==
  /\ AssetsExist(h.subjects)
  /\ h.supporting \cup h.contradicting \subseteq IdsOf(observations)

DecisionGrounded(d) ==
  /\ d.hypothesis # None => d.hypothesis \in IdsOf(hypotheses)
  /\ \A i \in DOMAIN d.candidates : AssetsExist(d.candidates[i].targets)
  /\ \A i \in DOMAIN d.gaps : AssetsExist({d.gaps[i].asset})

(* Every reference leads somewhere, along the whole chain from a decision  *)
(* through its hypothesis and its observations to the assets, although     *)
(* hypotheses and assets are replaced while others refer to them.          *)
Grounded ==
  /\ \A r \in relations : RelationGrounded(r)
  /\ \A o \in observations : ObservationGrounded(o)
  /\ \A h \in hypotheses : HypothesisGrounded(h)
  /\ \A d \in decisions : DecisionGrounded(d)

(* "Every candidate Recon action must have exactly one score"              *)
(* (run_service.rs:702), which the code never checks as such: it counts    *)
(* the scores and looks each of them up. What a decision recommends or     *)
(* selects has been scored, and a step is decided once.                    *)
ScoredOnce(d) ==
  \A i \in DOMAIN d.candidates :
    \E j \in DOMAIN d.scores :
      /\ d.scores[j] = d.candidates[i].id
      /\ \A k \in DOMAIN d.scores : d.scores[k] = d.candidates[i].id => k = j

ScoredSet(d) == {d.scores[j] : j \in DOMAIN d.scores}

Decided ==
  /\ \A d, e \in decisions : d.step = e.step => d = e
  /\ \A d \in decisions :
       ScoredOnce(d) /\ {d.recommended, d.selected} \subseteq ScoredSet(d) \cup {None}

(* Later runs take the graph of an ended run as their memory: it never     *)
(* changes again. Until then nothing is forgotten: an asset or a           *)
(* hypothesis may be replaced but keeps its id, all else stays as it is.   *)
OnlyGrows ==
  [][/\ IdsOf(assets) \subseteq IdsOf(assets') /\ relations \subseteq relations'
     /\ observations \subseteq observations' /\ decisions \subseteq decisions'
     /\ IdsOf(hypotheses) \subseteq IdsOf(hypotheses')
     /\ status = "Ended" => UNCHANGED graph]_vars
=============================================================================
