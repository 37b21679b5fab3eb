---------------------------- MODULE ReconIngestion ----------------------------
(***************************************************************************)
(* The ingestion of tool results into the recon graph of a run, step by    *)
(* step. The runtime commits a result and records its evidence; then the   *)
(* ingestor takes the steps it makes of the result, and the correlator     *)
(* refreshes the hypotheses. Every step is a save of its own, and between  *)
(* two of them the user may cancel the run, a save may fail, or the        *)
(* application may end: the run then ends with the graph as it is.         *)
(*                                                                         *)
(* Only the thread that drives the run changes its snapshot, so a step     *)
(* finds what the one before it left.                                      *)
(***************************************************************************)
EXTENDS ReconIngestor, ReconCorrelator

CONSTANTS
  Target,      (* the URL of the task's target, a sequence of at most one   *)
  Results,     (* the results tools may bring                               *)
  MaxResults,  (* bound: results of one run                                 *)
  MaxDerived   (* MAX_DERIVED_HYPOTHESES                                    *)

ASSUME BoundsAssumption == MaxResults \in Nat /\ MaxDerived \in Nat

ASSUME InputsAssumption ==
  IsSequence(Target) /\ \A r \in Results : r.success => ListsOK(r)

VARIABLES
  status,      (* of the run: "Created", "Running" or "Ended"               *)
  graph,       (* the assets, relations and observations of the snapshot    *)
  hypotheses,  (* the hypotheses of the snapshot, a set                     *)
  taken,       (* the results of the run, in their order                    *)
  phase,       (* "ingest" or "refresh"                                     *)
  todo,        (* the steps the ingestor has yet to take                    *)
  pending,     (* the hypotheses the correlator has yet to store            *)
  before       (* the graph when the latest result was taken                *)

vars == <<status, graph, hypotheses, taken, phase, todo, pending, before>>

Running == status = "Running"

(* The thread of the run is done with the latest result.                   *)
Quiet == Running /\ phase = "refresh" /\ pending = {}

Succeeded == taken # <<>> /\ taken[Len(taken)].success

(* The evidence of the latest result, named by its number.                 *)
Evidence == IF Succeeded THEN {Len(taken)} ELSE {}

(* Up to MaxDerived of the hypotheses, none of a lower priority than one   *)
(* that is left out; the order among equals is that of hashed uuids.       *)
Best(drawn) ==
  {chosen \in SUBSET drawn :
     /\ Cardinality(chosen) = IF Cardinality(drawn) < MaxDerived THEN Cardinality(drawn)
                              ELSE MaxDerived
     /\ \A c \in chosen, d \in drawn \ chosen : c.priority >= d.priority}

-----------------------------------------------------------------------------

Init ==
  /\ status = "Created" /\ graph = EmptyGraph /\ hypotheses = {}
  /\ taken = <<>> /\ phase = "ingest" /\ todo = SeedSteps(Target) /\ pending = {}
  /\ before = EmptyGraph

Start ==
  /\ status = "Created" /\ status' = "Running"
  /\ UNCHANGED <<graph, hypotheses, taken, phase, todo, pending, before>>

(* commit_tool_result and record_tool_result, which returns the evidence   *)
(* it stored of a success, are done.                                       *)
TakeResult(r) ==
  /\ Quiet /\ Len(taken) < MaxResults
  /\ taken' = Append(taken, r)
  /\ phase' = "ingest" /\ todo' = IngestionSteps(r, graph) /\ before' = graph
  /\ UNCHANGED <<status, graph, hypotheses, pending>>

Ingest ==
  /\ Running /\ phase = "ingest" /\ todo # <<>>
  /\ graph' = Applied(graph, Head(todo), Evidence) /\ todo' = Tail(todo)
  /\ UNCHANGED <<status, hypotheses, taken, phase, pending, before>>

(* The correlator reads the snapshot once; it is not called for a failure. *)
Refresh ==
  /\ Running /\ phase = "ingest" /\ todo = <<>>
  /\ phase' = "refresh"
  /\ pending' \in IF Succeeded THEN Best(Derived(graph)) ELSE {{}}
  /\ UNCHANGED <<status, graph, hypotheses, taken, todo, before>>

(* Mutant: a hypothesis that is already stored is left as it is.           *)
StoreNew ==
  /\ Running /\ phase = "refresh" /\ pending # {}
  /\ LET next == CHOOSE h \in pending : \A other \in pending : h.priority >= other.priority
     IN  /\ pending' = pending \ {next}
         /\ hypotheses' = IF \E h \in hypotheses : SameHypothesis(h, next) THEN hypotheses
                          ELSE hypotheses \cup {next}
  /\ UNCHANGED <<status, graph, taken, phase, todo, before>>

Store ==
  /\ Running /\ phase = "refresh" /\ pending # {}
  /\ LET next == CHOOSE h \in pending : \A other \in pending : h.priority >= other.priority
     IN  /\ pending' = pending \ {next}
         /\ hypotheses' = {h \in hypotheses : ~SameHypothesis(h, next)} \cup {next}
  /\ UNCHANGED <<status, graph, taken, phase, todo, before>>

(* Finished, failed, cancelled or interrupted, wherever the thread is.     *)
End ==
  /\ status # "Ended" /\ status' = "Ended"
  /\ UNCHANGED <<graph, hypotheses, taken, phase, todo, pending, before>>

Next ==
  \/ Start \/ Ingest \/ Refresh \/ Store \/ End
  \/ \E r \in Results : TakeResult(r)

Spec == Init /\ [][Next]_vars

-----------------------------------------------------------------------------
(* Every step is a call that the service of the run accepts. The ingestor  *)
(* returns its first error and the run fails: a single call that were      *)
(* refused, for an asset it believes to be new or an id that is not there, *)
(* would end the run.                                                      *)

AsAsset(g, i) == [id |-> i, kind |-> g.assets[i].kind, value |-> g.assets[i].value]

AsRelation(r) == [id |-> <<r.from, r.to, r.kind>>, from |-> r.from, to |-> r.to, kind |-> r.kind]

AsObservation(g, o) == [id |-> o, run |-> "it", subjects |-> g.observations[o].subjects]

AsHypothesis(h) ==
  [id |-> <<h.kind, h.subject>>, subjects |-> {h.subject},
   supporting |-> h.supporting, contradicting |-> h.contradicting]

StoredAssets(g) == {AsAsset(g, i) : i \in DOMAIN g.assets}

StoredRelations(g) == {AsRelation(r) : r \in g.relations}

StoredObservations(g) == {AsObservation(g, o) : o \in DOMAIN g.observations}

Canonical ==
  [scheme : STRING, host : STRING, port : Nat, path : STRING, part : Seq(STRING)]

Graph == INSTANCE ReconGraph WITH
  Runs <- {"it"}, It <- "it", AssetIds <- Nat, Kinds <- STRING, RelationKinds <- STRING,
  Values <- Canonical, Folded <- Fold, RelationIds <- Nat \X Nat \X STRING,
  ObservationIds <- Nat, HypothesisIds <- STRING \X Nat, ActionIds <- {}, GapIds <- {},
  None <- "None", Decisions <- {},
  assets <- StoredAssets(graph), relations <- StoredRelations(graph),
  observations <- StoredObservations(graph),
  hypotheses <- {AsHypothesis(h) : h \in hypotheses},
  decisions <- {}

(* Every change is one call of ReconGraph that its checks let pass, in     *)
(* spite of results that name an asset in another spelling, a host that is *)
(* known under another kind, or an asset and its parent at once            *)
(* (run_service.rs:488, recon_ingestor.rs:2283).                           *)
AcceptedByService ==
  [][\/ UNCHANGED Graph!vars \/ Graph!StartRun \/ Graph!EndRun
     \/ \E i \in DOMAIN graph'.assets \ DOMAIN graph.assets :
          Graph!AppendAsset(AsAsset(graph', i))
     \/ \E r \in graph'.relations \ graph.relations : Graph!AppendRelation(AsRelation(r))
     \/ \E o \in DOMAIN graph'.observations \ DOMAIN graph.observations :
          Graph!AppendObservation(AsObservation(graph', o))
     \/ \E h \in hypotheses' \ hypotheses :
          Graph!AppendHypothesis(AsHypothesis(h)) \/ Graph!UpdateHypothesis(AsHypothesis(h))]_vars

-----------------------------------------------------------------------------
(* Correctness.                                                            *)

(* Whatever the order of the results, knowledge is only gained: an asset   *)
(* keeps what it is, loses no tag, and never becomes less sure             *)
(* (ensure_asset and enrich_asset, recon_ingestor.rs:2283-2373).           *)
OnlyStronger ==
  [][\A i \in DOMAIN graph.assets :
       LET old == graph.assets[i]
           new == graph'.assets[i]
       IN  /\ i \in DOMAIN graph'.assets
           /\ new.kind = old.kind /\ new.value = old.value /\ new.scope = old.scope
           /\ old.tags \subseteq new.tags
           /\ Rank[old.confidence] <= Rank[new.confidence]]_vars

(* When a result has been ingested, every asset but the target of the run  *)
(* can be explained: an observation is about it, or a relation leads to it *)
(* from another asset.                                                     *)
Explained ==
  Quiet =>
    \A i \in DOMAIN graph.assets :
      \/ \E step \in ToSet(SeedSteps(Target)) : SameIdentity(graph.assets[i], step.key)
      \/ \E o \in DOMAIN graph.observations : i \in graph.observations[o].subjects
      \/ \E r \in graph.relations : r.to = i /\ r.from # i

(* A result that has been ingested before adds an observation and nothing  *)
(* else, whatever came between: not an asset under another kind, not a     *)
(* relation, not a tag (ensure_asset, ensure_relation).                    *)
SecondTimeAddsNothing ==
  (Quiet /\ \E n \in 1 .. Len(taken) - 1 : taken[n] = taken[Len(taken)]) =>
    graph.assets = before.assets /\ graph.relations = before.relations

(* What is supported rests on an observation, and what a validation or an  *)
(* API description has refuted names the observation that did; the critic  *)
(* looks for the first and never for the second (recon_critic.rs:53).      *)
ConclusionsCited ==
  \A h \in hypotheses :
    /\ h.status = "Supported" => h.supporting # {}
    /\ (h.status = "Rejected" /\ h.capability = "ValidateUrlMetadata") => h.contradicting # {}

(* No hypothesis outlives its reason, and one is missing or out of date    *)
(* only when at least MaxDerived others are as urgent                      *)
(* (recon_correlator.rs:14-31).                                            *)
HypothesesCurrent ==
  Quiet /\ Succeeded =>
    LET drawn == Derived(graph)
        AsUrgent(h) == {d \in drawn : d.priority >= h.priority}
    IN  /\ \A h \in hypotheses : \E d \in drawn : SameHypothesis(d, h)
        /\ \A d \in drawn \ hypotheses : Cardinality(AsUrgent(d)) > MaxDerived

=============================================================================
