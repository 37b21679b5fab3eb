--------------------------- MODULE ReconGraphProofs ---------------------------
(***************************************************************************)
(* Theorems about ReconGraph, for any sets of identifiers, kinds, values   *)
(* and decisions.                                                          *)
(*                                                                         *)
(* KnownOnce and Grounded are inductive as they stand.  That each          *)
(* candidate has one score is not what a decision is checked for: Checked  *)
(* keeps what is, and ScoresCover counts: as many different scores as      *)
(* candidates, all of them of candidates, leave no candidate out.          *)
(***************************************************************************)
EXTENDS ReconGraph, FiniteSetTheorems, TLAPS

(* What AppendDecision makes sure of, as far as the graph cannot change it.*)
Checked ==
  /\ \A d, e \in decisions : d.step = e.step => d = e
  /\ \A d \in decisions :
       /\ NoDuplicates(Candidates(d)) /\ ScoresValid(d)
       /\ {d.recommended, d.selected} \subseteq Proposed(d) \cup {None}

IInv == TypeOK /\ KnownOnce /\ Grounded /\ Checked

-----------------------------------------------------------------------------
OneToOne(f, n) == \A i, j \in 1 .. n : f[i] = f[j] => i = j

Onto(f, n, T) == \A t \in T : \E i \in 1 .. n : f[i] = t

(* Two lists of one length without repetitions, the second over the        *)
(* elements of the first, have the same elements.                          *)
LEMMA SameElements ==
  ASSUME NEW n \in Nat, NEW T, NEW f \in [1 .. n -> T], NEW g \in [1 .. n -> T],
         OneToOne(f, n), OneToOne(g, n), Onto(f, n, T)
  PROVE  Onto(g, n, T)
<1>1. f \in Injection(1 .. n, T) /\ f \in Surjection(1 .. n, T) /\ g \in Injection(1 .. n, T)
  BY DEF Injection, Surjection, IsInjective, OneToOne, Onto
<1>2. IsFiniteSet(1 .. n)
  BY FS_Interval
<1>3. IsFiniteSet(T) /\ Cardinality(T) = Cardinality(1 .. n)
  BY <1>1, <1>2, FS_Surjection
<1>4. g \in Surjection(1 .. n, T)
  BY <1>1, <1>3, FS_Injection
<1> QED
  BY <1>4 DEF Surjection, Onto

(* What is checked of the scores of a decision leaves no candidate without *)
(* a score.                                                                *)
LEMMA ScoresCover ==
  ASSUME NEW d \in Decision, NoDuplicates(Candidates(d)), ScoresValid(d)
  PROVE  ScoredOnce(d) /\ ScoredSet(d) = Proposed(d)
<1> DEFINE n == Len(d.candidates)
           f == Candidates(d)
           g == [j \in 1 .. n |-> d.scores[j]]
<1>1. /\ n \in Nat /\ DOMAIN d.candidates = 1 .. n
      /\ DOMAIN d.scores = 1 .. n
  BY DEF Decision, ScoresValid
<1>2. f \in [1 .. n -> Proposed(d)] /\ g \in [1 .. n -> Proposed(d)]
  BY <1>1 DEF Candidates, Proposed, ScoresValid
<1>3. OneToOne(f, n)
  BY <1>1 DEF NoDuplicates, Candidates, OneToOne
<1>4. OneToOne(g, n)
  BY <1>1 DEF NoDuplicates, ScoresValid, OneToOne
<1>5. Onto(f, n, Proposed(d))
  BY <1>1 DEF Proposed, Candidates, Onto
<1>6. Onto(g, n, Proposed(d))
  <2> DEFINE T == Proposed(d)
  <2>1. n \in Nat /\ f \in [1 .. n -> T] /\ g \in [1 .. n -> T]
    BY <1>1, <1>2
  <2>2. OneToOne(f, n) /\ OneToOne(g, n) /\ Onto(f, n, T)
    BY <1>3, <1>4, <1>5
  <2> HIDE DEF f, g, n, T
  <2>3. Onto(g, n, T)
    BY <2>1, <2>2, SameElements
  <2> QED
    BY <2>3 DEF T
<1>7. \A t \in Proposed(d) : \E j \in 1 .. n : d.scores[j] = t
  BY <1>6 DEF Onto
<1>8. ScoredOnce(d)
  <2> SUFFICES ASSUME NEW i \in DOMAIN d.candidates
               PROVE  \E j \in DOMAIN d.scores :
                        /\ d.scores[j] = d.candidates[i].id
                        /\ \A k \in DOMAIN d.scores :
                             d.scores[k] = d.candidates[i].id => k = j
    BY DEF ScoredOnce
  <2>1. d.candidates[i].id \in Proposed(d)
    BY DEF Proposed
  <2>2. PICK j \in DOMAIN d.scores : d.scores[j] = d.candidates[i].id
    BY <1>1, <1>7, <2>1
  <2>3. \A k \in DOMAIN d.scores : d.scores[k] = d.scores[j] => k = j
    BY DEF NoDuplicates, ScoresValid
  <2> QED
    BY <2>2, <2>3
<1>9. ScoredSet(d) = Proposed(d)
  BY <1>1, <1>7 DEF ScoredSet, ScoresValid
<1> QED
  BY <1>8, <1>9

-----------------------------------------------------------------------------
(* What was grounded stays so while no asset, observation or hypothesis    *)
(* loses its id.                                                           *)
Grows ==
  /\ IdsOf(assets) \subseteq IdsOf(assets')
  /\ IdsOf(observations) \subseteq IdsOf(observations')
  /\ IdsOf(hypotheses) \subseteq IdsOf(hypotheses')

(* References hold on while nothing is forgotten.                          *)
LEMMA StillGrounded ==
  ASSUME Grounded, Grows
  PROVE  /\ \A r \in relations : RelationGrounded(r)'
         /\ \A o \in observations : ObservationGrounded(o)'
         /\ \A h \in hypotheses : HypothesisGrounded(h)'
         /\ \A d \in decisions : DecisionGrounded(d)'
<1>1. \A ids : AssetsExist(ids) => AssetsExist(ids)'
  BY DEF Grows, AssetsExist
<1>2. ASSUME NEW r \in relations PROVE RelationGrounded(r)'
  BY <1>1 DEF Grounded, RelationGrounded
<1>3. ASSUME NEW o \in observations PROVE ObservationGrounded(o)'
  BY <1>1 DEF Grounded, ObservationGrounded
<1>4. ASSUME NEW h \in hypotheses PROVE HypothesisGrounded(h)'
  BY <1>1 DEF Grounded, HypothesisGrounded, Grows
<1>5. ASSUME NEW d \in decisions PROVE DecisionGrounded(d)'
  BY <1>1 DEF Grounded, DecisionGrounded, Grows
<1> QED
  BY <1>2, <1>3, <1>4, <1>5

(* Every call keeps the collections typed.                                 *)
LEMMA Typed == TypeOK /\ [Next]_vars => TypeOK'
  BY InputsAssumption DEF TypeOK, Next, vars, graph, AppendAsset, UpdateAsset, AppendRelation,
     AppendObservation, AppendHypothesis, UpdateHypothesis, AppendDecision, StartRun, EndRun

(* Replacing an item by one of its id keeps the ids.                       *)
LEMMA Replaced ==
  ASSUME NEW items, NEW item, item.id \in IdsOf(items)
  PROVE  IdsOf({stored \in items : stored.id # item.id} \cup {item}) = IdsOf(items)
  BY DEF IdsOf

(* No step takes an id out of the graph.                                   *)
LEMMA Growing == Next => Grows
<1>1. ASSUME NEW asset \in Asset, UpdateAsset(asset) PROVE Grows
  BY <1>1, Replaced DEF UpdateAsset, Grows
<1>2. ASSUME NEW hypothesis \in Hypothesis, UpdateHypothesis(hypothesis) PROVE Grows
  BY <1>2, Replaced DEF UpdateHypothesis, Grows
<1> QED
  BY <1>1, <1>2 DEF Next, Grows, IdsOf, graph, AppendAsset, AppendRelation, AppendObservation,
     AppendHypothesis, AppendDecision, StartRun, EndRun

-----------------------------------------------------------------------------
(* Every step keeps what is known once known once.                         *)
LEMMA StepKeepsKnownOnce == TypeOK /\ KnownOnce /\ Next => KnownOnce'
<1> SUFFICES ASSUME TypeOK, KnownOnce, Next PROVE KnownOnce'
  OBVIOUS
<1>1. ASSUME NEW asset \in Asset, AppendAsset(asset) PROVE KnownOnce'
  BY <1>1 DEF KnownOnce, AppendAsset, SameIdentity
<1>2. ASSUME NEW asset \in Asset, UpdateAsset(asset) PROVE KnownOnce'
  BY <1>2 DEF KnownOnce, UpdateAsset, SameIdentity
<1>3. ASSUME NEW relation \in Relation, AppendRelation(relation) PROVE KnownOnce'
  BY <1>3 DEF KnownOnce, AppendRelation, SameIdentity
<1>4. CASE UNCHANGED <<assets, relations>>
  BY <1>4 DEF KnownOnce, SameIdentity
<1> QED
  BY <1>1, <1>2, <1>3, <1>4 DEF Next, graph, AppendObservation, AppendHypothesis,
     UpdateHypothesis, AppendDecision, StartRun, EndRun

(* Every step keeps the graph grounded.                                    *)
LEMMA StepKeepsGrounded == Grounded /\ Next => Grounded'
<1> SUFFICES ASSUME Grounded, Next PROVE Grounded'
  OBVIOUS
<1> Grows
  BY Growing
<1>1. ASSUME NEW relation \in Relation, AppendRelation(relation) PROVE Grounded'
  <2>1. RelationGrounded(relation)'
    BY <1>1 DEF AppendRelation, RelationGrounded, AssetsExist
  <2> QED
    BY <1>1, <2>1, StillGrounded DEF Grounded, AppendRelation
<1>2. ASSUME NEW observation \in Observation, AppendObservation(observation) PROVE Grounded'
  <2>1. ObservationGrounded(observation)'
    BY <1>2 DEF AppendObservation, ObservationGrounded, AssetsExist
  <2> QED
    BY <1>2, <2>1, StillGrounded DEF Grounded, AppendObservation
<1>3. ASSUME NEW hypothesis \in Hypothesis,
             AppendHypothesis(hypothesis) \/ UpdateHypothesis(hypothesis)
      PROVE  Grounded'
  <2>1. HypothesisGrounded(hypothesis)'
    BY <1>3 DEF AppendHypothesis, UpdateHypothesis, HypothesisGrounded, ReferencesValid,
       AssetsExist
  <2> QED
    BY <1>3, <2>1, StillGrounded DEF Grounded, AppendHypothesis, UpdateHypothesis
<1>4. ASSUME NEW d \in Decisions, AppendDecision(d) PROVE Grounded'
  <2>1. DecisionGrounded(d)'
    BY <1>4 DEF AppendDecision, DecisionGrounded, CandidatesValid, GapsValid, AssetsExist
  <2> QED
    BY <1>4, <2>1, StillGrounded DEF Grounded, AppendDecision
<1>5. CASE UNCHANGED <<relations, observations, hypotheses, decisions>>
  BY <1>5, StillGrounded DEF Grounded
<1> QED
  BY <1>1, <1>2, <1>3, <1>4, <1>5 DEF Next, graph, AppendAsset, UpdateAsset, StartRun, EndRun

(* Every step keeps decisions as they were checked.                        *)
LEMMA StepKeepsChecked == Checked /\ Next => Checked'
<1> SUFFICES ASSUME Checked, Next PROVE Checked'
  OBVIOUS
<1>1. ASSUME NEW d \in Decisions, AppendDecision(d) PROVE Checked'
  BY <1>1 DEF Checked, AppendDecision, CandidatesValid
<1>2. CASE UNCHANGED decisions
  BY <1>2 DEF Checked
<1> QED
  BY <1>1, <1>2 DEF Next, graph, AppendAsset, UpdateAsset, AppendRelation, AppendObservation,
     AppendHypothesis, UpdateHypothesis, StartRun, EndRun

(* The invariant of the snapshot: typed, known once, grounded and checked. *)
THEOREM Invariance == Spec => []IInv
<1>1. Init => IInv
  BY DEF Init, IInv, TypeOK, KnownOnce, Grounded, Checked
<1>2. IInv /\ [Next]_vars => IInv'
  <2>1. IInv /\ Next => IInv'
    BY Typed, StepKeepsKnownOnce, StepKeepsGrounded, StepKeepsChecked DEF IInv
  <2>2. IInv /\ UNCHANGED vars => IInv'
    BY DEF IInv, vars, graph, TypeOK, KnownOnce, SameIdentity, Grounded, RelationGrounded,
       ObservationGrounded, HypothesisGrounded, DecisionGrounded, AssetsExist, Checked
  <2> QED
    BY <2>1, <2>2
<1> QED
  BY <1>1, <1>2, PTL DEF Spec

(* Every reachable snapshot is well typed.                                 *)
THEOREM TypeCorrect == Spec => []TypeOK
  BY Invariance, PTL DEF IInv

(* No asset and no edge is known twice.                                    *)
THEOREM NoTwins == Spec => []KnownOnce
  BY Invariance, PTL DEF IInv

(* No reference of the snapshot dangles.                                   *)
THEOREM NothingDangles == Spec => []Grounded
  BY Invariance, PTL DEF IInv

(* Every candidate of a decision has one score, and so has what the        *)
(* decision recommends and selects.                                        *)
THEOREM DecisionsAreScored == Spec => []Decided
<1>1. IInv => Decided
  <2> SUFFICES ASSUME IInv, NEW d \in decisions
               PROVE  ScoredOnce(d) /\ {d.recommended, d.selected} \subseteq ScoredSet(d) \cup {None}
    BY DEF IInv, Checked, Decided
  <2>1. d \in Decision /\ NoDuplicates(Candidates(d)) /\ ScoresValid(d)
    BY DEF IInv, TypeOK, Checked
  <2>2. ScoredOnce(d) /\ ScoredSet(d) = Proposed(d)
    BY <2>1, ScoresCover
  <2> QED
    BY <2>2 DEF IInv, Checked
<1> QED
  BY <1>1, Invariance, PTL

(* Nothing of a snapshot is forgotten, and nothing changes after the end.  *)
THEOREM NothingForgotten == Spec => OnlyGrows
<1>1. [Next]_vars =>
        [/\ IdsOf(assets) \subseteq IdsOf(assets') /\ relations \subseteq relations'
         /\ observations \subseteq observations' /\ decisions \subseteq decisions'
         /\ IdsOf(hypotheses) \subseteq IdsOf(hypotheses')
         /\ status = "Ended" => UNCHANGED graph]_vars
  <2> SUFFICES ASSUME Next
               PROVE  /\ IdsOf(assets) \subseteq IdsOf(assets') /\ relations \subseteq relations'
                      /\ observations \subseteq observations' /\ decisions \subseteq decisions'
                      /\ IdsOf(hypotheses) \subseteq IdsOf(hypotheses')
                      /\ status = "Ended" => UNCHANGED graph
    OBVIOUS
  <2>1. Grows
    BY Growing
  <2>2. relations \subseteq relations' /\ observations \subseteq observations'
        /\ decisions \subseteq decisions'
    BY DEF Next, graph, AppendAsset, UpdateAsset, AppendRelation, AppendObservation,
       AppendHypothesis, UpdateHypothesis, AppendDecision, StartRun, EndRun
  <2>3. status = "Ended" => UNCHANGED graph
    BY DEF Next, Active, AppendAsset, UpdateAsset, AppendRelation, AppendObservation,
       AppendHypothesis, UpdateHypothesis, AppendDecision, StartRun, EndRun
  <2> QED
    BY <2>1, <2>2, <2>3 DEF Grows
<1> QED
  BY <1>1, PTL DEF Spec, OnlyGrows
=============================================================================
