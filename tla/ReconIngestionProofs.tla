-------------------------- MODULE ReconIngestionProofs --------------------------
(***************************************************************************)
(* What holds of the graph whatever tools bring, in whatever order, and    *)
(* wherever the run is ended.                                              *)
(*                                                                         *)
(* The proofs look at no more of an ingestion than what all have in common *)
(* (Complete, in ReconIngestorProofs): which steps the ingestor makes of   *)
(* the result of a tool is left open.                                      *)
(***************************************************************************)
EXTENDS ReconIngestion, ReconIngestorProofs

-----------------------------------------------------------------------------
(* Graphs.                                                                 *)

AssetOK(a) ==
  a = [kind |-> a.kind, value |-> a.value, scope |-> a.scope, confidence |-> a.confidence,
       tags |-> a.tags]

(* What the record of a graph is, as far as the steps need it.             *)
GraphOK(g) ==
  /\ {"assets", "relations", "observations"} \subseteq DOMAIN g
  /\ IsSequence(g.assets) /\ IsSequence(g.observations)
  /\ \A i \in DOMAIN g.assets : AssetOK(g.assets[i])

(* Every asset is there once under its kind and value, every relation once *)
(* under its ends and kind.                                                *)
Unique(g) ==
  /\ \A i, j \in DOMAIN g.assets : SameIdentity(g.assets[i], g.assets[j]) => i = j
  /\ \A r, s \in g.relations : r.from = s.from /\ r.to = s.to /\ r.kind = s.kind => r = s

(* Nothing of g is missing in h, nor has it become something else.         *)
Retained(g, h) ==
  /\ \A i \in DOMAIN g.assets :
       /\ i \in DOMAIN h.assets
       /\ h.assets[i].kind = g.assets[i].kind /\ h.assets[i].value = g.assets[i].value
       /\ h.assets[i].scope = g.assets[i].scope
       /\ g.assets[i].tags \subseteq h.assets[i].tags
  /\ g.relations \subseteq h.relations
  /\ \A o \in DOMAIN g.observations :
       o \in DOMAIN h.observations /\ h.observations[o] = g.observations[o]

(* A step that changes one asset, but not what it is.                      *)
LEMMA AssetChanged ==
  ASSUME NEW g, NEW h, NEW k, NEW x, GraphOK(g), Unique(g),
         h = [g EXCEPT !.assets = [g.assets EXCEPT ![k] = x]],
         k \in DOMAIN g.assets =>
           /\ AssetOK(x)
           /\ x.kind = g.assets[k].kind /\ x.value = g.assets[k].value
           /\ x.scope = g.assets[k].scope /\ g.assets[k].tags \subseteq x.tags
  PROVE  GraphOK(h) /\ Unique(h) /\ Retained(g, h)
<1>1. /\ h.assets = [g.assets EXCEPT ![k] = x] /\ h.relations = g.relations
      /\ h.observations = g.observations /\ DOMAIN h = DOMAIN g
  BY DEF GraphOK
<1>2. /\ IsSequence(h.assets) /\ DOMAIN h.assets = DOMAIN g.assets
      /\ \A i \in DOMAIN g.assets : h.assets[i] = IF i = k THEN x ELSE g.assets[i]
  BY <1>1, Replaced DEF GraphOK
<1>3. GraphOK(h)
  BY <1>1, <1>2 DEF GraphOK
<1>4. Retained(g, h)
  BY <1>1, <1>2 DEF Retained
<1>5. Unique(h)
  <2>1. \A i, j \in DOMAIN g.assets :
          SameIdentity(h.assets[i], h.assets[j]) => SameIdentity(g.assets[i], g.assets[j])
    BY <1>4 DEF Retained, SameIdentity
  <2> QED
    BY <1>1, <1>2, <2>1 DEF Unique
<1> QED
  BY <1>1, <1>3, <1>4, <1>5

(* An asset of which one is more certain.                                  *)
LEMMA Firmed ==
  ASSUME NEW a, AssetOK(a), NEW c
  PROVE  /\ AssetOK([a EXCEPT !.confidence = c])
         /\ [a EXCEPT !.confidence = c].kind = a.kind
         /\ [a EXCEPT !.confidence = c].value = a.value
         /\ [a EXCEPT !.confidence = c].scope = a.scope
         /\ [a EXCEPT !.confidence = c].tags = a.tags
         /\ [a EXCEPT !.confidence = c].confidence = c
BY DEF AssetOK

(* An asset that is given tags.                                            *)
LEMMA Tagging ==
  ASSUME NEW a, AssetOK(a), NEW tags
  PROVE  /\ AssetOK(EnrichedAsset(a, tags))
         /\ EnrichedAsset(a, tags).kind = a.kind
         /\ EnrichedAsset(a, tags).value = a.value
         /\ EnrichedAsset(a, tags).scope = a.scope
         /\ EnrichedAsset(a, tags).tags = a.tags \cup tags
         /\ EnrichedAsset(a, tags).confidence = Corroborated(a.confidence, a.tags \cup tags)
<1> DEFINE u == a.tags \cup tags
           c == Corroborated(a.confidence, u)
<1>1. EnrichedAsset(a, tags) = [a EXCEPT !.tags = u, !.confidence = c]
  BY DEF EnrichedAsset
<1> HIDE DEF u, c
<1>2. EnrichedAsset(a, tags) =
        [kind |-> a.kind, value |-> a.value, scope |-> a.scope, confidence |-> c, tags |-> u]
  BY <1>1 DEF AssetOK
<1> QED
  BY <1>2 DEF AssetOK, c, u

(* An asset is appended when there is none of its kind and value.          *)
LEMMA EnsuredKeeps ==
  ASSUME NEW g, NEW key, NEW confidence, GraphOK(g), Unique(g)
  PROVE  /\ GraphOK(Ensured(g, key, confidence)) /\ Unique(Ensured(g, key, confidence))
         /\ Retained(g, Ensured(g, key, confidence))
<1> DEFINE h == Ensured(g, key, confidence)
<1>1. CASE Known(g, key)
  <2> DEFINE k == IdOf(g, key)
             x == [g.assets[k] EXCEPT !.confidence = Stronger(g.assets[k].confidence, confidence)]
  <2>1. k \in DOMAIN g.assets
    BY <1>1 DEF Known, IdOf
  <2>2. h = [g EXCEPT !.assets = [g.assets EXCEPT ![k] = x]]
    BY <1>1, <2>1 DEF Ensured, GraphOK
  <2>3. /\ AssetOK(x)
        /\ x.kind = g.assets[k].kind /\ x.value = g.assets[k].value
        /\ x.scope = g.assets[k].scope /\ g.assets[k].tags \subseteq x.tags
    BY <2>1, Firmed DEF GraphOK
  <2> HIDE DEF h, k, x
  <2> QED
    BY <2>2, <2>3, AssetChanged DEF h
<1>2. CASE ~Known(g, key)
  <2> DEFINE x == [kind |-> key.kind, value |-> key.value, scope |-> ScopeOf(key),
                   confidence |-> confidence, tags |-> {}]
             n == Len(g.assets)
  <2>1. h = [g EXCEPT !.assets = Append(g.assets, x)]
    BY <1>2 DEF Ensured
  <2>2. x.kind = key.kind /\ x.value = key.value /\ AssetOK(x)
    BY DEF AssetOK
  <2> HIDE DEF h, x
  <2>3. /\ h.assets = Append(g.assets, x) /\ h.relations = g.relations
        /\ h.observations = g.observations /\ DOMAIN h = DOMAIN g
    BY <2>1 DEF GraphOK
  <2>4. /\ IsSequence(h.assets) /\ n \in Nat /\ DOMAIN g.assets = 1 .. n
        /\ DOMAIN h.assets = 1 .. n + 1
        /\ \A i \in 1 .. n : h.assets[i] = g.assets[i]
        /\ h.assets[n + 1] = x
    BY <2>3, Appended DEF GraphOK
  <2> HIDE DEF n
  <2>5. GraphOK(h)
    BY <2>2, <2>3, <2>4 DEF GraphOK
  <2>6. Retained(g, h)
    BY <2>3, <2>4 DEF Retained
  <2>7. Unique(h)
    <3>1. \A i \in 1 .. n : ~SameIdentity(h.assets[i], x) /\ ~SameIdentity(x, h.assets[i])
      BY <1>2, <2>2, <2>4 DEF Known, SameIdentity
    <3>2. \A i, j \in 1 .. n : SameIdentity(h.assets[i], h.assets[j]) => i = j
      BY <2>4 DEF Unique
    <3>3. \A i \in DOMAIN h.assets : i \in 1 .. n \/ i = n + 1
      BY <2>4
    <3> QED
      BY <2>3, <2>4, <3>1, <3>2, <3>3 DEF Unique
  <2> QED
    BY <2>3, <2>5, <2>6, <2>7 DEF h
<1> QED
  BY <1>1, <1>2

(* Tags are added to the asset that the key names.                         *)
LEMMA EnrichedKeeps ==
  ASSUME NEW g, NEW key, NEW tags, GraphOK(g), Unique(g)
  PROVE  /\ GraphOK(Enriched(g, key, tags)) /\ Unique(Enriched(g, key, tags))
         /\ Retained(g, Enriched(g, key, tags))
<1> DEFINE k == IdOf(g, key)
           x == EnrichedAsset(g.assets[k], tags)
<1>1. Enriched(g, key, tags) = [g EXCEPT !.assets = [g.assets EXCEPT ![k] = x]]
  BY DEF Enriched, GraphOK
<1>2. k \in DOMAIN g.assets =>
        /\ AssetOK(x)
        /\ x.kind = g.assets[k].kind /\ x.value = g.assets[k].value
        /\ x.scope = g.assets[k].scope /\ g.assets[k].tags \subseteq x.tags
  BY Tagging DEF GraphOK
<1> HIDE DEF k, x
<1> QED
  BY <1>1, <1>2, AssetChanged

(* A relation is added when there is none of its meaning.                  *)
LEMMA RelatedKeeps ==
  ASSUME NEW g, NEW from, NEW to, NEW kind, NEW cited,
         GraphOK(g), Unique(g)
  PROVE  /\ GraphOK(Related(g, from, to, kind, cited))
         /\ Unique(Related(g, from, to, kind, cited))
         /\ Retained(g, Related(g, from, to, kind, cited))
<1> DEFINE h == Related(g, from, to, kind, cited)
           new == [from |-> IdOf(g, from), to |-> IdOf(g, to), kind |-> kind,
                   evidence |-> cited]
           Same(r) == r.from = new.from /\ r.to = new.to /\ r.kind = new.kind
<1>1. \/ h = g
      \/ h = [g EXCEPT !.relations = g.relations \cup {new}] /\ \A r \in g.relations : ~Same(r)
  BY DEF Related
<1>3. CASE h = g
  BY <1>3 DEF Retained
<1> HIDE DEF h, new
<1>4. CASE h = [g EXCEPT !.relations = g.relations \cup {new}] /\ \A r \in g.relations : ~Same(r)
  <2>1. /\ h.assets = g.assets /\ h.relations = g.relations \cup {new}
        /\ h.observations = g.observations /\ DOMAIN h = DOMAIN g
    BY <1>4 DEF GraphOK
  <2>2. GraphOK(h) /\ Retained(g, h)
    BY <2>1 DEF GraphOK, Retained
  <2>3. Unique(h)
    BY <1>4, <2>1 DEF Unique
  <2> QED
    BY <2>2, <2>3 DEF h
<1> QED
  BY <1>1, <1>3, <1>4 DEF h

(* An observation is appended.                                             *)
LEMMA ObservedKeeps ==
  ASSUME NEW g, NEW source, NEW subjects, NEW facts, NEW cited,
         GraphOK(g), Unique(g)
  PROVE  /\ GraphOK(Observed(g, source, subjects, facts, cited))
         /\ Unique(Observed(g, source, subjects, facts, cited))
         /\ Retained(g, Observed(g, source, subjects, facts, cited))
<1> DEFINE h == Observed(g, source, subjects, facts, cited)
           x == [source |-> source, subjects |-> {IdOf(g, key) : key \in subjects},
                 facts |-> facts, evidence |-> cited]
<1>1. h = [g EXCEPT !.observations = Append(g.observations, x)]
  BY DEF Observed
<1> HIDE DEF h, x
<1>2. /\ h.assets = g.assets /\ h.relations = g.relations /\ DOMAIN h = DOMAIN g
      /\ h.observations = Append(g.observations, x)
  BY <1>1 DEF GraphOK
<1>3. /\ IsSequence(h.observations) /\ Len(g.observations) \in Nat
      /\ DOMAIN g.observations = 1 .. Len(g.observations)
      /\ DOMAIN h.observations = 1 .. Len(g.observations) + 1
      /\ \A o \in 1 .. Len(g.observations) : h.observations[o] = g.observations[o]
      /\ h.observations[Len(g.observations) + 1] = x
  BY <1>2, Appended DEF GraphOK
<1>4. GraphOK(h) /\ Unique(h) /\ Retained(g, h)
  BY <1>2, <1>3 DEF GraphOK, Unique, Retained
<1> QED
  BY <1>4 DEF h

(* A step of an ingestion, whichever it is.                                *)
LEMMA AppliedKeeps ==
  ASSUME NEW g, NEW step, NEW cited,
         GraphOK(g), Unique(g)
  PROVE  /\ GraphOK(Applied(g, step, cited)) /\ Unique(Applied(g, step, cited))
         /\ Retained(g, Applied(g, step, cited))
<1>1. CASE step.do = "ensure"
  BY <1>1, EnsuredKeeps DEF Applied
<1>2. CASE step.do = "enrich"
  BY <1>2, EnrichedKeeps DEF Applied
<1>3. CASE step.do = "relate"
  BY <1>3, RelatedKeeps DEF Applied
<1>4. CASE step.do \notin {"ensure", "enrich", "relate"}
  BY <1>4, ObservedKeeps DEF Applied
<1> QED
  BY <1>1, <1>2, <1>3, <1>4

(* The asset that a key names.                                             *)
LEMMA Named ==
  ASSUME NEW g, NEW key, Known(g, key)
  PROVE  IdOf(g, key) \in DOMAIN g.assets /\ SameIdentity(g.assets[IdOf(g, key)], key)
BY DEF Known, IdOf

LEMMA Identified ==
  ASSUME NEW g, Unique(g), NEW i \in DOMAIN g.assets, NEW key, SameIdentity(g.assets[i], key)
  PROVE  Known(g, key) /\ IdOf(g, key) = i
<1>1. Known(g, key)
  BY DEF Known
<1>2. IdOf(g, key) \in DOMAIN g.assets /\ SameIdentity(g.assets[IdOf(g, key)], key)
  BY <1>1, Named
<1>3. SameIdentity(g.assets[i], g.assets[IdOf(g, key)])
  BY <1>2 DEF SameIdentity
<1> QED
  BY <1>1, <1>2, <1>3 DEF Unique

LEMMA StaysNamed ==
  ASSUME NEW g, NEW h, Retained(g, h), Unique(h), NEW key, Known(g, key)
  PROVE  Known(h, key) /\ IdOf(h, key) = IdOf(g, key)
<1> DEFINE i == IdOf(g, key)
<1>1. i \in DOMAIN g.assets /\ SameIdentity(g.assets[i], key)
  BY Named
<1> HIDE DEF i
<1>2. i \in DOMAIN h.assets /\ SameIdentity(h.assets[i], key)
  BY <1>1 DEF Retained, SameIdentity
<1>3. Known(h, key) /\ IdOf(h, key) = i
  BY <1>2, Identified
<1> QED
  BY <1>3 DEF i

(* What each step changes.                                                 *)
LEMMA EnsuredAgain ==
  ASSUME NEW g, GraphOK(g), NEW key, NEW confidence, Known(g, key)
  PROVE  /\ Ensured(g, key, confidence).relations = g.relations
         /\ Ensured(g, key, confidence).observations = g.observations
         /\ IsSequence(Ensured(g, key, confidence).assets)
         /\ DOMAIN Ensured(g, key, confidence).assets = DOMAIN g.assets
         /\ \A i \in DOMAIN g.assets :
              Ensured(g, key, confidence).assets[i] =
                IF i = IdOf(g, key)
                THEN [g.assets[i] EXCEPT !.confidence = Stronger(g.assets[i].confidence, confidence)]
                ELSE g.assets[i]
<1> DEFINE h == Ensured(g, key, confidence)
           k == IdOf(g, key)
           x == [g.assets[k] EXCEPT !.confidence = Stronger(g.assets[k].confidence, confidence)]
<1>1. k \in DOMAIN g.assets /\ AssetOK(g.assets[k])
  BY Named DEF GraphOK
<1>2. h = [g EXCEPT !.assets = [g.assets EXCEPT ![k] = x]]
  BY <1>1 DEF Ensured, GraphOK, AssetOK
<1> HIDE DEF h, k
<1>3. /\ h.relations = g.relations /\ h.observations = g.observations
      /\ h.assets = [g.assets EXCEPT ![k] = x]
  BY <1>2 DEF GraphOK
<1>4. /\ IsSequence(h.assets) /\ DOMAIN h.assets = DOMAIN g.assets
      /\ \A i \in DOMAIN g.assets : h.assets[i] = IF i = k THEN x ELSE g.assets[i]
  BY <1>3, Replaced DEF GraphOK
<1> QED
  BY <1>3, <1>4 DEF h, k

LEMMA EnsuredAnew ==
  ASSUME NEW g, GraphOK(g), NEW key, NEW confidence, ~Known(g, key)
  PROVE  /\ Ensured(g, key, confidence).relations = g.relations
         /\ Ensured(g, key, confidence).observations = g.observations
         /\ Len(g.assets) \in Nat /\ DOMAIN g.assets = 1 .. Len(g.assets)
         /\ DOMAIN Ensured(g, key, confidence).assets = 1 .. Len(g.assets) + 1
         /\ \A i \in DOMAIN g.assets : Ensured(g, key, confidence).assets[i] = g.assets[i]
         /\ Ensured(g, key, confidence).assets[Len(g.assets) + 1] =
              [kind |-> key.kind, value |-> key.value, scope |-> ScopeOf(key),
               confidence |-> confidence, tags |-> {}]
<1> DEFINE h == Ensured(g, key, confidence)
           x == [kind |-> key.kind, value |-> key.value, scope |-> ScopeOf(key),
                 confidence |-> confidence, tags |-> {}]
<1>1. h = [g EXCEPT !.assets = Append(g.assets, x)]
  BY DEF Ensured
<1> HIDE DEF h, x
<1>2. /\ h.assets = Append(g.assets, x) /\ h.relations = g.relations
      /\ h.observations = g.observations
  BY <1>1 DEF GraphOK
<1>3. /\ Len(g.assets) \in Nat /\ DOMAIN g.assets = 1 .. Len(g.assets)
      /\ DOMAIN h.assets = 1 .. Len(g.assets) + 1
      /\ \A i \in 1 .. Len(g.assets) : h.assets[i] = g.assets[i]
      /\ h.assets[Len(g.assets) + 1] = x
  BY <1>2, Appended DEF GraphOK
<1> QED
  BY <1>2, <1>3 DEF h, x

LEMMA EnsuredOnly ==
  ASSUME NEW g, GraphOK(g), NEW key, NEW confidence
  PROVE  /\ Ensured(g, key, confidence).relations = g.relations
         /\ Ensured(g, key, confidence).observations = g.observations
<1> DEFINE h == Ensured(g, key, confidence)
<1>1. CASE Known(g, key)
  BY <1>1, EnsuredAgain
<1>2. CASE ~Known(g, key)
  <2> DEFINE x == [kind |-> key.kind, value |-> key.value, scope |-> ScopeOf(key),
                   confidence |-> confidence, tags |-> {}]
  <2>1. h = [g EXCEPT !.assets = Append(g.assets, x)]
    BY <1>2 DEF Ensured
  <2> HIDE DEF h, x
  <2>2. h.relations = g.relations /\ h.observations = g.observations
    BY <2>1 DEF GraphOK
  <2> QED
    BY <2>2 DEF h
<1> QED
  BY <1>1, <1>2

LEMMA EnsuredOthers ==
  ASSUME NEW g, GraphOK(g), NEW key, NEW confidence, ~Known(g, key), NEW i \in DOMAIN g.assets
  PROVE  Ensured(g, key, confidence).assets[i] = g.assets[i]
<1> DEFINE h == Ensured(g, key, confidence)
           x == [kind |-> key.kind, value |-> key.value, scope |-> ScopeOf(key),
                 confidence |-> confidence, tags |-> {}]
<1>1. h = [g EXCEPT !.assets = Append(g.assets, x)]
  BY DEF Ensured
<1> HIDE DEF h, x
<1>2. h.assets = Append(g.assets, x)
  BY <1>1 DEF GraphOK
<1>3. /\ DOMAIN g.assets = 1 .. Len(g.assets)
      /\ \A j \in 1 .. Len(g.assets) : h.assets[j] = g.assets[j]
  BY <1>2, Appended DEF GraphOK
<1> QED
  BY <1>3 DEF h

LEMMA EnrichedAdds ==
  ASSUME NEW g, GraphOK(g), NEW key, NEW tags
  PROVE  /\ Enriched(g, key, tags).relations = g.relations
         /\ Enriched(g, key, tags).observations = g.observations
         /\ IsSequence(Enriched(g, key, tags).assets)
         /\ DOMAIN Enriched(g, key, tags).assets = DOMAIN g.assets
         /\ \A i \in DOMAIN g.assets :
              Enriched(g, key, tags).assets[i] =
                IF i = IdOf(g, key) THEN EnrichedAsset(g.assets[i], tags) ELSE g.assets[i]
<1> DEFINE h == Enriched(g, key, tags)
           k == IdOf(g, key)
           x == EnrichedAsset(g.assets[k], tags)
<1>1. h = [g EXCEPT !.assets = [g.assets EXCEPT ![k] = x]]
  BY DEF Enriched, GraphOK
<1> HIDE DEF h, k
<1>2. /\ h.relations = g.relations /\ h.observations = g.observations
      /\ h.assets = [g.assets EXCEPT ![k] = x]
  BY <1>1 DEF GraphOK
<1>3. /\ IsSequence(h.assets) /\ DOMAIN h.assets = DOMAIN g.assets
      /\ \A i \in DOMAIN g.assets : h.assets[i] = IF i = k THEN x ELSE g.assets[i]
  BY <1>2, Replaced DEF GraphOK
<1> QED
  BY <1>2, <1>3 DEF h, k

LEMMA RelatedAdds ==
  ASSUME NEW g, GraphOK(g), NEW from, NEW to, NEW kind, NEW cited
  PROVE  /\ Related(g, from, to, kind, cited).assets = g.assets
         /\ Related(g, from, to, kind, cited).observations = g.observations
         /\ \E r \in Related(g, from, to, kind, cited).relations :
              /\ r.from = IdOf(g, from) /\ r.to = IdOf(g, to) /\ r.kind = kind
              /\ \/ Related(g, from, to, kind, cited).relations = g.relations
                 \/ /\ Related(g, from, to, kind, cited).relations = g.relations \cup {r}
                    /\ \A s \in g.relations :
                         ~(s.from = r.from /\ s.to = r.to /\ s.kind = r.kind)
<1> DEFINE h == Related(g, from, to, kind, cited)
           new == [from |-> IdOf(g, from), to |-> IdOf(g, to), kind |-> kind,
                   evidence |-> cited]
           Same(r) == r.from = new.from /\ r.to = new.to /\ r.kind = new.kind
<1>1. \/ h = g /\ \E r \in g.relations : Same(r)
      \/ h = [g EXCEPT !.relations = g.relations \cup {new}] /\ \A r \in g.relations : ~Same(r)
  BY DEF Related
<1>2. new.from = IdOf(g, from) /\ new.to = IdOf(g, to) /\ new.kind = kind
  OBVIOUS
<1>3. CASE h = g /\ \E r \in g.relations : Same(r)
  BY <1>2, <1>3
<1> HIDE DEF h, new
<1>4. CASE h = [g EXCEPT !.relations = g.relations \cup {new}] /\ \A r \in g.relations : ~Same(r)
  <2>1. /\ h.assets = g.assets /\ h.relations = g.relations \cup {new}
        /\ h.observations = g.observations
    BY <1>4 DEF GraphOK
  <2>2. /\ new \in h.relations
        /\ \A s \in g.relations : ~(s.from = new.from /\ s.to = new.to /\ s.kind = new.kind)
    BY <1>4, <2>1
  <2> QED
    BY <1>2, <2>1, <2>2 DEF h
<1> QED
  BY <1>1, <1>3, <1>4 DEF h

LEMMA ObservedOnly ==
  ASSUME NEW g, GraphOK(g), NEW source, NEW subjects, NEW facts, NEW cited
  PROVE  /\ Observed(g, source, subjects, facts, cited).assets = g.assets
         /\ Observed(g, source, subjects, facts, cited).relations = g.relations
<1> DEFINE x == [source |-> source, subjects |-> {IdOf(g, key) : key \in subjects},
                 facts |-> facts, evidence |-> cited]
<1>1. Observed(g, source, subjects, facts, cited) =
        [g EXCEPT !.observations = Append(g.observations, x)]
  BY DEF Observed
<1> HIDE DEF x
<1> QED
  BY <1>1 DEF GraphOK

LEMMA ObservedAdds ==
  ASSUME NEW g, GraphOK(g), NEW source, NEW subjects, NEW facts, NEW cited
  PROVE  /\ Observed(g, source, subjects, facts, cited).assets = g.assets
         /\ Observed(g, source, subjects, facts, cited).relations = g.relations
         /\ Len(g.observations) \in Nat
         /\ DOMAIN g.observations = 1 .. Len(g.observations)
         /\ DOMAIN Observed(g, source, subjects, facts, cited).observations
              = 1 .. Len(g.observations) + 1
         /\ Observed(g, source, subjects, facts, cited).observations[Len(g.observations) + 1] =
              [source |-> source, subjects |-> {IdOf(g, key) : key \in subjects},
               facts |-> facts, evidence |-> cited]
<1> DEFINE h == Observed(g, source, subjects, facts, cited)
           x == [source |-> source, subjects |-> {IdOf(g, key) : key \in subjects},
                 facts |-> facts, evidence |-> cited]
<1>1. h = [g EXCEPT !.observations = Append(g.observations, x)]
  BY DEF Observed
<1> HIDE DEF h, x
<1>2. /\ h.assets = g.assets /\ h.relations = g.relations
      /\ h.observations = Append(g.observations, x)
  BY <1>1 DEF GraphOK
<1>3. /\ Len(g.observations) \in Nat
      /\ DOMAIN g.observations = 1 .. Len(g.observations)
      /\ DOMAIN h.observations = 1 .. Len(g.observations) + 1
      /\ h.observations[Len(g.observations) + 1] = x
  BY <1>2, Appended DEF GraphOK
<1> QED
  BY <1>2, <1>3 DEF h, x

-----------------------------------------------------------------------------
(* The inductive invariant.                                                *)

(* There is nothing twice in the graph.                                    *)
IInv == taken \in Seq(Results) /\ GraphOK(graph) /\ Unique(graph)

(* The empty graph.                                                        *)
LEMMA InitEstablishes == Init => IInv
<1> SUFFICES ASSUME Init PROVE IInv
  OBVIOUS
<1>1. taken = <<>>
  BY DEF Init
<1>2. graph = [assets |-> <<>>, relations |-> {}, observations |-> <<>>]
  BY DEF Init, EmptyGraph
<1>3. IsSequence(<<>>)
  BY DEF IsSequence
<1> QED
  BY <1>1, <1>2, <1>3 DEF IInv, GraphOK, Unique

(* Every step keeps it.                                                    *)
LEMMA NextPreserves == IInv /\ [Next]_vars => IInv' /\ (Retained(graph, graph') \/ UNCHANGED graph)
<1> SUFFICES ASSUME IInv, [Next]_vars
             PROVE  IInv' /\ (Retained(graph, graph') \/ UNCHANGED graph)
  OBVIOUS
<1>1. CASE Start \/ Refresh \/ Store \/ End \/ UNCHANGED vars
  <2>1. UNCHANGED <<graph, taken>>
    BY <1>1 DEF Start, Refresh, Store, End, vars
  <2> QED
    BY <2>1 DEF IInv
<1>2. CASE Ingest
  <2>1. graph' = Applied(graph, Head(todo), Evidence) /\ UNCHANGED taken
    BY <1>2 DEF Ingest
  <2>2. GraphOK(graph') /\ Unique(graph') /\ Retained(graph, graph')
    BY <2>1, AppliedKeeps DEF IInv
  <2> QED
    BY <2>1, <2>2 DEF IInv
<1>3. ASSUME NEW r \in Results, TakeResult(r)
      PROVE  IInv' /\ UNCHANGED graph
  <2>1. taken' = Append(taken, r) /\ UNCHANGED graph
    BY <1>3 DEF TakeResult
  <2>2. taken' \in Seq(Results)
    BY <2>1 DEF IInv
  <2> QED
    BY <2>1, <2>2 DEF IInv
<1> QED
  BY <1>1, <1>2, <1>3 DEF Next

-----------------------------------------------------------------------------
(* Ingestions in progress.                                                 *)

(* The target of the run needs no explanation.                             *)
Seeded(key) == \E step \in ToSet(SeedSteps(Target)) : SameIdentity(key, step.key)

ObservedBy(g, source, i) ==
  \E o \in DOMAIN g.observations :
    g.observations[o].source = source /\ i \in g.observations[o].subjects

(* An observation is about it, or a relation leads to it; of a login only  *)
(* the first will do.                                                      *)
Accounted(g, i) ==
  \/ \E o \in DOMAIN g.observations : i \in g.observations[o].subjects
  \/ /\ g.assets[i].kind # "AuthenticationSurface"
     /\ \E r \in g.relations : r.to = i /\ r.from # i

(* The steps to come name assets that are known, or ensured before.        *)
Ready(g, steps) ==
  \A n \in DOMAIN steps : \A key \in Needs(steps[n]) : Known(g, key) \/ key \in Made(steps, n)

(* What they will ensure is explained by then, what they will owe is paid. *)
Closed(steps) ==
  \A n \in DOMAIN steps :
    /\ StepOK(steps[n])
    /\ Closing(steps, n) \/ (steps[n].do = "ensure" /\ Seeded(steps[n].key))

(* Every asset is explained now, or by a step to come.                     *)
Explainable(g, steps) ==
  \A i \in DOMAIN g.assets :
    \/ Seeded(g.assets[i]) \/ Accounted(g, i)
    \/ \E n \in DOMAIN steps : Explains(steps[n], g.assets[i])

(* Every source to which an asset owes has observed it, or will.           *)
Owing(g, steps) ==
  \A i \in DOMAIN g.assets : \A source \in Owed(g.assets[i].kind, g.assets[i].tags) :
    \/ ObservedBy(g, source, i)
    \/ \E n \in DOMAIN steps : Observes(steps[n], source, g.assets[i])

(* The ends of a relation are there, and every confidence is one.          *)
Sound(g) ==
  /\ \A r \in g.relations : r.from \in DOMAIN g.assets /\ r.to \in DOMAIN g.assets
  /\ \A i \in DOMAIN g.assets : g.assets[i].confidence \in Confidences

Progress ==
  /\ IsSequence(todo) /\ phase \in {"ingest", "refresh"} /\ (phase = "refresh" => todo = <<>>)
  /\ Sound(graph) /\ Ready(graph, todo) /\ Closed(todo)
  /\ Explainable(graph, todo) /\ Owing(graph, todo)

(* The first step, and those after it.                                     *)
LEMMA Rest ==
  ASSUME NEW s, IsSequence(s), s # <<>>
  PROVE  /\ IsSequence(Tail(s)) /\ 1 \in DOMAIN s /\ Head(s) = s[1]
         /\ \A n \in DOMAIN Tail(s) : n \in Nat /\ n + 1 \in DOMAIN s /\ Tail(s)[n] = s[n + 1]
         /\ \A n \in DOMAIN s :
              n = 1 \/ (n - 1 \in DOMAIN Tail(s) /\ Tail(s)[n - 1] = s[n])
<1> DEFINE S == ToSet(s)
<1>1. s \in Seq(S) /\ s # <<>>
  BY DEF IsSequence
<1> HIDE DEF S
<1>2. /\ Len(s) \in Nat /\ Len(s) > 0 /\ DOMAIN s = 1 .. Len(s) /\ Head(s) = s[1]
      /\ Tail(s) \in Seq(S) /\ Len(Tail(s)) = Len(s) - 1
      /\ \A n \in 1 .. Len(s) - 1 : Tail(s)[n] = s[n + 1]
  BY <1>1
<1>3. IsSequence(Tail(s)) /\ DOMAIN Tail(s) = 1 .. Len(s) - 1
  <2>1. IsSequence(Tail(s))
    BY <1>2, SequenceOf
  <2>2. DOMAIN Tail(s) = 1 .. Len(Tail(s))
    BY <2>1, Listed
  <2> QED
    BY <1>2, <2>1, <2>2
<1>4. \A n \in 1 .. Len(s) - 1 : n \in Nat /\ n + 1 \in 1 .. Len(s)
  BY <1>2
<1>5. \A n \in 1 .. Len(s) : n = 1 \/ (n - 1 \in 1 .. Len(s) - 1 /\ (n - 1) + 1 = n)
  BY <1>2
<1>6. \A n \in 1 .. Len(s) : n = 1 \/ Tail(s)[n - 1] = s[n]
  BY <1>2, <1>5
<1> QED
  BY <1>2, <1>3, <1>4, <1>5, <1>6

LEMMA RestMade ==
  ASSUME NEW s, IsSequence(s), s # <<>>, NEW n \in DOMAIN Tail(s), NEW key \in Made(s, n + 1)
  PROVE  (Head(s).do = "ensure" /\ key = Head(s).key) \/ key \in Made(Tail(s), n)
<1>1. /\ IsSequence(Tail(s)) /\ Head(s) = s[1] /\ n \in Nat
      /\ \A m \in DOMAIN s : m = 1 \/ (m - 1 \in DOMAIN Tail(s) /\ Tail(s)[m - 1] = s[m])
  BY Rest
<1>2. PICK m \in 1 .. n : s[m].do = "ensure" /\ key = s[m].key
  BY <1>1 DEF Made
<1>3. m \in DOMAIN s
  <2>1. n + 1 \in DOMAIN s /\ Len(s) \in Nat /\ DOMAIN s = 1 .. Len(s)
    BY Rest, Listed
  <2> QED
    BY <1>1, <2>1
<1>4. CASE m = 1
  BY <1>1, <1>2, <1>4
<1>5. CASE m # 1
  <2>1. m - 1 \in 1 .. n - 1
    BY <1>1, <1>5
  <2>2. Tail(s)[m - 1] = s[m]
    BY <1>1, <1>3, <1>5
  <2> QED
    BY <1>2, <2>1, <2>2 DEF Made
<1> QED
  BY <1>4, <1>5

LEMMA RestLater ==
  ASSUME NEW s, IsSequence(s), s # <<>>, NEW n \in Nat, NEW m \in DOMAIN s, m > n + 1
  PROVE  m - 1 \in DOMAIN Tail(s) /\ m - 1 > n /\ Tail(s)[m - 1] = s[m]
<1>1. Len(s) \in Nat /\ DOMAIN s = 1 .. Len(s)
  BY Listed
<1>2. m # 1 /\ m - 1 > n
  BY <1>1
<1> QED
  BY <1>2, Rest

(* What is closed stays so as the steps are taken.                         *)
LEMMA RestClosed ==
  ASSUME NEW s, IsSequence(s), s # <<>>, Closed(s)
  PROVE  Closed(Tail(s))
<1> DEFINE t == Tail(s)
<1> SUFFICES ASSUME NEW n \in DOMAIN t
             PROVE  /\ StepOK(t[n])
                    /\ Closing(t, n) \/ (t[n].do = "ensure" /\ Seeded(t[n].key))
  BY DEF Closed
<1>1. n \in Nat /\ n + 1 \in DOMAIN s /\ t[n] = s[n + 1]
  BY Rest
<1>2. /\ StepOK(s[n + 1])
      /\ Closing(s, n + 1) \/ (s[n + 1].do = "ensure" /\ Seeded(s[n + 1].key))
  BY <1>1 DEF Closed
<1>3. \A m \in DOMAIN s : m > n + 1 => m - 1 \in DOMAIN t /\ m - 1 > n /\ t[m - 1] = s[m]
  BY <1>1, RestLater
<1> HIDE DEF t
<1>4. Closing(s, n + 1) => Closing(t, n)
  <2>1. ASSUME Closing(s, n + 1), t[n].do = "ensure"
        PROVE  \E m \in DOMAIN t : m > n /\ Explains(t[m], t[n].key)
    <3>1. PICK m \in DOMAIN s : m > n + 1 /\ Explains(s[m], s[n + 1].key)
      BY <1>1, <2>1 DEF Closing
    <3>2. m - 1 \in DOMAIN t /\ m - 1 > n /\ Explains(t[m - 1], t[n].key)
      BY <1>1, <1>3, <3>1
    <3> QED
      BY <3>2
  <2>2. ASSUME Closing(s, n + 1), t[n].do = "enrich",
               NEW source \in Owed(t[n].key.kind, t[n].tags)
        PROVE  \E m \in DOMAIN t : m > n /\ Observes(t[m], source, t[n].key)
    <3>1. PICK m \in DOMAIN s : m > n + 1 /\ Observes(s[m], source, s[n + 1].key)
      BY <1>1, <2>2 DEF Closing
    <3>2. m - 1 \in DOMAIN t /\ m - 1 > n /\ Observes(t[m - 1], source, t[n].key)
      BY <1>1, <1>3, <3>1
    <3> QED
      BY <3>2
  <2> QED
    BY <2>1, <2>2 DEF Closing
<1> QED
  BY <1>1, <1>2, <1>4

(* No asset becomes less sure.                                             *)
LEMMA NotWeaker ==
  ASSUME NEW g, NEW step, NEW cited, GraphOK(g), Sound(g), StepOK(step),
         \A key \in Needs(step) : Known(g, key),
         NEW i \in DOMAIN g.assets
  PROVE  /\ Applied(g, step, cited).assets[i].confidence \in Confidences
         /\ Rank[g.assets[i].confidence] <= Rank[Applied(g, step, cited).assets[i].confidence]
<1> DEFINE old == g.assets[i].confidence
<1>1. old \in Confidences /\ Rank[old] <= Rank[old]
  BY Ranks DEF Sound
<1>2. AssetOK(g.assets[i])
  BY DEF GraphOK
<1>3. CASE step.do = "ensure" /\ Known(g, step.key)
  <2>1. step.confidence \in Confidences
    BY <1>3 DEF StepOK
  <2>2. Applied(g, step, cited) = Ensured(g, step.key, step.confidence)
    BY <1>3 DEF Applied
  <2>3. \/ Applied(g, step, cited).assets[i] = g.assets[i]
        \/ Applied(g, step, cited).assets[i] =
             [g.assets[i] EXCEPT !.confidence = Stronger(old, step.confidence)]
    BY <1>3, <2>2, EnsuredAgain
  <2>4. [g.assets[i] EXCEPT !.confidence = Stronger(old, step.confidence)].confidence =
          Stronger(old, step.confidence)
    BY <1>2, Firmed
  <2> QED
    BY <1>1, <2>1, <2>3, <2>4, StrongerKeeps
<1>4. CASE step.do = "ensure" /\ ~Known(g, step.key)
  <2>1. Applied(g, step, cited) = Ensured(g, step.key, step.confidence)
    BY <1>4 DEF Applied
  <2>2. Applied(g, step, cited).assets[i] = g.assets[i]
    BY <1>4, <2>1, EnsuredOthers
  <2> QED
    BY <1>1, <2>2
<1>5. CASE step.do = "enrich"
  <2>1. Applied(g, step, cited) = Enriched(g, step.key, step.tags)
    BY <1>5 DEF Applied
  <2>2. \/ Applied(g, step, cited).assets[i] = g.assets[i]
        \/ Applied(g, step, cited).assets[i] = EnrichedAsset(g.assets[i], step.tags)
    BY <2>1, EnrichedAdds
  <2>3. EnrichedAsset(g.assets[i], step.tags).confidence =
          Corroborated(old, g.assets[i].tags \cup step.tags)
    BY <1>2, Tagging
  <2> QED
    BY <1>1, <2>2, <2>3, CorroboratedKeeps
<1>6. CASE step.do = "relate"
  BY <1>1, <1>6, RelatedAdds DEF Applied
<1>7. CASE step.do = "observe"
  <2>1. Applied(g, step, cited) = Observed(g, step.source, step.subjects, step.facts, cited)
    BY <1>7 DEF Applied
  <2>2. Applied(g, step, cited).assets = g.assets
    BY <2>1, ObservedOnly
  <2> QED
    BY <1>1, <2>2
<1> QED
  BY <1>3, <1>4, <1>5, <1>6, <1>7 DEF StepOK

(* An asset is new, has the tags it had, or was given those of the step.   *)
LEMMA NewAsset ==
  ASSUME NEW g, NEW step, NEW cited, GraphOK(g), StepOK(step),
         NEW i \in DOMAIN Applied(g, step, cited).assets, i \notin DOMAIN g.assets
  PROVE  /\ step.do = "ensure" /\ ~Known(g, step.key) /\ i = Len(g.assets) + 1
         /\ Applied(g, step, cited).assets[i] =
              [kind |-> step.key.kind, value |-> step.key.value, scope |-> ScopeOf(step.key),
               confidence |-> step.confidence, tags |-> {}]
<1>1. CASE step.do = "ensure" /\ Known(g, step.key)
  BY <1>1, EnsuredAgain DEF Applied
<1>2. CASE step.do = "ensure" /\ ~Known(g, step.key)
  <2>1. Applied(g, step, cited) = Ensured(g, step.key, step.confidence)
    BY <1>2 DEF Applied
  <2>2. /\ Len(g.assets) \in Nat /\ DOMAIN g.assets = 1 .. Len(g.assets)
        /\ DOMAIN Applied(g, step, cited).assets = 1 .. Len(g.assets) + 1
        /\ Applied(g, step, cited).assets[Len(g.assets) + 1] =
             [kind |-> step.key.kind, value |-> step.key.value, scope |-> ScopeOf(step.key),
              confidence |-> step.confidence, tags |-> {}]
    BY <1>2, <2>1, EnsuredAnew
  <2>3. i = Len(g.assets) + 1
    BY <2>2
  <2> QED
    BY <1>2, <2>2, <2>3
<1>3. CASE step.do = "enrich"
  BY <1>3, EnrichedAdds DEF Applied
<1>4. CASE step.do = "relate"
  BY <1>4, RelatedAdds DEF Applied
<1>5. CASE step.do = "observe"
  <2>1. Applied(g, step, cited) = Observed(g, step.source, step.subjects, step.facts, cited)
    BY <1>5 DEF Applied
  <2>2. Applied(g, step, cited).assets = g.assets
    BY <2>1, ObservedOnly
  <2> QED
    BY <2>2
<1> QED
  BY <1>1, <1>2, <1>3, <1>4, <1>5 DEF StepOK

LEMMA NewTags ==
  ASSUME NEW g, NEW step, NEW cited, GraphOK(g), StepOK(step),
         \A key \in Needs(step) : Known(g, key), NEW i \in DOMAIN g.assets
  PROVE  \/ Applied(g, step, cited).assets[i].tags = g.assets[i].tags
         \/ /\ step.do = "enrich" /\ SameIdentity(g.assets[i], step.key)
            /\ Applied(g, step, cited).assets[i].tags = g.assets[i].tags \cup step.tags
<1>1. AssetOK(g.assets[i])
  BY DEF GraphOK
<1>2. CASE step.do = "ensure" /\ Known(g, step.key)
  <2>1. Applied(g, step, cited) = Ensured(g, step.key, step.confidence)
    BY <1>2 DEF Applied
  <2>2. \/ Applied(g, step, cited).assets[i] = g.assets[i]
        \/ Applied(g, step, cited).assets[i] =
             [g.assets[i] EXCEPT !.confidence = Stronger(g.assets[i].confidence, step.confidence)]
    BY <1>2, <2>1, EnsuredAgain
  <2>3. [g.assets[i] EXCEPT !.confidence =
           Stronger(g.assets[i].confidence, step.confidence)].tags = g.assets[i].tags
    BY <1>1, Firmed
  <2> QED
    BY <2>2, <2>3
<1>3. CASE step.do = "ensure" /\ ~Known(g, step.key)
  <2>1. Applied(g, step, cited) = Ensured(g, step.key, step.confidence)
    BY <1>3 DEF Applied
  <2>2. Applied(g, step, cited).assets[i] = g.assets[i]
    BY <1>3, <2>1, EnsuredOthers
  <2> QED
    BY <2>2
<1>4. CASE step.do = "enrich"
  <2>1. Applied(g, step, cited) = Enriched(g, step.key, step.tags)
    BY <1>4 DEF Applied
  <2>2. \/ Applied(g, step, cited).assets[i] = g.assets[i]
        \/ /\ i = IdOf(g, step.key)
           /\ Applied(g, step, cited).assets[i] = EnrichedAsset(g.assets[i], step.tags)
    BY <2>1, EnrichedAdds
  <2>3. EnrichedAsset(g.assets[i], step.tags).tags = g.assets[i].tags \cup step.tags
    BY <1>1, Tagging
  <2>4. SameIdentity(g.assets[IdOf(g, step.key)], step.key)
    BY <1>4, Named DEF Needs
  <2> QED
    BY <1>4, <2>2, <2>3, <2>4
<1>5. CASE step.do = "relate"
  BY <1>5, RelatedAdds DEF Applied
<1>6. CASE step.do = "observe"
  <2>1. Applied(g, step, cited) = Observed(g, step.source, step.subjects, step.facts, cited)
    BY <1>6 DEF Applied
  <2>2. Applied(g, step, cited).assets = g.assets
    BY <2>1, ObservedOnly
  <2> QED
    BY <2>2
<1> QED
  BY <1>2, <1>3, <1>4, <1>5, <1>6 DEF StepOK

(* An asset that has been ensured is known.                                *)
LEMMA EnsuredKnown ==
  ASSUME NEW g, NEW step, NEW cited, GraphOK(g), step.do = "ensure"
  PROVE  Known(Applied(g, step, cited), step.key)
<1>1. Applied(g, step, cited) = Ensured(g, step.key, step.confidence)
  BY DEF Applied
<1> DEFINE h == Ensured(g, step.key, step.confidence)
<1>2. CASE Known(g, step.key)
  <2> DEFINE k == IdOf(g, step.key)
  <2>1. k \in DOMAIN g.assets /\ SameIdentity(g.assets[k], step.key) /\ AssetOK(g.assets[k])
    BY <1>2, Named DEF GraphOK
  <2> HIDE DEF k
  <2>2. /\ k \in DOMAIN h.assets
        /\ \/ h.assets[k] = g.assets[k]
           \/ h.assets[k] = [g.assets[k] EXCEPT !.confidence =
                               Stronger(g.assets[k].confidence, step.confidence)]
    BY <1>2, <2>1, EnsuredAgain
  <2> HIDE DEF h
  <2>3. h.assets[k].kind = g.assets[k].kind /\ h.assets[k].value = g.assets[k].value
    <3> DEFINE c == Stronger(g.assets[k].confidence, step.confidence)
    <3>1. h.assets[k] = g.assets[k] \/ h.assets[k] = [g.assets[k] EXCEPT !.confidence = c]
      BY <2>2
    <3> HIDE DEF c
    <3>2. /\ [g.assets[k] EXCEPT !.confidence = c].kind = g.assets[k].kind
          /\ [g.assets[k] EXCEPT !.confidence = c].value = g.assets[k].value
      BY <2>1, Firmed
    <3> QED
      BY <3>1, <3>2
  <2>4. SameIdentity(h.assets[k], step.key)
    BY <2>1, <2>3 DEF SameIdentity
  <2> QED
    BY <1>1, <2>2, <2>4 DEF Known, h
<1>3. CASE ~Known(g, step.key)
  <2> DEFINE n == Len(g.assets) + 1
  <2>1. /\ Len(g.assets) \in Nat /\ DOMAIN h.assets = 1 .. n
        /\ h.assets[n] = [kind |-> step.key.kind, value |-> step.key.value,
                          scope |-> ScopeOf(step.key), confidence |-> step.confidence,
                          tags |-> {}]
    BY <1>3, EnsuredAnew
  <2>2. n \in DOMAIN h.assets
    BY <2>1
  <2> HIDE DEF h, n
  <2>3. SameIdentity(h.assets[n], step.key)
    BY <2>1 DEF SameIdentity
  <2> QED
    BY <1>1, <2>2, <2>3 DEF Known, h
<1> QED
  BY <1>2, <1>3

(* A step observes what it says it does, and explains it.                  *)
LEMMA ObservesNow ==
  ASSUME NEW g, NEW step, NEW cited, GraphOK(g), Unique(g), NEW i \in DOMAIN g.assets,
         step.do = "observe", \E subject \in step.subjects : SameIdentity(subject, g.assets[i])
  PROVE  \E o \in DOMAIN Applied(g, step, cited).observations :
           /\ Applied(g, step, cited).observations[o].source = step.source
           /\ i \in Applied(g, step, cited).observations[o].subjects
<1> DEFINE h == Observed(g, step.source, step.subjects, step.facts, cited)
           n == Len(g.observations) + 1
<1>1. Applied(g, step, cited) = h
  BY DEF Applied
<1>2. PICK subject \in step.subjects : SameIdentity(subject, g.assets[i])
  OBVIOUS
<1>3. IdOf(g, subject) = i
  <2>1. SameIdentity(g.assets[i], subject)
    BY <1>2 DEF SameIdentity
  <2> QED
    BY <2>1, Identified
<1>4. /\ Len(g.observations) \in Nat /\ DOMAIN h.observations = 1 .. n
      /\ h.observations[n] =
           [source |-> step.source, subjects |-> {IdOf(g, key) : key \in step.subjects},
            facts |-> step.facts, evidence |-> cited]
  BY ObservedAdds
<1>5. n \in DOMAIN h.observations
  BY <1>4
<1>6. h.observations[n].source = step.source /\ i \in h.observations[n].subjects
  BY <1>2, <1>3, <1>4
<1> HIDE DEF h, n
<1> QED
  BY <1>1, <1>5, <1>6

LEMMA ExplainsNow ==
  ASSUME NEW g, NEW step, NEW cited, GraphOK(g), Unique(g), Sound(g), StepOK(step),
         \A key \in Needs(step) : Known(g, key),
         NEW i \in DOMAIN g.assets, Explains(step, g.assets[i]),
         Retained(g, Applied(g, step, cited))
  PROVE  Accounted(Applied(g, step, cited), i)
<1> DEFINE h == Applied(g, step, cited)
<1>1. CASE Linking(step, g.assets[i])
  <2>1. /\ step.do = "relate" /\ SameIdentity(step.to, g.assets[i])
        /\ ~SameIdentity(step.key, g.assets[i]) /\ g.assets[i].kind # "AuthenticationSurface"
    BY <1>1 DEF Linking
  <2>2. PICK r \in h.relations : r.from = IdOf(g, step.key) /\ r.to = IdOf(g, step.to)
    BY <2>1, RelatedAdds DEF Applied
  <2>3. IdOf(g, step.to) = i
    <3>1. SameIdentity(g.assets[i], step.to)
      BY <2>1 DEF SameIdentity
    <3> QED
      BY <3>1, Identified
  <2>4. IdOf(g, step.key) # i
    <3>1. Known(g, step.key)
      BY <2>1 DEF Needs
    <3>2. SameIdentity(g.assets[IdOf(g, step.key)], step.key)
      BY <3>1, Named
    <3> QED
      BY <2>1, <3>2 DEF SameIdentity
  <2>5. h.assets[i].kind # "AuthenticationSurface"
    BY <2>1 DEF Retained
  <2> QED
    BY <2>2, <2>3, <2>4, <2>5 DEF Accounted
<1>2. CASE step.do = "observe" /\ \E subject \in step.subjects : SameIdentity(subject, g.assets[i])
  BY <1>2, ObservesNow DEF Accounted
<1> QED
  BY <1>1, <1>2 DEF Explains

-----------------------------------------------------------------------------
(* One step of an ingestion in progress.                                   *)

LEMMA StepSound ==
  ASSUME NEW g, NEW step, NEW cited, GraphOK(g), Sound(g), StepOK(step),
         \A key \in Needs(step) : Known(g, key), Retained(g, Applied(g, step, cited))
  PROVE  Sound(Applied(g, step, cited))
<1> DEFINE h == Applied(g, step, cited)
<1>1. \A i \in DOMAIN h.assets : h.assets[i].confidence \in Confidences
  <2> SUFFICES ASSUME NEW i \in DOMAIN h.assets
               PROVE  h.assets[i].confidence \in Confidences
    OBVIOUS
  <2>1. CASE i \in DOMAIN g.assets
    BY <2>1, NotWeaker
  <2>2. CASE i \notin DOMAIN g.assets
    <3>1. step.do = "ensure" /\ h.assets[i].confidence = step.confidence
      <4>1. /\ step.do = "ensure"
            /\ h.assets[i] =
                 [kind |-> step.key.kind, value |-> step.key.value, scope |-> ScopeOf(step.key),
                  confidence |-> step.confidence, tags |-> {}]
        BY <2>2, NewAsset
      <4> QED
        BY <4>1
    <3> QED
      BY <3>1 DEF StepOK
  <2> QED
    BY <2>1, <2>2
<1>2. \A r \in g.relations : r.from \in DOMAIN h.assets /\ r.to \in DOMAIN h.assets
  BY DEF Sound, Retained
<1>3. CASE step.do = "relate"
  <2>1. Known(g, step.key) /\ Known(g, step.to)
    BY <1>3 DEF Needs
  <2>2. IdOf(g, step.key) \in DOMAIN h.assets /\ IdOf(g, step.to) \in DOMAIN h.assets
    <3>1. IdOf(g, step.key) \in DOMAIN g.assets /\ IdOf(g, step.to) \in DOMAIN g.assets
      BY <2>1, Named
    <3> QED
      BY <3>1 DEF Retained
  <2>3. h = Related(g, step.key, step.to, step.kind, cited)
    BY <1>3 DEF Applied
  <2>4. PICK r \in h.relations :
          /\ r.from = IdOf(g, step.key) /\ r.to = IdOf(g, step.to)
          /\ h.relations = g.relations \/ h.relations = g.relations \cup {r}
    BY <2>3, RelatedAdds
  <2> HIDE DEF h
  <2>5. \A q \in h.relations : q.from \in DOMAIN h.assets /\ q.to \in DOMAIN h.assets
    BY <1>2, <2>2, <2>4
  <2> QED
    BY <1>1, <2>5 DEF Sound, h
<1>4. CASE step.do # "relate"
  <2>1. h.relations = g.relations
    <3>1. CASE step.do = "ensure"
      <4>1. h = Ensured(g, step.key, step.confidence)
        BY <3>1 DEF Applied
      <4> QED
        BY <4>1, EnsuredOnly
    <3>2. CASE step.do = "enrich"
      BY <3>2, EnrichedAdds DEF Applied
    <3>3. CASE step.do = "observe"
      <4>1. h = Observed(g, step.source, step.subjects, step.facts, cited)
        BY <3>3 DEF Applied
      <4> QED
        BY <4>1, ObservedOnly
    <3> QED
      BY <1>4, <3>1, <3>2, <3>3 DEF StepOK
  <2> QED
    BY <1>1, <1>2, <2>1 DEF Sound
<1> QED
  BY <1>3, <1>4

LEMMA StepReady ==
  ASSUME NEW g, NEW s, NEW h, NEW cited, IsSequence(s), s # <<>>, GraphOK(g), Unique(h),
         h = Applied(g, Head(s), cited), Retained(g, h), Ready(g, s)
  PROVE  Ready(h, Tail(s))
<1> DEFINE t == Tail(s)
<1> SUFFICES ASSUME NEW n \in DOMAIN t, NEW key \in Needs(t[n])
             PROVE  Known(h, key) \/ key \in Made(t, n)
  BY DEF Ready
<1>1. n + 1 \in DOMAIN s /\ t[n] = s[n + 1]
  BY Rest
<1>2. Known(g, key) \/ key \in Made(s, n + 1)
  BY <1>1 DEF Ready
<1>3. CASE Known(g, key)
  BY <1>3, StaysNamed
<1>4. CASE key \in Made(s, n + 1)
  <2>1. (Head(s).do = "ensure" /\ key = Head(s).key) \/ key \in Made(t, n)
    BY <1>4, RestMade
  <2>2. Head(s).do = "ensure" => Known(h, Head(s).key)
    BY EnsuredKnown
  <2> QED
    BY <2>1, <2>2
<1> QED
  BY <1>2, <1>3, <1>4

(* What is explained, and what has been observed, stays so.                *)
LEMMA StaysAccounted ==
  ASSUME NEW g, NEW h, Retained(g, h), NEW i \in DOMAIN g.assets, Accounted(g, i)
  PROVE  Accounted(h, i)
BY DEF Retained, Accounted

LEMMA StaysObserved ==
  ASSUME NEW g, NEW h, Retained(g, h), NEW source, NEW i, ObservedBy(g, source, i)
  PROVE  ObservedBy(h, source, i)
BY DEF Retained, ObservedBy

LEMMA SeededSame ==
  ASSUME NEW a, NEW b, SameIdentity(a, b), Seeded(a)
  PROVE  Seeded(b)
BY DEF Seeded, SameIdentity

LEMMA ExplainsSame ==
  ASSUME NEW step, NEW a, NEW b, SameIdentity(a, b), Explains(step, a)
  PROVE  Explains(step, b)
BY DEF Explains, Linking, SameIdentity

LEMMA ObservesSame ==
  ASSUME NEW step, NEW source, NEW a, NEW b, SameIdentity(a, b), Observes(step, source, a)
  PROVE  Observes(step, source, b)
BY DEF Observes, SameIdentity

LEMMA StaysSame ==
  ASSUME NEW g, NEW h, Retained(g, h), NEW i \in DOMAIN g.assets
  PROVE  SameIdentity(g.assets[i], h.assets[i])
BY DEF Retained, SameIdentity

LEMMA StepExplainable ==
  ASSUME NEW g, NEW s, NEW h, NEW cited, IsSequence(s), s # <<>>, GraphOK(g), Unique(g), Sound(g),
         h = Applied(g, Head(s), cited), Retained(g, h), Ready(g, s), Closed(s), Explainable(g, s)
  PROVE  Explainable(h, Tail(s))
<1> DEFINE t == Tail(s)
<1>1. /\ 1 \in DOMAIN s /\ Head(s) = s[1]
      /\ \A n \in DOMAIN s : n = 1 \/ (n - 1 \in DOMAIN t /\ t[n - 1] = s[n])
  BY Rest
<1>2. StepOK(Head(s)) /\ \A key \in Needs(Head(s)) : Known(g, key)
  <2>1. Made(s, 1) = {}
    BY DEF Made
  <2> QED
    BY <1>1, <2>1 DEF Closed, Ready
<1> SUFFICES ASSUME NEW i \in DOMAIN h.assets
             PROVE  \/ Seeded(h.assets[i]) \/ Accounted(h, i)
                    \/ \E n \in DOMAIN t : Explains(t[n], h.assets[i])
  BY DEF Explainable
<1>3. CASE i \in DOMAIN g.assets
  <2>1. SameIdentity(g.assets[i], h.assets[i])
    BY <1>3, StaysSame
  <2>2. CASE Seeded(g.assets[i])
    BY <2>1, <2>2, SeededSame
  <2>3. CASE Accounted(g, i)
    BY <1>3, <2>3, StaysAccounted
  <2>4. ASSUME NEW n \in DOMAIN s, Explains(s[n], g.assets[i])
        PROVE  Accounted(h, i) \/ \E m \in DOMAIN t : Explains(t[m], h.assets[i])
    <3>1. CASE n = 1
      <4>1. Explains(Head(s), g.assets[i])
        BY <1>1, <2>4, <3>1
      <4> QED
        BY <1>2, <1>3, <4>1, ExplainsNow
    <3>2. CASE n # 1
      <4>1. n - 1 \in DOMAIN t /\ t[n - 1] = s[n]
        BY <1>1, <3>2
      <4>2. Explains(s[n], h.assets[i])
        BY <2>1, <2>4, ExplainsSame
      <4> HIDE DEF t
      <4> QED
        BY <4>1, <4>2
    <3> QED
      BY <3>1, <3>2
  <2> QED
    BY <1>3, <2>2, <2>3, <2>4 DEF Explainable
<1>4. CASE i \notin DOMAIN g.assets
  <2>1. /\ Head(s).do = "ensure"
        /\ h.assets[i].kind = Head(s).key.kind /\ h.assets[i].value = Head(s).key.value
    <3>1. /\ Head(s).do = "ensure"
          /\ h.assets[i] =
               [kind |-> Head(s).key.kind, value |-> Head(s).key.value,
                scope |-> ScopeOf(Head(s).key), confidence |-> Head(s).confidence, tags |-> {}]
      BY <1>2, <1>4, NewAsset
    <3> QED
      BY <3>1
  <2>2. SameIdentity(Head(s).key, h.assets[i])
    BY <2>1 DEF SameIdentity
  <2>3. Closing(s, 1) \/ Seeded(Head(s).key)
    BY <1>1 DEF Closed
  <2>4. CASE Seeded(Head(s).key)
    BY <2>2, <2>4, SeededSame
  <2>5. CASE Closing(s, 1)
    <3>1. PICK m \in DOMAIN s : m > 1 /\ Explains(s[m], Head(s).key)
      BY <1>1, <2>1, <2>5 DEF Closing
    <3>2. Explains(s[m], h.assets[i])
      BY <2>2, <3>1, ExplainsSame
    <3>3. m # 1
      <4>1. Len(s) \in Nat /\ DOMAIN s = 1 .. Len(s)
        BY Listed
      <4> QED
        BY <3>1, <4>1
    <3>4. m - 1 \in DOMAIN t /\ t[m - 1] = s[m]
      BY <1>1, <3>3
    <3> HIDE DEF t
    <3> QED
      BY <3>2, <3>4
  <2> QED
    BY <2>3, <2>4, <2>5
<1> QED
  BY <1>3, <1>4

LEMMA StepOwing ==
  ASSUME NEW g, NEW s, NEW h, NEW cited, IsSequence(s), s # <<>>, GraphOK(g), Unique(g), Sound(g),
         h = Applied(g, Head(s), cited), Retained(g, h), Ready(g, s), Closed(s), Owing(g, s)
  PROVE  Owing(h, Tail(s))
<1> DEFINE t == Tail(s)
<1>1. /\ 1 \in DOMAIN s /\ Head(s) = s[1]
      /\ \A n \in DOMAIN s : n = 1 \/ (n - 1 \in DOMAIN t /\ t[n - 1] = s[n])
  BY Rest
<1>2. StepOK(Head(s)) /\ \A key \in Needs(Head(s)) : Known(g, key)
  <2>1. Made(s, 1) = {}
    BY DEF Made
  <2> QED
    BY <1>1, <2>1 DEF Closed, Ready
<1> SUFFICES ASSUME NEW i \in DOMAIN h.assets,
                    NEW source \in Owed(h.assets[i].kind, h.assets[i].tags)
             PROVE  \/ ObservedBy(h, source, i)
                    \/ \E n \in DOMAIN t : Observes(t[n], source, h.assets[i])
  BY DEF Owing
<1>3. i \in DOMAIN g.assets
  <2> SUFFICES ASSUME i \notin DOMAIN g.assets
               PROVE  FALSE
    OBVIOUS
  <2>1. h.assets[i].tags = {}
    <3>1. h.assets[i] =
            [kind |-> Head(s).key.kind, value |-> Head(s).key.value,
             scope |-> ScopeOf(Head(s).key), confidence |-> Head(s).confidence, tags |-> {}]
      BY <1>2, NewAsset
    <3> QED
      BY <3>1
  <2> QED
    BY <2>1 DEF Owed
<1>4. SameIdentity(g.assets[i], h.assets[i]) /\ h.assets[i].kind = g.assets[i].kind
  BY <1>3, StaysSame DEF Retained
<1>5. CASE source \in Owed(g.assets[i].kind, g.assets[i].tags)
  <2>1. ObservedBy(g, source, i) \/ \E n \in DOMAIN s : Observes(s[n], source, g.assets[i])
    BY <1>3, <1>5 DEF Owing
  <2>2. CASE ObservedBy(g, source, i)
    BY <2>2, StaysObserved
  <2>3. ASSUME NEW n \in DOMAIN s, Observes(s[n], source, g.assets[i])
        PROVE  ObservedBy(h, source, i) \/ \E m \in DOMAIN t : Observes(t[m], source, h.assets[i])
    <3>1. CASE n = 1
      <4>1. /\ Head(s).do = "observe" /\ Head(s).source = source
            /\ \E subject \in Head(s).subjects : SameIdentity(subject, g.assets[i])
        BY <1>1, <2>3, <3>1 DEF Observes
      <4>2. \E o \in DOMAIN h.observations :
              h.observations[o].source = Head(s).source /\ i \in h.observations[o].subjects
        BY <1>3, <4>1, ObservesNow
      <4> QED
        BY <4>1, <4>2 DEF ObservedBy
    <3>2. CASE n # 1
      <4>1. n - 1 \in DOMAIN t /\ t[n - 1] = s[n]
        BY <1>1, <3>2
      <4>2. Observes(s[n], source, h.assets[i])
        BY <1>4, <2>3, ObservesSame
      <4> HIDE DEF t
      <4> QED
        BY <4>1, <4>2
    <3> QED
      BY <3>1, <3>2
  <2> QED
    BY <2>1, <2>2, <2>3
<1>6. CASE source \notin Owed(g.assets[i].kind, g.assets[i].tags)
  <2>1. /\ Head(s).do = "enrich" /\ SameIdentity(g.assets[i], Head(s).key)
        /\ h.assets[i].tags = g.assets[i].tags \cup Head(s).tags
    <3>1. h.assets[i].tags # g.assets[i].tags
      BY <1>4, <1>6
    <3> QED
      BY <1>2, <1>3, <3>1, NewTags
  <2>2. source \in Owed(Head(s).key.kind, Head(s).tags)
    <3>1. Head(s).key.kind = g.assets[i].kind
      BY <2>1 DEF SameIdentity
    <3> QED
      BY <1>4, <1>6, <2>1, <3>1 DEF Owed
  <2>3. Closing(s, 1)
    BY <1>1, <2>1 DEF Closed
  <2>4. PICK m \in DOMAIN s : m > 1 /\ Observes(s[m], source, Head(s).key)
    BY <1>1, <2>1, <2>2, <2>3 DEF Closing
  <2>5. Observes(s[m], source, h.assets[i])
    <3>1. SameIdentity(Head(s).key, h.assets[i])
      BY <1>4, <2>1 DEF SameIdentity
    <3> QED
      BY <2>4, <3>1, ObservesSame
  <2>6. m # 1
    <3>1. Len(s) \in Nat /\ DOMAIN s = 1 .. Len(s)
      BY Listed
    <3> QED
      BY <2>4, <3>1
  <2>7. m - 1 \in DOMAIN t /\ t[m - 1] = s[m]
    BY <1>1, <2>6
  <2> HIDE DEF t
  <2> QED
    BY <2>5, <2>7
<1> QED
  BY <1>5, <1>6

(* The target of the run is ensured first, and accounts for itself.        *)
LEMMA InitProgress == Init => Progress
<1> SUFFICES ASSUME Init PROVE Progress
  OBVIOUS
<1> DEFINE seeds == SeedSteps(Target)
<1>1. /\ IsSequence(seeds)
      /\ \A n \in DOMAIN seeds : seeds[n].do = "ensure" /\ seeds[n].confidence = "Confirmed"
  BY InputsAssumption, SeedsOnly
<1>2. todo = seeds /\ phase = "ingest"
  BY DEF Init
<1>3. \A n \in DOMAIN seeds : Seeded(seeds[n].key)
  BY DEF Seeded, ToSet, SameIdentity
<1> HIDE DEF seeds
<1>4. Closed(seeds)
  BY <1>1, <1>3, SomeConfidences DEF Closed, StepOK
<1>5. Ready(graph, seeds)
  BY <1>1 DEF Ready, Needs
<1>6. DOMAIN graph.assets = {} /\ graph.relations = {}
  BY DEF Init, EmptyGraph
<1>7. Sound(graph) /\ Explainable(graph, seeds) /\ Owing(graph, seeds)
  BY <1>6 DEF Sound, Explainable, Owing
<1> QED
  BY <1>1, <1>2, <1>4, <1>5, <1>7 DEF Progress

(* A new result: its ingestion is complete.                                *)
LEMMA TakenProgress ==
  ASSUME Progress, NEW r \in Results, TakeResult(r)
  PROVE  Progress'
<1> DEFINE steps == IngestionSteps(r, graph)
<1>1. todo' = steps /\ phase' = "ingest" /\ graph' = graph /\ todo = <<>>
  BY DEF TakeResult, Quiet, Running, Progress
<1>2. Complete(steps)
  BY InputsAssumption, IngestionComplete
<1> HIDE DEF steps
<1>3. /\ IsSequence(steps) /\ Closed(steps) /\ Ready(graph, steps)
  BY <1>2 DEF Complete, Closed, Ready
<1>4. Explainable(graph, steps)
  BY <1>1 DEF Progress, Explainable
<1>5. Owing(graph, steps)
  BY <1>1 DEF Progress, Owing
<1>6. Sound(graph)
  BY DEF Progress
<1> QED
  BY <1>1, <1>3, <1>4, <1>5, <1>6 DEF Progress

(* The first step of those to come.                                        *)
LEMMA IngestedProgress ==
  ASSUME IInv, Progress, Ingest
  PROVE  Progress' /\ StepOK(Head(todo)) /\ \A key \in Needs(Head(todo)) : Known(graph, key)
<1>1. /\ todo # <<>> /\ graph' = Applied(graph, Head(todo), Evidence) /\ todo' = Tail(todo)
      /\ phase' = phase /\ phase = "ingest"
  BY DEF Ingest
<1>2. /\ GraphOK(graph) /\ Unique(graph) /\ Unique(graph') /\ Retained(graph, graph')
  BY <1>1, AppliedKeeps DEF IInv
<1>3. /\ IsSequence(todo) /\ Sound(graph) /\ Ready(graph, todo) /\ Closed(todo)
      /\ Explainable(graph, todo) /\ Owing(graph, todo)
  BY DEF Progress
<1>4. StepOK(Head(todo)) /\ \A key \in Needs(Head(todo)) : Known(graph, key)
  <2>1. 1 \in DOMAIN todo /\ Head(todo) = todo[1]
    BY <1>1, <1>3, Rest
  <2>2. Made(todo, 1) = {}
    BY DEF Made
  <2> QED
    BY <1>3, <2>1, <2>2 DEF Closed, Ready
<1>5. Sound(graph')
  BY <1>1, <1>2, <1>3, <1>4, StepSound
<1>6. IsSequence(Tail(todo)) /\ Closed(Tail(todo))
  BY <1>1, <1>3, Rest, RestClosed
<1>7. Ready(graph', Tail(todo))
  BY <1>1, <1>2, <1>3, StepReady
<1>8. Explainable(graph', Tail(todo))
  BY <1>1, <1>2, <1>3, StepExplainable
<1>9. Owing(graph', Tail(todo))
  BY <1>1, <1>2, <1>3, StepOwing
<1> QED
  BY <1>1, <1>4, <1>5, <1>6, <1>7, <1>8, <1>9 DEF Progress

LEMMA NextProgress == IInv /\ Progress /\ [Next]_vars => Progress'
<1> SUFFICES ASSUME IInv, Progress, [Next]_vars
             PROVE  Progress'
  OBVIOUS
<1>1. CASE Start \/ Store \/ End \/ UNCHANGED vars
  <2>1. UNCHANGED <<graph, todo, phase>>
    BY <1>1 DEF Start, Store, End, vars
  <2> QED
    BY <2>1 DEF Progress
<1>2. CASE Refresh
  <2>1. UNCHANGED <<graph, todo>> /\ phase' = "refresh" /\ todo = <<>>
    BY <1>2 DEF Refresh
  <2> QED
    BY <2>1 DEF Progress
<1>3. CASE Ingest
  BY <1>3, IngestedProgress
<1>4. ASSUME NEW r \in Results, TakeResult(r)
      PROVE  Progress'
  BY <1>4, TakenProgress
<1> QED
  BY <1>1, <1>2, <1>3, <1>4 DEF Next

-----------------------------------------------------------------------------
(* Conclusions.                                                            *)

Due(g, h) == \E d \in Derived(g) : SameHypothesis(d, h)

References(g, h) == h.supporting \cup h.contradicting \subseteq DOMAIN g.observations

Cited(h) ==
  /\ h.status = "Supported" => h.supporting # {}
  /\ (h.status = "Rejected" /\ h.capability = "ValidateUrlMetadata") => h.contradicting # {}

Conclusions ==
  /\ \A h \in hypotheses \cup pending : Due(graph, h) /\ References(graph, h) /\ Cited(h)
  /\ \A h, k \in hypotheses : SameHypothesis(h, k) => h = k
  /\ pending \subseteq Derived(graph) /\ (phase = "ingest" => pending = {})
  /\ phase = "refresh" /\ Succeeded =>
       \E chosen \in Best(Derived(graph)) :
         pending \subseteq chosen /\ chosen \ pending \subseteq hypotheses

(* A reason never goes away.                                               *)
LEMMA StaysTagged ==
  ASSUME NEW g, NEW h, Retained(g, h), NEW i \in DOMAIN g.assets
  PROVE  /\ h.assets[i].kind = g.assets[i].kind /\ h.assets[i].value = g.assets[i].value
         /\ \A tag \in g.assets[i].tags : tag \in h.assets[i].tags
         /\ \A group : Tagged(g.assets[i], group) => Tagged(h.assets[i], group)
BY DEF Retained, Tagged

LEMMA StaysSensitive ==
  ASSUME NEW g, NEW h, Retained(g, h), Sound(g), NEW i, HasSensitiveParameter(g, i)
  PROVE  HasSensitiveParameter(h, i)
<1>1. PICK r \in g.relations : /\ r.from = i /\ g.assets[r.to].kind = "Parameter"
                               /\ Tagged(g.assets[r.to], "parameter sensitivity")
  BY DEF HasSensitiveParameter
<1>2. r.to \in DOMAIN g.assets /\ r \in h.relations
  BY DEF Sound, Retained
<1>3. h.assets[r.to].kind = "Parameter" /\ Tagged(h.assets[r.to], "parameter sensitivity")
  BY <1>1, <1>2, StaysTagged
<1> QED
  BY <1>1, <1>2, <1>3 DEF HasSensitiveParameter

LEMMA ReasonStays ==
  ASSUME NEW g, NEW h, Retained(g, h), Sound(g), NEW kind, NEW i \in DOMAIN g.assets,
         Reason(g, kind, i)
  PROVE  Reason(h, kind, i)
<1>1. /\ h.assets[i].kind = g.assets[i].kind /\ h.assets[i].value = g.assets[i].value
      /\ \A tag \in g.assets[i].tags : tag \in h.assets[i].tags
      /\ \A group : Tagged(g.assets[i], group) => Tagged(h.assets[i], group)
  BY StaysTagged
<1>2. IsUndocumentedEndpoint(g, i) => IsUndocumentedEndpoint(h, i)
  BY <1>1 DEF IsUndocumentedEndpoint
<1>3. IsPublicSensitiveOperation(g, i) => IsPublicSensitiveOperation(h, i)
  BY <1>1, StaysSensitive DEF IsPublicSensitiveOperation
<1>4. IsAuthenticationSurface(g, i) => IsAuthenticationSurface(h, i)
  BY <1>1 DEF IsAuthenticationSurface
<1>5. IsHistoricalSurface(g, i) => IsHistoricalSurface(h, i)
  BY <1>1 DEF IsHistoricalSurface
<1>6. IsSourceMapExposure(g, i) => IsSourceMapExposure(h, i)
  BY <1>1 DEF IsSourceMapExposure, IsSourceMap
<1>7. IsClientSecretIndicator(g, i) => IsClientSecretIndicator(h, i)
  BY <1>1 DEF IsClientSecretIndicator
<1>8. IsClientSecuritySignal(g, i) => IsClientSecuritySignal(h, i)
  BY <1>1 DEF IsClientSecuritySignal
<1>9. IsHighValueParameter(g, i) => IsHighValueParameter(h, i)
  BY <1>1 DEF IsHighValueParameter
<1>10. IsUnverifiedAsset(g, i) => IsUnverifiedAsset(h, i)
  BY <1>1 DEF IsUnverifiedAsset, IsHostTagged
<1>11. IsPotentialDanglingDns(g, i) => IsPotentialDanglingDns(h, i)
  BY <1>1 DEF IsPotentialDanglingDns, IsHostTagged
<1> QED
  BY <1>2, <1>3, <1>4, <1>5, <1>6, <1>7, <1>8, <1>9, <1>10, <1>11 DEF Reason

LEMMA DueStays ==
  ASSUME NEW g, NEW h, Retained(g, h), Sound(g), NEW hypothesis, Due(g, hypothesis)
  PROVE  Due(h, hypothesis)
<1>1. PICK d \in Derived(g) : SameHypothesis(d, hypothesis)
  BY DEF Due
<1>2. d.subject \in DOMAIN g.assets /\ Reason(g, d.kind, d.subject)
  BY DerivedConcludes
<1>3. d.subject \in DOMAIN h.assets /\ Reason(h, d.kind, d.subject)
  BY <1>2, ReasonStays DEF Retained
<1>4. PICK e \in Derived(h) : e.kind = d.kind /\ e.subject = d.subject
  BY <1>3, ReasonDerives
<1> QED
  BY <1>1, <1>4 DEF Due, SameHypothesis

(* The observations that a hypothesis names are there.                     *)
LEMMA DerivedReferences ==
  ASSUME NEW g, NEW d \in Derived(g)
  PROVE  References(g, d)
<1> DEFINE O == DOMAIN g.observations
<1>1. PICK i \in DOMAIN g.assets : Reason(g, d.kind, i) /\ d = Conclusion(g, d.kind, i)
  BY DerivedConcludes
<1>2. /\ \A ids, source : ObservationsOf(g, ids, source) \subseteq O
      /\ AllObservationsOf(g, i) \subseteq O
  BY DEF ObservationsOf, AllObservationsOf
<1>3. \A value : /\ Validations(g, value) \subseteq O
                 /\ IfResponded(g, value) \subseteq O /\ IfNotFound(g, value) \subseteq O
  BY DEF Validations, IfResponded, IfNotFound
<1> HIDE DEF O
<1> SUFFICES d.supporting \subseteq O /\ d.contradicting \subseteq O
  BY DEF References, O
<1>4. CASE d.kind = "UndocumentedEndpoint"
  <2>1. /\ UndocumentedEndpoint(g, i).supporting \subseteq O
        /\ UndocumentedEndpoint(g, i).contradicting \subseteq O
    BY <1>2, <1>3 DEF UndocumentedEndpoint, Drawn
  <2>2. d = UndocumentedEndpoint(g, i)
    BY <1>1, <1>4 DEF Conclusion
  <2> QED
    BY <2>1, <2>2
<1>5. CASE d.kind = "PublicSensitiveOperation"
  BY <1>1, <1>2, <1>5 DEF Conclusion, PublicSensitiveOperation, Drawn
<1>6. CASE d.kind = "AuthenticationSurface"
  BY <1>1, <1>2, <1>6 DEF Conclusion, AuthenticationSurface, Drawn
<1>7. CASE d.kind = "HistoricalSurface"
  BY <1>1, <1>2, <1>3, <1>7 DEF Conclusion, HistoricalSurface, Unvalidated, Drawn
<1>8. CASE d.kind = "SourceMapExposure"
  BY <1>1, <1>2, <1>3, <1>8 DEF Conclusion, SourceMapExposure, Unvalidated, Drawn
<1>9. CASE d.kind = "ClientSecretIndicator"
  BY <1>1, <1>2, <1>9 DEF Conclusion, ClientSecretIndicator, Drawn
<1>10. CASE d.kind = "ClientSecuritySignal"
  BY <1>1, <1>2, <1>10 DEF Conclusion, ClientSecuritySignal, Drawn
<1>11. CASE d.kind = "HighValueParameter"
  BY <1>1, <1>2, <1>11 DEF Conclusion, HighValueParameter, Drawn
<1>12. CASE d.kind = "UnverifiedAsset"
  BY <1>1, <1>2, <1>12 DEF Conclusion, UnverifiedAsset, Drawn
<1>13. CASE d.kind = "PotentialDanglingDns"
  BY <1>1, <1>2, <1>13 DEF Conclusion, PotentialDanglingDns, Drawn
<1> QED
  BY <1>1, <1>4, <1>5, <1>6, <1>7, <1>8, <1>9, <1>10, <1>11, <1>12, <1>13 DEF Reason

(* What a validation has decided names the validation.                     *)
LEMMA ValidationCited ==
  ASSUME NEW g, NEW value
  PROVE  /\ ValidationStatus(Outcome(g, value)) = "Supported" => IfResponded(g, value) # {}
         /\ ValidationStatus(Outcome(g, value)) = "Rejected" => IfNotFound(g, value) # {}
<1> DEFINE outcome == Outcome(g, value)
<1>1. /\ Validations(g, value) = {} => outcome = "NotValidated"
      /\ outcome \in {"NotValidated", "NotFound", "Inconclusive", "Responded"}
  <2>1. CASE Validations(g, value) = {}
    BY <2>1 DEF Outcome
  <2>2. CASE Validations(g, value) # {}
    <3>1. \A class : OutcomeOf(class) \in {"NotFound", "Inconclusive", "Responded"}
      BY DEF OutcomeOf
    <3> QED
      BY <2>2, <3>1 DEF Outcome
  <2> QED
    BY <2>1, <2>2
<1>2. /\ outcome = "Responded" => IfResponded(g, value) = Validations(g, value)
      /\ outcome = "NotFound" => IfNotFound(g, value) = Validations(g, value)
  BY DEF IfResponded, IfNotFound
<1> HIDE DEF outcome
<1>3. /\ ValidationStatus(outcome) = "Supported" => outcome = "Responded"
      /\ ValidationStatus(outcome) = "Rejected" => outcome = "NotFound"
  BY <1>1 DEF ValidationStatus
<1> QED
  BY <1>1, <1>2, <1>3 DEF outcome

(* When an ingestion is over, what is supported has been observed, and so  *)
(* has what was refuted.                                                   *)
LEMMA OwedObserved ==
  ASSUME NEW g, Owing(g, <<>>), NEW i \in DOMAIN g.assets,
         NEW source \in Owed(g.assets[i].kind, g.assets[i].tags)
  PROVE  ObservationsOf(g, {i}, source) # {}
<1>1. ObservedBy(g, source, i)
  BY DEF Owing
<1>2. PICK o \in DOMAIN g.observations :
        g.observations[o].source = source /\ i \in g.observations[o].subjects
  BY <1>1 DEF ObservedBy
<1>3. o \in ObservationsOf(g, {i}, source)
  BY <1>2 DEF ObservationsOf
<1> QED
  BY <1>3

LEMMA DocumentedObserved ==
  ASSUME NEW g, Owing(g, <<>>), NEW value, Documented(g, value) # {}
  PROVE  ObservationsOf(g, SameValue(g, value), "ApiDescription") # {}
<1>1. PICK j \in DOMAIN g.assets :
        /\ g.assets[j].kind = "Endpoint"
        /\ <<"source", "api_description">> \in g.assets[j].tags
        /\ Identity(g.assets[j].value) = Identity(value)
  BY DEF Documented
<1>2. "ApiDescription" \in Owed(g.assets[j].kind, g.assets[j].tags)
  BY <1>1 DEF Owed
<1>3. ObservedBy(g, "ApiDescription", j)
  BY <1>2 DEF Owing
<1>4. PICK o \in DOMAIN g.observations :
        g.observations[o].source = "ApiDescription" /\ j \in g.observations[o].subjects
  BY <1>3 DEF ObservedBy
<1>5. j \in SameValue(g, value)
  BY <1>1 DEF SameValue
<1>6. o \in ObservationsOf(g, SameValue(g, value), "ApiDescription")
  BY <1>4, <1>5 DEF ObservationsOf
<1> QED
  BY <1>6

LEMMA SurfaceObserved ==
  ASSUME NEW g, Explainable(g, <<>>), NEW i \in DOMAIN g.assets,
         g.assets[i].kind = "AuthenticationSurface"
  PROVE  AllObservationsOf(g, i) # {}
<1>1. ~Seeded(g.assets[i])
  <2>1. \A n \in DOMAIN SeedSteps(Target) :
          SeedSteps(Target)[n].key.kind \in {"RootDomain", "IpAddress"}
    BY InputsAssumption, SeedsOnly
  <2> QED
    BY <2>1 DEF Seeded, ToSet, SameIdentity
<1>2. Accounted(g, i)
  BY <1>1 DEF Explainable
<1>3. PICK o \in DOMAIN g.observations : i \in g.observations[o].subjects
  BY <1>2 DEF Accounted
<1> QED
  BY <1>3 DEF AllObservationsOf

LEMMA FinishedCited ==
  ASSUME NEW g, Explainable(g, <<>>), Owing(g, <<>>), NEW d \in Derived(g)
  PROVE  Cited(d)
<1>1. PICK i \in DOMAIN g.assets : Reason(g, d.kind, i) /\ d = Conclusion(g, d.kind, i)
  BY DerivedConcludes
<1>2. CASE d.kind = "UndocumentedEndpoint"
  <2> DEFINE value == g.assets[i].value
             documented == DocumentedNow(g, g.assets[i])
             validated == ValidationStatus(Outcome(g, value))
             known == ObservationsOf(g, SameValue(g, value), "ApiDescription")
  <2>1. d = UndocumentedEndpoint(g, i)
    BY <1>1, <1>2 DEF Conclusion
  <2>2. documented => known # {}
    BY DocumentedObserved DEF DocumentedNow
  <2>3. /\ validated = "Supported" => IfResponded(g, value) # {}
        /\ validated = "Rejected" => IfNotFound(g, value) # {}
    BY ValidationCited
  <2>4. /\ d.status = IF documented THEN "Rejected" ELSE validated
        /\ IfResponded(g, value) \subseteq d.supporting
        /\ IfNotFound(g, value) \subseteq d.contradicting
        /\ documented => known \subseteq d.contradicting
    BY <2>1 DEF UndocumentedEndpoint, Drawn
  <2> HIDE DEF value, documented, validated, known
  <2> QED
    BY <2>2, <2>3, <2>4 DEF Cited
<1>3. CASE d.kind = "PublicSensitiveOperation"
  <2>1. d = PublicSensitiveOperation(g, i) /\ IsPublicSensitiveOperation(g, i)
    BY <1>1, <1>3 DEF Conclusion, Reason
  <2>2. "ApiDescription" \in Owed(g.assets[i].kind, g.assets[i].tags)
    BY <2>1 DEF IsPublicSensitiveOperation, Owed
  <2>3. ObservationsOf(g, {i}, "ApiDescription") # {}
    BY <2>2, OwedObserved
  <2>4. d.status = "Supported" /\ d.supporting = ObservationsOf(g, {i}, "ApiDescription")
    BY <2>1 DEF PublicSensitiveOperation, Drawn
  <2> QED
    BY <2>3, <2>4 DEF Cited
<1>4. CASE d.kind = "AuthenticationSurface"
  <2>1. d = AuthenticationSurface(g, i) /\ g.assets[i].kind = "AuthenticationSurface"
    BY <1>1, <1>4 DEF Conclusion, Reason, IsAuthenticationSurface
  <2>2. AllObservationsOf(g, i) # {}
    BY <2>1, SurfaceObserved
  <2>3. d.supporting = AllObservationsOf(g, i) /\ d.capability = "None"
    BY <2>1 DEF AuthenticationSurface, Drawn
  <2> QED
    BY <2>2, <2>3 DEF Cited
<1>5. CASE d.kind = "HistoricalSurface" \/ d.kind = "SourceMapExposure"
  <2> DEFINE value == g.assets[i].value
             validated == ValidationStatus(Outcome(g, value))
  <2>1. d = HistoricalSurface(g, i) \/ d = SourceMapExposure(g, i)
    BY <1>1, <1>5 DEF Conclusion
  <2>2. /\ d.status = validated
        /\ IfResponded(g, value) \subseteq d.supporting
        /\ IfNotFound(g, value) \subseteq d.contradicting
    BY <2>1 DEF HistoricalSurface, SourceMapExposure, Unvalidated, Drawn
  <2>3. /\ validated = "Supported" => IfResponded(g, value) # {}
        /\ validated = "Rejected" => IfNotFound(g, value) # {}
    BY ValidationCited
  <2> HIDE DEF value, validated
  <2> QED
    BY <2>2, <2>3 DEF Cited
<1>6. CASE d.kind = "ClientSecuritySignal"
  <2>1. d = ClientSecuritySignal(g, i) /\ IsClientSecuritySignal(g, i)
    BY <1>1, <1>6 DEF Conclusion, Reason
  <2>2. "JavascriptAnalysis" \in Owed(g.assets[i].kind, g.assets[i].tags)
    BY <2>1 DEF IsClientSecuritySignal, Tagged, Owed
  <2>3. ObservationsOf(g, {i}, "JavascriptAnalysis") # {}
    BY <2>2, OwedObserved
  <2>4. d.status = "Supported" /\ d.supporting = ObservationsOf(g, {i}, "JavascriptAnalysis")
    BY <2>1 DEF ClientSecuritySignal, Drawn
  <2> QED
    BY <2>3, <2>4 DEF Cited
<1>7. CASE d.kind \in {"ClientSecretIndicator", "HighValueParameter", "UnverifiedAsset",
                      "PotentialDanglingDns"}
  <2>1. \/ d = ClientSecretIndicator(g, i) \/ d = HighValueParameter(g, i)
        \/ d = UnverifiedAsset(g, i) \/ d = PotentialDanglingDns(g, i)
    BY <1>1, <1>7 DEF Conclusion
  <2>2. d.status # "Supported" /\ (d.status = "Rejected" => d.capability = "ProbeHttp")
    BY <2>1 DEF ClientSecretIndicator, HighValueParameter, UnverifiedAsset,
                PotentialDanglingDns, Drawn
  <2> QED
    BY <2>2 DEF Cited
<1> QED
  BY <1>1, <1>2, <1>3, <1>4, <1>5, <1>6, <1>7 DEF Reason

(* The hypothesis that is stored next is one of those to be stored.        *)
LEMMA NextIsPending ==
  ASSUME pending # {}, \A h \in pending : h.priority \in {2, 3, 4}
  PROVE  (CHOOSE h \in pending : \A other \in pending : h.priority >= other.priority) \in pending
<1> SUFFICES \E h \in pending : \A other \in pending : h.priority >= other.priority
  OBVIOUS
<1>1. CASE \E h \in pending : h.priority = 4
  BY <1>1
<1>2. CASE (\A h \in pending : h.priority # 4) /\ \E h \in pending : h.priority = 3
  BY <1>2
<1>3. CASE \A h \in pending : h.priority \notin {3, 4}
  BY <1>3
<1> QED
  BY <1>1, <1>2, <1>3

LEMMA InitConclusions == Init => Conclusions
BY DEF Init, Conclusions

(* As the graph grows, what was concluded stays due.                       *)
LEMMA GrownConclusions ==
  ASSUME Progress, Conclusions, Retained(graph, graph'), phase' = "ingest", pending = {},
         UNCHANGED <<hypotheses, pending>>
  PROVE  Conclusions'
<1>1. Sound(graph)
  BY DEF Progress
<1>2. \A h \in hypotheses : Due(graph', h)
  BY <1>1, DueStays DEF Conclusions
<1>3. \A h \in hypotheses : References(graph', h)
  BY DEF Conclusions, References, Retained
<1>4. \A h \in hypotheses : Cited(h)
  BY DEF Conclusions
<1> QED
  BY <1>2, <1>3, <1>4 DEF Conclusions

LEMMA RefreshedConclusions ==
  ASSUME Progress, Conclusions, Refresh
  PROVE  Conclusions'
<1>1. /\ phase' = "refresh" /\ todo = <<>> /\ UNCHANGED <<graph, hypotheses, taken>>
      /\ pending' \in IF Succeeded THEN Best(Derived(graph)) ELSE {{}}
  BY DEF Refresh
<1>2. Succeeded' = Succeeded
  BY <1>1 DEF Succeeded
<1>3. Explainable(graph, <<>>) /\ Owing(graph, <<>>)
  BY <1>1 DEF Progress
<1>4. pending' \subseteq Derived(graph)
  BY <1>1 DEF Best
<1>5. \A h \in pending' : Due(graph, h) /\ References(graph, h) /\ Cited(h)
  <2> SUFFICES ASSUME NEW h \in pending'
               PROVE  Due(graph, h) /\ References(graph, h) /\ Cited(h)
    OBVIOUS
  <2>1. h \in Derived(graph)
    BY <1>4
  <2>2. Due(graph, h)
    BY <2>1 DEF Due, SameHypothesis
  <2> QED
    BY <1>3, <2>1, <2>2, DerivedReferences, FinishedCited
<1>6. Succeeded => pending' \in Best(Derived(graph))
  BY <1>1
<1> QED
  BY <1>1, <1>2, <1>4, <1>5, <1>6 DEF Conclusions

LEMMA StoredConclusions ==
  ASSUME Progress, Conclusions, Store
  PROVE  Conclusions'
<1> DEFINE next == CHOOSE h \in pending : \A other \in pending : h.priority >= other.priority
<1>1. /\ phase = "refresh" /\ pending # {} /\ pending' = pending \ {next}
      /\ hypotheses' = {h \in hypotheses : ~SameHypothesis(h, next)} \cup {next}
      /\ UNCHANGED <<graph, phase, taken>>
  BY DEF Store
<1>2. pending \subseteq Derived(graph)
  BY DEF Conclusions
<1>3. next \in pending
  <2>1. \A h \in pending : h.priority \in {2, 3, 4}
    BY <1>2, DerivedConcludes
  <2> QED
    BY <1>1, <2>1, NextIsPending
<1> HIDE DEF next
<1>4. \A h \in hypotheses' \cup pending' : Due(graph, h) /\ References(graph, h) /\ Cited(h)
  BY <1>1, <1>3 DEF Conclusions
<1>5. \A h, k \in hypotheses' : SameHypothesis(h, k) => h = k
  <2>1. \A h \in hypotheses' : h = next \/ (h \in hypotheses /\ ~SameHypothesis(h, next))
    BY <1>1
  <2> QED
    BY <2>1 DEF Conclusions, SameHypothesis
<1>6. Succeeded' = Succeeded
  BY <1>1 DEF Succeeded
<1>7. ASSUME Succeeded
      PROVE  \E chosen \in Best(Derived(graph)) :
               pending' \subseteq chosen /\ chosen \ pending' \subseteq hypotheses'
  <2>1. PICK chosen \in Best(Derived(graph)) :
          pending \subseteq chosen /\ chosen \ pending \subseteq hypotheses
    BY <1>1, <1>7 DEF Conclusions
  <2>2. chosen \subseteq Derived(graph)
    BY DEF Best
  <2>3. ASSUME NEW c \in chosen \ pending'
        PROVE  c \in hypotheses'
    <3>1. CASE c = next
      BY <1>1, <3>1
    <3>2. CASE c # next
      <4>1. c \in hypotheses
        BY <1>1, <2>1, <3>2
      <4>2. c \in Derived(graph) /\ next \in Derived(graph)
        BY <1>2, <1>3, <2>2
      <4>3. ~SameHypothesis(c, next)
        BY <3>2, <4>2, DerivedOnce
      <4> QED
        BY <1>1, <4>1, <4>3
    <3> QED
      BY <3>1, <3>2
  <2> QED
    BY <1>1, <2>1, <2>3
<1>8. pending' \subseteq Derived(graph) /\ phase' = "refresh"
  BY <1>1, <1>2
<1> QED
  BY <1>1, <1>4, <1>5, <1>6, <1>7, <1>8 DEF Conclusions

LEMMA NextConclusions == IInv /\ Progress /\ Conclusions /\ [Next]_vars => Conclusions'
<1> SUFFICES ASSUME IInv, Progress, Conclusions, [Next]_vars
             PROVE  Conclusions'
  OBVIOUS
<1>1. CASE Start \/ End \/ UNCHANGED vars
  <2>1. UNCHANGED <<graph, hypotheses, pending, phase, taken>>
    BY <1>1 DEF Start, End, vars
  <2>2. Succeeded' = Succeeded
    BY <2>1 DEF Succeeded
  <2> QED
    BY <2>1, <2>2 DEF Conclusions
<1>2. CASE Ingest
  <2>1. graph' = Applied(graph, Head(todo), Evidence)
    BY <1>2 DEF Ingest
  <2>2. Retained(graph, graph')
    BY <2>1, AppliedKeeps DEF IInv
  <2>3. phase = "ingest" /\ phase' = "ingest" /\ UNCHANGED <<hypotheses, pending>>
    BY <1>2 DEF Ingest
  <2>4. pending = {}
    BY <2>3 DEF Conclusions
  <2> QED
    BY <2>2, <2>3, <2>4, GrownConclusions
<1>3. ASSUME NEW r \in Results, TakeResult(r)
      PROVE  Conclusions'
  <2>1. phase' = "ingest" /\ pending = {} /\ UNCHANGED <<graph, hypotheses, pending>>
    BY <1>3 DEF TakeResult, Quiet
  <2>2. Retained(graph, graph')
    BY <2>1 DEF Retained
  <2> QED
    BY <2>1, <2>2, GrownConclusions
<1>4. CASE Refresh
  BY <1>4, RefreshedConclusions
<1>5. CASE Store
  BY <1>5, StoredConclusions
<1> QED
  BY <1>1, <1>2, <1>3, <1>4, <1>5 DEF Next

-----------------------------------------------------------------------------
(* Repetitions.                                                            *)

(* Taking the step once more would change neither assets nor relations.    *)
Done(g, step) ==
  CASE step.do = "ensure" ->
         /\ Known(g, step.key)
         /\ Rank[step.confidence] <= Rank[g.assets[IdOf(g, step.key)].confidence]
    [] step.do = "enrich" ->
         Known(g, step.key) /\ step.tags \subseteq g.assets[IdOf(g, step.key)].tags
    [] step.do = "relate" ->
         /\ Known(g, step.key) /\ Known(g, step.to)
         /\ \E r \in g.relations :
              r.from = IdOf(g, step.key) /\ r.to = IdOf(g, step.to) /\ r.kind = step.kind
    [] OTHER -> TRUE

(* The tags of every asset have had their effect on how sure it is.        *)
Corroboration(g) ==
  \A i \in DOMAIN g.assets :
    Corroborated(g.assets[i].confidence, g.assets[i].tags) = g.assets[i].confidence

(* What a result brought in is there, or is still to be brought in; a kind *)
(* that was looked up for it would be found again.                         *)
Repetition ==
  /\ Corroboration(graph)
  /\ \A n \in 1 .. Len(taken) : \A step \in ToSet(IngestionSteps(taken[n], graph)) :
       Done(graph, step) \/ (n = Len(taken) /\ step \in ToSet(todo))
  /\ \A n \in 1 .. Len(taken) : \A value \in Asked(taken[n]) :
       \/ SameValueAs(graph, value) # {}
       \/ n = Len(taken) /\ todo = IngestionSteps(taken[n], graph)
  /\ (\E n \in 1 .. Len(taken) - 1 : taken[n] = taken[Len(taken)]) =>
       /\ graph.assets = before.assets /\ graph.relations = before.relations
       /\ \A step \in ToSet(todo) : Done(graph, step)

(* Tags that have had their effect have none when they are seen again.     *)
LEMMA CorroboratedTwice ==
  ASSUME NEW c \in Confidences, NEW tags
  PROVE  Corroborated(Corroborated(c, tags), tags) = Corroborated(c, tags)
<1>1. \A d \in Confidences :
        Stronger(d, "High") \in Confidences /\ Rank[Stronger(d, "High")] >= Rank["High"]
  <2>1. "High" \in Confidences
    BY DEF Confidences
  <2> QED
    BY <2>1, StrongerKeeps, Ranks
<1>2. \A d \in Confidences : Rank[d] >= Rank["High"] => Stronger(d, "High") = d
  <2>1. Rank["High"] \in Int /\ \A d \in Confidences : Rank[d] \in Int
    BY DEF Rank, Confidences
  <2> QED
    BY <2>1 DEF Stronger
<1>3. CASE DirectlyVerified(tags)
  BY <1>3 DEF Corroborated
<1>4. CASE ~DirectlyVerified(tags) /\ Cardinality(Sources(tags)) >= 2
  BY <1>1, <1>2, <1>4 DEF Corroborated
<1>5. CASE ~DirectlyVerified(tags) /\ ~(Cardinality(Sources(tags)) >= 2)
  BY <1>5 DEF Corroborated
<1> QED
  BY <1>3, <1>4, <1>5

(* They have none on an asset of which one is more certain, either.        *)
LEMMA CorroboratedFirmed ==
  ASSUME NEW c \in Confidences, NEW d \in Confidences, NEW tags, Corroborated(c, tags) = c
  PROVE  Corroborated(Stronger(c, d), tags) = Stronger(c, d)
<1>1. Stronger(c, d) \in Confidences /\ Rank[c] <= Rank[Stronger(c, d)]
  BY StrongerKeeps
<1>2. CASE DirectlyVerified(tags)
  <2>1. c = "Confirmed"
    BY <1>2 DEF Corroborated
  <2>2. Stronger(c, d) = "Confirmed"
    BY <2>1 DEF Stronger, Rank, Confidences
  <2> QED
    BY <1>2, <2>2 DEF Corroborated
<1>3. CASE ~DirectlyVerified(tags) /\ Cardinality(Sources(tags)) >= 2
  <2> DEFINE b == Stronger(c, d)
  <2>1. Stronger(c, "High") = c /\ Corroborated(b, tags) = Stronger(b, "High")
    BY <1>3 DEF Corroborated
  <2>2. c \in {"High", "Confirmed"}
    BY <2>1 DEF Stronger, Rank, Confidences
  <2>3. b \in {"High", "Confirmed"}
    BY <1>1, <2>2 DEF Rank, Confidences
  <2> HIDE DEF b
  <2>4. Stronger(b, "High") = b
    BY <2>3 DEF Stronger, Rank
  <2> QED
    BY <2>1, <2>4 DEF b
<1>4. CASE ~DirectlyVerified(tags) /\ ~(Cardinality(Sources(tags)) >= 2)
  BY <1>4 DEF Corroborated
<1> QED
  BY <1>2, <1>3, <1>4

(* An asset without tags.                                                  *)
LEMMA CorroboratedUntagged ==
  ASSUME NEW c
  PROVE  Corroborated(c, {}) = c
<1>1. Sources({}) = {}
  BY DEF Sources
<1>2. Cardinality(Sources({})) = 0
  BY <1>1, FS_EmptySet
<1>3. ~DirectlyVerified({})
  BY DEF DirectlyVerified
<1> QED
  BY <1>2, <1>3 DEF Corroborated

(* What two sequences have in common makes them the same.                  *)
LEMMA SameSequence ==
  ASSUME NEW s, NEW t, IsSequence(s), IsSequence(t), DOMAIN s = DOMAIN t,
         \A i \in DOMAIN s : s[i] = t[i]
  PROVE  s = t
<1>1. s = [i \in DOMAIN s |-> s[i]] /\ t = [i \in DOMAIN t |-> t[i]]
  BY DEF IsSequence
<1> QED
  BY <1>1

LEMMA StepCorroboration ==
  ASSUME NEW g, NEW step, NEW cited, GraphOK(g), Sound(g), StepOK(step), Corroboration(g)
  PROVE  Corroboration(Applied(g, step, cited))
<1> DEFINE h == Applied(g, step, cited)
<1> SUFFICES ASSUME NEW i \in DOMAIN h.assets
             PROVE  Corroborated(h.assets[i].confidence, h.assets[i].tags) = h.assets[i].confidence
  BY DEF Corroboration
<1>1. CASE i \notin DOMAIN g.assets
  <2>1. h.assets[i] =
          [kind |-> step.key.kind, value |-> step.key.value, scope |-> ScopeOf(step.key),
           confidence |-> step.confidence, tags |-> {}]
    BY <1>1, NewAsset
  <2>2. h.assets[i].confidence = step.confidence /\ h.assets[i].tags = {}
    BY <2>1
  <2> QED
    BY <2>2, CorroboratedUntagged
<1>2. CASE i \in DOMAIN g.assets
  <2> DEFINE c == g.assets[i].confidence
             tags == g.assets[i].tags
  <2>1. c \in Confidences /\ Corroborated(c, tags) = c /\ AssetOK(g.assets[i])
    BY <1>2 DEF Sound, Corroboration, GraphOK
  <2>2. CASE h.assets[i] = g.assets[i]
    BY <2>1, <2>2
  <2>3. CASE step.do = "ensure" /\ Known(g, step.key)
    <3>1. h = Ensured(g, step.key, step.confidence) /\ step.confidence \in Confidences
      BY <2>3 DEF Applied, StepOK
    <3>2. \/ h.assets[i] = g.assets[i]
          \/ h.assets[i] = [g.assets[i] EXCEPT !.confidence = Stronger(c, step.confidence)]
      BY <1>2, <2>3, <3>1, EnsuredAgain
    <3>3. /\ [g.assets[i] EXCEPT !.confidence = Stronger(c, step.confidence)].confidence =
               Stronger(c, step.confidence)
          /\ [g.assets[i] EXCEPT !.confidence = Stronger(c, step.confidence)].tags = tags
      BY <2>1, Firmed
    <3>4. Corroborated(Stronger(c, step.confidence), tags) = Stronger(c, step.confidence)
      BY <2>1, <3>1, CorroboratedFirmed
    <3> QED
      BY <2>2, <3>2, <3>3, <3>4
  <2>4. CASE step.do = "ensure" /\ ~Known(g, step.key)
    <3>1. h = Ensured(g, step.key, step.confidence)
      BY <2>4 DEF Applied
    <3>2. h.assets[i] = g.assets[i]
      BY <1>2, <2>4, <3>1, EnsuredOthers
    <3> QED
      BY <2>2, <3>2
  <2>5. CASE step.do = "enrich"
    <3>1. h = Enriched(g, step.key, step.tags)
      BY <2>5 DEF Applied
    <3>2. h.assets[i] = g.assets[i] \/ h.assets[i] = EnrichedAsset(g.assets[i], step.tags)
      BY <1>2, <3>1, EnrichedAdds
    <3>3. /\ EnrichedAsset(g.assets[i], step.tags).tags = tags \cup step.tags
          /\ EnrichedAsset(g.assets[i], step.tags).confidence =
               Corroborated(c, tags \cup step.tags)
      BY <2>1, Tagging
    <3>4. Corroborated(Corroborated(c, tags \cup step.tags), tags \cup step.tags) =
            Corroborated(c, tags \cup step.tags)
      BY <2>1, CorroboratedTwice
    <3> QED
      BY <2>2, <3>2, <3>3, <3>4
  <2>6. CASE step.do = "relate"
    BY <2>2, <2>6, RelatedAdds DEF Applied
  <2>7. CASE step.do = "observe"
    <3>1. h = Observed(g, step.source, step.subjects, step.facts, cited)
      BY <2>7 DEF Applied
    <3>2. h.assets = g.assets
      BY <3>1, ObservedOnly
    <3> QED
      BY <2>2, <3>2
  <2> QED
    BY <2>3, <2>4, <2>5, <2>6, <2>7 DEF StepOK
<1> QED
  BY <1>1, <1>2

(* What is done remains so.                                                *)
LEMMA DoneStays ==
  ASSUME NEW g, NEW h, NEW step, StepOK(step), Retained(g, h), Unique(h), Sound(g), Sound(h),
         \A i \in DOMAIN g.assets : Rank[g.assets[i].confidence] <= Rank[h.assets[i].confidence],
         Done(g, step)
  PROVE  Done(h, step)
<1>1. \A key : Known(g, key) =>
        Known(h, key) /\ IdOf(h, key) = IdOf(g, key) /\ IdOf(g, key) \in DOMAIN g.assets
  BY StaysNamed, Named
<1>2. CASE step.do = "ensure"
  <2> DEFINE i == IdOf(g, step.key)
  <2>1. /\ Known(g, step.key) /\ Rank[step.confidence] <= Rank[g.assets[i].confidence]
    BY <1>2 DEF Done
  <2>2. Known(h, step.key) /\ IdOf(h, step.key) = i /\ i \in DOMAIN g.assets
    BY <1>1, <2>1
  <2> HIDE DEF i
  <2>3. /\ step.confidence \in Confidences /\ g.assets[i].confidence \in Confidences
        /\ i \in DOMAIN h.assets /\ h.assets[i].confidence \in Confidences
    BY <1>2, <2>2 DEF StepOK, Sound, Retained
  <2>4. Rank[step.confidence] <= Rank[h.assets[i].confidence]
    <3>1. Rank[g.assets[i].confidence] <= Rank[h.assets[i].confidence]
      BY <2>2
    <3>2. /\ Rank[step.confidence] \in Int /\ Rank[g.assets[i].confidence] \in Int
          /\ Rank[h.assets[i].confidence] \in Int
      BY <2>3, Ranks
    <3> QED
      BY <2>1, <3>1, <3>2 DEF i
  <2> QED
    BY <1>2, <2>2, <2>4 DEF Done
<1>3. CASE step.do = "enrich"
  <2>1. /\ Known(g, step.key) /\ step.tags \subseteq g.assets[IdOf(g, step.key)].tags
    BY <1>3 DEF Done
  <2>2. /\ Known(h, step.key) /\ IdOf(h, step.key) = IdOf(g, step.key)
        /\ g.assets[IdOf(g, step.key)].tags \subseteq h.assets[IdOf(g, step.key)].tags
    BY <1>1, <2>1 DEF Retained
  <2> QED
    BY <1>3, <2>1, <2>2 DEF Done
<1>4. CASE step.do = "relate"
  <2>1. /\ Known(g, step.key) /\ Known(g, step.to)
        /\ \E r \in g.relations :
             r.from = IdOf(g, step.key) /\ r.to = IdOf(g, step.to) /\ r.kind = step.kind
    BY <1>4 DEF Done
  <2>2. /\ Known(h, step.key) /\ IdOf(h, step.key) = IdOf(g, step.key)
        /\ Known(h, step.to) /\ IdOf(h, step.to) = IdOf(g, step.to)
        /\ g.relations \subseteq h.relations
    BY <1>1, <2>1 DEF Retained
  <2> QED
    BY <1>4, <2>1, <2>2 DEF Done
<1>5. CASE step.do = "observe"
  BY <1>5 DEF Done
<1> QED
  BY <1>2, <1>3, <1>4, <1>5 DEF StepOK

(* A step that has just been taken is done.                                *)
LEMMA DoneNow ==
  ASSUME NEW g, NEW step, NEW cited, GraphOK(g), Unique(g), Sound(g), StepOK(step),
         \A key \in Needs(step) : Known(g, key),
         Retained(g, Applied(g, step, cited)), Unique(Applied(g, step, cited))
  PROVE  Done(Applied(g, step, cited), step)
<1> DEFINE h == Applied(g, step, cited)
<1>1. CASE step.do = "ensure" /\ Known(g, step.key)
  <2> DEFINE i == IdOf(g, step.key)
             c == Stronger(g.assets[i].confidence, step.confidence)
  <2>1. h = Ensured(g, step.key, step.confidence)
    BY <1>1 DEF Applied
  <2>2. i \in DOMAIN g.assets
    BY <1>1, Named
  <2>3. h.assets[i] = [g.assets[i] EXCEPT !.confidence = c]
    BY <1>1, <2>1, <2>2, EnsuredAgain
  <2>4. Known(h, step.key) /\ IdOf(h, step.key) = i
    BY <1>1, StaysNamed
  <2>5. g.assets[i].confidence \in Confidences /\ AssetOK(g.assets[i])
    BY <2>2 DEF Sound, GraphOK
  <2>6. step.confidence \in Confidences
    BY <1>1 DEF StepOK
  <2>7. Rank[step.confidence] <= Rank[c]
    BY <2>5, <2>6, StrongerKeeps
  <2> HIDE DEF h, i, c
  <2>8. h.assets[i].confidence = c
    BY <2>3, <2>5, Firmed
  <2> QED
    BY <1>1, <2>4, <2>7, <2>8 DEF Done, h
<1>2. CASE step.do = "ensure" /\ ~Known(g, step.key)
  <2> DEFINE i == Len(g.assets) + 1
  <2>1. h = Ensured(g, step.key, step.confidence)
    BY <1>2 DEF Applied
  <2>2. /\ Len(g.assets) \in Nat /\ DOMAIN h.assets = 1 .. Len(g.assets) + 1
        /\ h.assets[Len(g.assets) + 1] =
             [kind |-> step.key.kind, value |-> step.key.value, scope |-> ScopeOf(step.key),
              confidence |-> step.confidence, tags |-> {}]
    BY <1>2, <2>1, EnsuredAnew
  <2>3. /\ i \in DOMAIN h.assets /\ h.assets[i].confidence = step.confidence
        /\ h.assets[i].kind = step.key.kind /\ h.assets[i].value = step.key.value
    BY <2>2
  <2>4. SameIdentity(h.assets[i], step.key)
    BY <2>3 DEF SameIdentity
  <2> HIDE DEF h, i
  <2>5. Known(h, step.key) /\ IdOf(h, step.key) = i
    BY <2>3, <2>4, Identified DEF h
  <2>6. step.confidence \in Confidences
    BY <1>2 DEF StepOK
  <2>7. Rank[step.confidence] <= Rank[h.assets[i].confidence]
    BY <2>3, <2>6, Ranks
  <2> QED
    BY <1>2, <2>5, <2>7 DEF Done, h
<1>3. CASE step.do = "enrich"
  <2> DEFINE i == IdOf(g, step.key)
  <2>1. Known(g, step.key) /\ h = Enriched(g, step.key, step.tags)
    BY <1>3 DEF Applied, Needs
  <2>2. i \in DOMAIN g.assets /\ AssetOK(g.assets[i])
    BY <2>1, Named DEF GraphOK
  <2>3. h.assets[i] = EnrichedAsset(g.assets[i], step.tags)
    BY <2>1, <2>2, EnrichedAdds
  <2>4. step.tags \subseteq h.assets[i].tags
    <3>1. EnrichedAsset(g.assets[i], step.tags).tags = g.assets[i].tags \cup step.tags
      BY <2>2, Tagging
    <3> QED
      BY <2>3, <3>1
  <2>5. Known(h, step.key) /\ IdOf(h, step.key) = i
    BY <2>1, StaysNamed
  <2> QED
    BY <1>3, <2>4, <2>5 DEF Done
<1>4. CASE step.do = "relate"
  <2>1. /\ Known(g, step.key) /\ Known(g, step.to)
        /\ h = Related(g, step.key, step.to, step.kind, cited)
    BY <1>4 DEF Applied, Needs
  <2>2. \E r \in h.relations :
          r.from = IdOf(g, step.key) /\ r.to = IdOf(g, step.to) /\ r.kind = step.kind
    BY <2>1, RelatedAdds
  <2>3. /\ Known(h, step.key) /\ IdOf(h, step.key) = IdOf(g, step.key)
        /\ Known(h, step.to) /\ IdOf(h, step.to) = IdOf(g, step.to)
    BY <2>1, StaysNamed
  <2> QED
    BY <1>4, <2>2, <2>3 DEF Done
<1>5. CASE step.do = "observe"
  BY <1>5 DEF Done
<1> QED
  BY <1>1, <1>2, <1>3, <1>4, <1>5 DEF StepOK

(* Taking it again changes neither assets nor relations.                   *)
LEMMA DoneAgain ==
  ASSUME NEW g, NEW step, NEW cited, GraphOK(g), Unique(g), Sound(g), StepOK(step),
         Corroboration(g), Done(g, step)
  PROVE  /\ Applied(g, step, cited).assets = g.assets
         /\ Applied(g, step, cited).relations = g.relations
<1> DEFINE h == Applied(g, step, cited)
<1>1. CASE step.do = "ensure"
  <2> DEFINE k == IdOf(g, step.key)
             c == g.assets[k].confidence
  <2>1. /\ Known(g, step.key) /\ Rank[step.confidence] <= Rank[c]
        /\ h = Ensured(g, step.key, step.confidence)
    BY <1>1 DEF Applied, Done
  <2>2. k \in DOMAIN g.assets
    BY <2>1, Named
  <2>3. /\ c \in Confidences /\ AssetOK(g.assets[k]) /\ step.confidence \in Confidences
    BY <1>1, <2>2 DEF Sound, GraphOK, StepOK
  <2>4. Stronger(c, step.confidence) = c
    <3>1. Rank[c] \in Int /\ Rank[step.confidence] \in Int
      BY <2>3, Ranks
    <3> HIDE DEF c
    <3> QED
      BY <2>1, <3>1 DEF Stronger
  <2>5. /\ h.relations = g.relations /\ IsSequence(h.assets)
        /\ DOMAIN h.assets = DOMAIN g.assets
        /\ \A i \in DOMAIN g.assets :
             h.assets[i] =
               IF i = k
               THEN [g.assets[i] EXCEPT !.confidence = Stronger(g.assets[i].confidence,
                                                                step.confidence)]
               ELSE g.assets[i]
    BY <2>1, EnsuredAgain
  <2>6. [g.assets[k] EXCEPT !.confidence = c] = g.assets[k]
    BY <2>3 DEF AssetOK
  <2> HIDE DEF h, k
  <2>7. \A i \in DOMAIN g.assets : h.assets[i] = g.assets[i]
    BY <2>4, <2>5, <2>6
  <2>8. h.assets = g.assets
    BY <2>5, <2>7, SameSequence DEF GraphOK
  <2> QED
    BY <2>5, <2>8 DEF h
<1>2. CASE step.do = "enrich"
  <2> DEFINE k == IdOf(g, step.key)
  <2>1. /\ Known(g, step.key) /\ step.tags \subseteq g.assets[k].tags
        /\ h = Enriched(g, step.key, step.tags)
    BY <1>2 DEF Applied, Done
  <2>2. k \in DOMAIN g.assets
    BY <2>1, Named
  <2>3. /\ Corroborated(g.assets[k].confidence, g.assets[k].tags) = g.assets[k].confidence
        /\ AssetOK(g.assets[k])
    BY <2>2 DEF Corroboration, GraphOK
  <2>4. EnrichedAsset(g.assets[k], step.tags) = g.assets[k]
    <3>1. g.assets[k].tags \cup step.tags = g.assets[k].tags
      BY <2>1
    <3>2. EnrichedAsset(g.assets[k], step.tags) =
            [g.assets[k] EXCEPT !.tags = g.assets[k].tags, !.confidence = g.assets[k].confidence]
      BY <2>3, <3>1 DEF EnrichedAsset
    <3> QED
      BY <2>3, <3>2 DEF AssetOK
  <2>5. /\ h.relations = g.relations /\ IsSequence(h.assets)
        /\ DOMAIN h.assets = DOMAIN g.assets
        /\ \A i \in DOMAIN g.assets :
             h.assets[i] = IF i = k THEN EnrichedAsset(g.assets[i], step.tags) ELSE g.assets[i]
    BY <2>1, EnrichedAdds
  <2> HIDE DEF h, k
  <2>6. \A i \in DOMAIN g.assets : h.assets[i] = g.assets[i]
    BY <2>4, <2>5
  <2>7. h.assets = g.assets
    BY <2>5, <2>6, SameSequence DEF GraphOK
  <2> QED
    BY <2>5, <2>7 DEF h
<1>3. CASE step.do = "relate"
  <2>1. h = Related(g, step.key, step.to, step.kind, cited)
    BY <1>3 DEF Applied
  <2>2. PICK s \in g.relations :
          s.from = IdOf(g, step.key) /\ s.to = IdOf(g, step.to) /\ s.kind = step.kind
    BY <1>3 DEF Done
  <2>3. h.assets = g.assets
    BY <2>1, RelatedAdds
  <2>4. h.relations = g.relations
    BY <2>1, <2>2, RelatedAdds
  <2> QED
    BY <2>3, <2>4
<1>4. CASE step.do = "observe"
  <2>1. h = Observed(g, step.source, step.subjects, step.facts, cited)
    BY <1>4 DEF Applied
  <2> QED
    BY <2>1, ObservedOnly
<1> QED
  BY <1>1, <1>2, <1>3, <1>4 DEF StepOK

(* A value that an asset has keeps the kind that is looked up for it; a    *)
(* value that none has is given the one that was taken for it.             *)
LEMMA KindStays ==
  ASSUME NEW g, NEW step, NEW cited, NEW value, NEW otherwise, GraphOK(g), Unique(g),
         StepOK(step), GraphOK(Applied(g, step, cited)), Retained(g, Applied(g, step, cited)),
         \/ SameValueAs(g, value) # {}
         \/ step.do = "ensure" /\ step.key = Key(KindOf(g, value, otherwise), value)
  PROVE  /\ SameValueAs(Applied(g, step, cited), value) # {}
         /\ KindOf(Applied(g, step, cited), value, otherwise) = KindOf(g, value, otherwise)
<1> DEFINE h == Applied(g, step, cited)
<1>1. /\ IsSequence(g.assets) /\ IsSequence(h.assets)
      /\ Len(g.assets) \in Nat /\ DOMAIN g.assets = 1 .. Len(g.assets)
      /\ \A i \in DOMAIN h.assets : i \in Nat
  BY Listed DEF GraphOK
<1>2. /\ SameValueAs(g, value) \subseteq SameValueAs(h, value)
      /\ \A i \in SameValueAs(h, value) : i \in DOMAIN g.assets => i \in SameValueAs(g, value)
  BY DEF SameValueAs, Retained
<1>3. ASSUME NEW i \in SameValueAs(h, value), i \notin DOMAIN g.assets
      PROVE  i = Len(g.assets) + 1 /\ h.assets[i].kind = step.key.kind
  <2>1. i \in DOMAIN h.assets
    BY DEF SameValueAs
  <2>2. ASSUME NEW j \in DOMAIN h.assets, j \notin DOMAIN g.assets
        PROVE  j = Len(g.assets) + 1 /\ h.assets[j].kind = step.key.kind
    <3>1. j = Len(g.assets) + 1
      <4>1. step.do = "ensure" /\ ~Known(g, step.key)
        BY <2>2, NewAsset
      <4>2. DOMAIN h.assets = 1 .. Len(g.assets) + 1
        BY <4>1, EnsuredAnew DEF Applied
      <4> QED
        BY <1>1, <2>2, <4>2
    <3>2. h.assets[j] =
            [kind |-> step.key.kind, value |-> step.key.value, scope |-> ScopeOf(step.key),
             confidence |-> step.confidence, tags |-> {}]
      BY <2>2, NewAsset
    <3> QED
      BY <3>1, <3>2
  <2> QED
    BY <1>3, <2>1, <2>2
<1>4. CASE SameValueAs(g, value) # {}
  <2>1. SameValueAs(g, value) \subseteq Nat
    BY <1>1 DEF SameValueAs
  <2>2. PICK i \in SameValueAs(g, value) : \A j \in SameValueAs(g, value) : i <= j
    BY <1>4, <2>1, LeastOf
  <2>3. i \in DOMAIN g.assets /\ i \in SameValueAs(h, value) /\ i \in 1 .. Len(g.assets)
    BY <1>1, <1>2 DEF SameValueAs
  <2>4. ASSUME NEW j \in SameValueAs(h, value)
        PROVE  i <= j
    <3>1. CASE j \in DOMAIN g.assets
      BY <1>2, <2>2, <3>1
    <3>2. CASE j \notin DOMAIN g.assets
      BY <1>1, <1>3, <2>3, <3>2
    <3> QED
      BY <3>1, <3>2
  <2> HIDE DEF h
  <2>5. KindOf(h, value, otherwise) = h.assets[i].kind
    BY <1>1, <2>3, <2>4, KindFirst
  <2>6. KindOf(g, value, otherwise) = g.assets[i].kind
    BY <1>1, <2>2, KindFirst
  <2>7. h.assets[i].kind = g.assets[i].kind
    BY <2>3 DEF Retained, h
  <2> QED
    BY <2>3, <2>5, <2>6, <2>7 DEF h
<1>5. CASE SameValueAs(g, value) = {}
  <2>1. step.do = "ensure" /\ step.key = Key(KindOf(g, value, otherwise), value)
    BY <1>5
  <2>2. step.key.value = value /\ step.key.kind = KindOf(g, value, otherwise)
    BY <2>1 DEF Key
  <2>3. PICK i \in DOMAIN h.assets : SameIdentity(h.assets[i], step.key)
    BY <2>1, EnsuredKnown DEF Known
  <2>4. i \in SameValueAs(h, value)
    BY <2>2, <2>3 DEF SameValueAs, SameIdentity
  <2>5. \A j \in SameValueAs(h, value) : j = Len(g.assets) + 1 /\ h.assets[j].kind = step.key.kind
    BY <1>2, <1>3, <1>5
  <2>6. \A j \in SameValueAs(h, value) : i <= j
    BY <1>1, <2>4, <2>5
  <2> HIDE DEF h
  <2>7. KindOf(h, value, otherwise) = h.assets[i].kind
    BY <1>1, <2>4, <2>6, KindFirst
  <2> QED
    BY <2>2, <2>4, <2>5, <2>7 DEF h
<1> QED
  BY <1>4, <1>5

LEMMA InitRepetition == Init => Repetition
<1> SUFFICES ASSUME Init PROVE Repetition
  OBVIOUS
<1>1. taken = <<>> /\ DOMAIN graph.assets = {}
  BY DEF Init, EmptyGraph
<1>2. 1 .. Len(taken) = {} /\ 1 .. Len(taken) - 1 = {}
  BY <1>1
<1> QED
  BY <1>1, <1>2 DEF Repetition, Corroboration

(* A result that is taken again finds all its steps done.                  *)
LEMMA TakenRepetition ==
  ASSUME IInv, Progress, Repetition, NEW r \in Results, TakeResult(r)
  PROVE  Repetition'
<1> DEFINE steps == IngestionSteps(r, graph)
           count == Len(taken)
<1>1. /\ todo' = steps /\ graph' = graph /\ before' = graph /\ todo = <<>>
      /\ taken' = Append(taken, r) /\ taken \in Seq(Results)
  BY DEF TakeResult, Quiet, Running, Progress, IInv
<1>2. /\ count \in Nat /\ Len(taken') = count + 1 /\ taken'[count + 1] = r
      /\ \A n \in 1 .. count : taken'[n] = taken[n] /\ taken[n] \in Results
      /\ \A n \in 1 .. count + 1 : n \in 1 .. count \/ n = count + 1
  BY <1>1
<1>3. \A n \in 1 .. count : \A step \in ToSet(IngestionSteps(taken[n], graph)) : Done(graph, step)
  BY <1>1 DEF Repetition, ToSet
<1>4. \A n \in 1 .. count : \A value \in Asked(taken[n]) : SameValueAs(graph, value) # {}
  <2> SUFFICES ASSUME NEW n \in 1 .. count, NEW value \in Asked(taken[n]),
                      todo = IngestionSteps(taken[n], graph)
               PROVE  FALSE
    BY DEF Repetition
  <2>1. taken[n].success => ListsOK(taken[n])
    BY <1>2, InputsAssumption
  <2>2. 1 \in DOMAIN todo
    BY <2>1, IngestionBegins DEF Begins
  <2> QED
    BY <1>1, <2>2
<1> HIDE DEF steps, count
<1>5. Corroboration(graph)
  BY DEF Repetition
<1>6. \A n \in 1 .. count + 1 : \A step \in ToSet(IngestionSteps(taken'[n], graph)) :
        Done(graph, step) \/ (n = count + 1 /\ step \in ToSet(steps))
  BY <1>2, <1>3 DEF steps
<1>7. \A n \in 1 .. count + 1 : \A value \in Asked(taken'[n]) :
        \/ SameValueAs(graph, value) # {}
        \/ n = count + 1 /\ steps = IngestionSteps(taken'[n], graph)
  BY <1>2, <1>4 DEF steps
<1>8. (\E n \in 1 .. count : taken'[n] = r) => \A step \in ToSet(steps) : Done(graph, step)
  BY <1>2, <1>3 DEF steps
<1>9. 1 .. Len(taken') - 1 = 1 .. count /\ 1 .. Len(taken') = 1 .. count + 1
  BY <1>2
<1> QED
  BY <1>1, <1>2, <1>5, <1>6, <1>7, <1>8, <1>9 DEF Repetition

(* A step brings in what it stands for, and changes nothing that another   *)
(* result would look up or bring in again.                                 *)
LEMMA IngestedRepetition ==
  ASSUME IInv, Progress, Repetition, Ingest
  PROVE  Repetition'
<1> DEFINE step == Head(todo)
           count == Len(taken)
<1>1. /\ graph' = Applied(graph, step, Evidence) /\ todo' = Tail(todo) /\ todo # <<>>
      /\ taken' = taken /\ before' = before
  BY DEF Ingest
<1>2. /\ GraphOK(graph) /\ Unique(graph) /\ GraphOK(graph') /\ Unique(graph')
      /\ Retained(graph, graph')
  BY <1>1, AppliedKeeps DEF IInv
<1>3. /\ Sound(graph) /\ Sound(graph') /\ IsSequence(todo)
      /\ StepOK(step) /\ \A key \in Needs(step) : Known(graph, key)
  BY IngestedProgress DEF Progress
<1>4. /\ 1 \in DOMAIN todo /\ step = todo[1]
      /\ \A n \in DOMAIN todo : n = 1 \/ (n - 1 \in DOMAIN Tail(todo) /\ Tail(todo)[n - 1] = todo[n])
      /\ \A n \in DOMAIN Tail(todo) : n + 1 \in DOMAIN todo /\ Tail(todo)[n] = todo[n + 1]
  BY <1>1, <1>3, Rest
<1>5. /\ \A s \in ToSet(todo) : s = step \/ s \in ToSet(todo')
      /\ \A s \in ToSet(todo') : s \in ToSet(todo)
      /\ step \in ToSet(todo)
      /\ \A s \in ToSet(todo) : StepOK(s)
  <2>1. \A n \in DOMAIN todo : StepOK(todo[n])
    BY DEF Progress, Closed
  <2>2. ASSUME NEW n \in DOMAIN todo
        PROVE  todo[n] = step \/ \E m \in DOMAIN todo' : todo[n] = todo'[m]
    BY <1>1, <1>4
  <2>3. ASSUME NEW n \in DOMAIN todo'
        PROVE  \E m \in DOMAIN todo : todo'[n] = todo[m]
    BY <1>1, <1>4
  <2> HIDE DEF step
  <2>4. \A s \in ToSet(todo) : \E n \in DOMAIN todo : s = todo[n]
    BY DEF ToSet
  <2>5. \A s \in ToSet(todo') : \E n \in DOMAIN todo' : s = todo'[n]
    BY DEF ToSet
  <2>6. /\ \A n \in DOMAIN todo : todo[n] \in ToSet(todo)
        /\ \A n \in DOMAIN todo' : todo'[n] \in ToSet(todo')
    BY DEF ToSet
  <2> QED
    BY <1>4, <2>1, <2>2, <2>3, <2>4, <2>5, <2>6
<1>6. \A n \in 1 .. count :
        /\ taken[n].success => ListsOK(taken[n])
        /\ \A s \in ToSet(IngestionSteps(taken[n], graph)) : StepOK(s)
  <2> SUFFICES ASSUME NEW n \in 1 .. count
               PROVE  /\ taken[n].success => ListsOK(taken[n])
                      /\ \A s \in ToSet(IngestionSteps(taken[n], graph)) : StepOK(s)
    OBVIOUS
  <2>1. taken[n].success => ListsOK(taken[n])
    BY InputsAssumption DEF IInv
  <2>2. Complete(IngestionSteps(taken[n], graph))
    BY <2>1, IngestionComplete
  <2> QED
    BY <2>1, <2>2 DEF Complete, ToSet
<1> HIDE DEF step, count
<1>7. Corroboration(graph')
  BY <1>1, <1>2, <1>3, StepCorroboration DEF Repetition
<1>8. \A i \in DOMAIN graph.assets :
        Rank[graph.assets[i].confidence] <= Rank[graph'.assets[i].confidence]
  BY <1>1, <1>2, <1>3, NotWeaker
<1>9. \A s : StepOK(s) /\ Done(graph, s) => Done(graph', s)
  BY <1>2, <1>3, <1>8, DoneStays
<1>10. Done(graph', step)
  BY <1>1, <1>2, <1>3, DoneNow
<1>11. ASSUME NEW n \in 1 .. count, NEW value \in Asked(taken[n])
       PROVE  /\ SameValueAs(graph', value) # {}
              /\ KindOf(graph', value, AskedKind(taken[n])) =
                   KindOf(graph, value, AskedKind(taken[n]))
  <2> DEFINE kind == AskedKind(taken[n])
  <2>1. \/ SameValueAs(graph, value) # {}
        \/ todo = IngestionSteps(taken[n], graph)
    BY DEF Repetition, count
  <2>2. todo = IngestionSteps(taken[n], graph) =>
          step.do = "ensure" /\ step.key = Key(KindOf(graph, value, kind), value)
    BY <1>4, <1>6, IngestionBegins DEF Begins
  <2> HIDE DEF kind
  <2>3. /\ SameValueAs(graph', value) # {}
        /\ KindOf(graph', value, kind) = KindOf(graph, value, kind)
    BY <1>1, <1>2, <1>3, <2>1, <2>2, KindStays
  <2> QED
    BY <2>3 DEF kind
<1>12. \A n \in 1 .. count : IngestionSteps(taken[n], graph') = IngestionSteps(taken[n], graph)
  BY <1>11, IngestionSame
<1>13. \A n \in 1 .. count : \A s \in ToSet(IngestionSteps(taken[n], graph')) :
         Done(graph', s) \/ (n = count /\ s \in ToSet(todo'))
  <2> SUFFICES ASSUME NEW n \in 1 .. count, NEW s \in ToSet(IngestionSteps(taken[n], graph))
               PROVE  Done(graph', s) \/ (n = count /\ s \in ToSet(todo'))
    BY <1>12
  <2>1. Done(graph, s) \/ (n = count /\ s \in ToSet(todo))
    BY DEF Repetition, count
  <2> QED
    BY <1>5, <1>6, <1>9, <1>10, <2>1
<1>14. (\E n \in 1 .. count - 1 : taken[n] = taken[count]) =>
         /\ graph'.assets = before.assets /\ graph'.relations = before.relations
         /\ \A s \in ToSet(todo') : Done(graph', s)
  <2> SUFFICES ASSUME \E n \in 1 .. count - 1 : taken[n] = taken[count]
               PROVE  /\ graph'.assets = before.assets /\ graph'.relations = before.relations
                      /\ \A s \in ToSet(todo') : Done(graph', s)
    OBVIOUS
  <2>1. /\ graph.assets = before.assets /\ graph.relations = before.relations
        /\ \A s \in ToSet(todo) : Done(graph, s)
    BY DEF Repetition, count
  <2>2. graph'.assets = graph.assets /\ graph'.relations = graph.relations
    BY <1>1, <1>2, <1>3, <1>5, <2>1, DoneAgain DEF Repetition
  <2> QED
    BY <1>5, <1>9, <2>1, <2>2
<1> QED
  BY <1>1, <1>7, <1>11, <1>13, <1>14 DEF Repetition, count

LEMMA NextRepetition == IInv /\ Progress /\ Repetition /\ [Next]_vars => Repetition'
<1> SUFFICES ASSUME IInv, Progress, Repetition, [Next]_vars
             PROVE  Repetition'
  OBVIOUS
<1>1. CASE Start \/ Refresh \/ Store \/ End \/ UNCHANGED vars
  <2>1. UNCHANGED <<graph, taken, todo, before>>
    BY <1>1 DEF Start, Refresh, Store, End, vars
  <2> QED
    BY <2>1 DEF Repetition
<1>2. CASE Ingest
  BY <1>2, IngestedRepetition
<1>3. ASSUME NEW r \in Results, TakeResult(r)
      PROVE  Repetition'
  BY <1>3, TakenRepetition
<1> QED
  BY <1>1, <1>2, <1>3 DEF Next

-----------------------------------------------------------------------------
(* The service of the run.                                                 *)

LEMMA StartAccepted == Start => Graph!StartRun
  BY DEF Start, Graph!StartRun, Graph!graph

LEMMA EndAccepted == End => Graph!EndRun
  BY DEF End, Graph!EndRun, Graph!graph

LEMMA Unseen == UNCHANGED <<status, graph, hypotheses>> => UNCHANGED Graph!vars
  BY DEF Graph!vars, Graph!graph

(* Assets that only become surer, or are given tags, are stored as they    *)
(* were, as far as the service looks at them.                              *)
LEMMA StoredTheSame ==
  ASSUME NEW g, NEW h, Retained(g, h), DOMAIN h.assets = DOMAIN g.assets
  PROVE  StoredAssets(h) = StoredAssets(g)
<1>1. \A i \in DOMAIN g.assets : AsAsset(h, i) = AsAsset(g, i)
  BY DEF AsAsset, Retained
<1> QED
  BY <1>1 DEF StoredAssets

(* The ids by which they are stored.                                       *)
LEMMA StoredIds ==
  /\ Graph!IdsOf(StoredAssets(graph)) = DOMAIN graph.assets
  /\ Graph!IdsOf(StoredObservations(graph)) = DOMAIN graph.observations
<1>1. /\ \A i : AsAsset(graph, i).id = i
      /\ \A o : AsObservation(graph, o).id = o
  BY DEF AsAsset, AsObservation
<1> QED
  BY <1>1 DEF Graph!IdsOf, StoredAssets, StoredObservations

(* A new asset: its id and its identity are new.                           *)
LEMMA NewAssetAccepted ==
  ASSUME Ingest, GraphOK(graph), Retained(graph, graph'),
         Head(todo).do = "ensure", ~Known(graph, Head(todo).key)
  PROVE  \E i \in DOMAIN graph'.assets \ DOMAIN graph.assets :
           Graph!AppendAsset(AsAsset(graph', i))
<1> DEFINE key == Head(todo).key
           n == Len(graph.assets)
           new == AsAsset(graph', n + 1)
<1>1. /\ graph' = Ensured(graph, key, Head(todo).confidence)
      /\ status = "Running" /\ UNCHANGED <<status, hypotheses>>
  BY DEF Ingest, Applied, Running
<1>2. graph'.relations = graph.relations /\ graph'.observations = graph.observations
  BY <1>1, EnsuredOnly
<1>3. /\ n \in Nat /\ DOMAIN graph.assets = 1 .. n /\ DOMAIN graph'.assets = 1 .. n + 1
  BY <1>1, EnsuredAnew
<1>4. graph'.assets[n + 1] = [kind |-> key.kind, value |-> key.value, scope |-> ScopeOf(key),
                              confidence |-> Head(todo).confidence, tags |-> {}]
  BY <1>1, EnsuredAnew
<1>5. new.id = n + 1 /\ new.kind = key.kind /\ new.value = key.value
  BY <1>4 DEF AsAsset
<1>6. \A i \in DOMAIN graph.assets : AsAsset(graph', i) = AsAsset(graph, i)
  BY DEF AsAsset, Retained
<1> HIDE DEF key, n, new
<1>7. n + 1 \in DOMAIN graph'.assets \ DOMAIN graph.assets
  BY <1>3
<1>8. StoredAssets(graph') = StoredAssets(graph) \cup {new}
  <2>1. \A i \in DOMAIN graph'.assets : i \in DOMAIN graph.assets \/ i = n + 1
    BY <1>3
  <2>2. \A i \in DOMAIN graph.assets : i \in DOMAIN graph'.assets
    BY <1>3
  <2> QED
    BY <1>6, <1>7, <2>1, <2>2 DEF StoredAssets, new
<1>9. \A stored \in StoredAssets(graph) :
        stored.id # new.id /\ ~Graph!SameIdentity(stored, new)
  <2> SUFFICES ASSUME NEW i \in DOMAIN graph.assets
               PROVE  /\ AsAsset(graph, i).id # new.id
                      /\ ~Graph!SameIdentity(AsAsset(graph, i), new)
    BY DEF StoredAssets
  <2>1. i # n + 1
    BY <1>3
  <2>2. ~SameIdentity(graph.assets[i], key)
    BY DEF Known, key
  <2> QED
    BY <1>5, <2>1, <2>2 DEF AsAsset, SameIdentity, Graph!SameIdentity
<1>10. Graph!AppendAsset(new)
  <2>1. StoredRelations(graph') = StoredRelations(graph)
    BY <1>2 DEF StoredRelations
  <2>2. StoredObservations(graph') = StoredObservations(graph)
    BY <1>2 DEF StoredObservations, AsObservation
  <2> QED
    BY <1>1, <1>8, <1>9, <2>1, <2>2 DEF Graph!AppendAsset, Graph!Active
<1> QED
  BY <1>7, <1>10 DEF new

(* A new relation: none says the same, and both ends are there.            *)
LEMMA NewRelationAccepted ==
  ASSUME Ingest, GraphOK(graph), Head(todo).do = "relate",
         \A key \in Needs(Head(todo)) : Known(graph, key)
  PROVE  \/ UNCHANGED Graph!vars
         \/ \E r \in graph'.relations \ graph.relations : Graph!AppendRelation(AsRelation(r))
<1> DEFINE from == IdOf(graph, Head(todo).key)
           to == IdOf(graph, Head(todo).to)
<1>1. /\ graph' = Related(graph, Head(todo).key, Head(todo).to, Head(todo).kind, Evidence)
      /\ status = "Running" /\ UNCHANGED <<status, hypotheses>>
  BY DEF Ingest, Applied, Running
<1>2. graph'.assets = graph.assets /\ graph'.observations = graph.observations
  BY <1>1, RelatedAdds
<1>3. PICK r \in graph'.relations :
        /\ r.from = from /\ r.to = to
        /\ \/ graph'.relations = graph.relations
           \/ /\ graph'.relations = graph.relations \cup {r}
              /\ \A s \in graph.relations : ~(s.from = r.from /\ s.to = r.to /\ s.kind = r.kind)
  BY <1>1, RelatedAdds
<1>4. from \in DOMAIN graph.assets /\ to \in DOMAIN graph.assets
  BY Named DEF Needs
<1>5. StoredAssets(graph') = StoredAssets(graph)
  BY <1>2 DEF StoredAssets, AsAsset
<1>6. StoredObservations(graph') = StoredObservations(graph)
  BY <1>2 DEF StoredObservations, AsObservation
<1>7. CASE graph'.relations = graph.relations
  <2>1. StoredRelations(graph') = StoredRelations(graph)
    BY <1>7 DEF StoredRelations
  <2> QED
    BY <1>1, <1>5, <1>6, <2>1 DEF Graph!vars, Graph!graph
<1>8. CASE /\ graph'.relations = graph.relations \cup {r}
           /\ \A s \in graph.relations : ~(s.from = r.from /\ s.to = r.to /\ s.kind = r.kind)
  <2> DEFINE new == AsRelation(r)
  <2>1. r \notin graph.relations
    BY <1>8
  <2>2. StoredRelations(graph') = StoredRelations(graph) \cup {new}
    BY <1>8 DEF StoredRelations
  <2>3. /\ new.id = <<r.from, r.to, r.kind>>
        /\ new.from = r.from /\ new.to = r.to /\ new.kind = r.kind
    BY DEF AsRelation
  <2> HIDE DEF new
  <2>4. \A stored \in StoredRelations(graph) :
          /\ stored.id # new.id
          /\ ~(stored.from = new.from /\ stored.to = new.to /\ stored.kind = new.kind)
    <3> SUFFICES ASSUME NEW s \in graph.relations
                 PROVE  /\ AsRelation(s).id # new.id
                        /\ ~(/\ AsRelation(s).from = new.from /\ AsRelation(s).to = new.to
                             /\ AsRelation(s).kind = new.kind)
      BY DEF StoredRelations
    <3>1. /\ AsRelation(s).id = <<s.from, s.to, s.kind>>
          /\ AsRelation(s).from = s.from /\ AsRelation(s).to = s.to /\ AsRelation(s).kind = s.kind
      BY DEF AsRelation
    <3> QED
      BY <1>8, <2>3, <3>1
  <2>5. Graph!AssetsExist({new.from, new.to})
    BY <1>3, <1>4, <2>3, StoredIds DEF Graph!AssetsExist
  <2>6. Graph!AppendRelation(new)
    BY <1>1, <1>5, <1>6, <2>2, <2>4, <2>5 DEF Graph!AppendRelation, Graph!Active
  <2> QED
    BY <1>8, <2>1, <2>6 DEF new
<1> QED
  BY <1>3, <1>7, <1>8

(* An observation: its id is new, and its subjects are there.              *)
LEMMA NewObservationAccepted ==
  ASSUME Ingest, GraphOK(graph), Retained(graph, graph'), Head(todo).do = "observe",
         \A key \in Needs(Head(todo)) : Known(graph, key)
  PROVE  \E o \in DOMAIN graph'.observations \ DOMAIN graph.observations :
           Graph!AppendObservation(AsObservation(graph', o))
<1> DEFINE step == Head(todo)
           n == Len(graph.observations)
           new == AsObservation(graph', n + 1)
<1>1. /\ graph' = Observed(graph, step.source, step.subjects, step.facts, Evidence)
      /\ status = "Running" /\ UNCHANGED <<status, hypotheses>>
  BY DEF Ingest, Applied, Running
<1>2. graph'.assets = graph.assets /\ graph'.relations = graph.relations
  BY <1>1, ObservedOnly
<1>3. /\ n \in Nat /\ DOMAIN graph.observations = 1 .. n
      /\ DOMAIN graph'.observations = 1 .. n + 1
  <2> HIDE DEF step
  <2>1. n \in Nat /\ DOMAIN graph.observations = 1 .. n
    BY Listed DEF GraphOK
  <2>2. DOMAIN graph'.observations = 1 .. n + 1
    <3> DEFINE x == [source |-> step.source, subjects |-> {IdOf(graph, key) : key \in step.subjects},
                     facts |-> step.facts, evidence |-> Evidence]
    <3>1. graph' = [graph EXCEPT !.observations = Append(graph.observations, x)]
      BY <1>1 DEF Observed
    <3> HIDE DEF x
    <3>2. graph'.observations = Append(graph.observations, x)
      BY <3>1 DEF GraphOK
    <3> QED
      BY <3>2, Appended DEF GraphOK
  <2> QED
    BY <2>1, <2>2
<1>4. graph'.observations[n + 1] =
        [source |-> step.source, subjects |-> {IdOf(graph, key) : key \in step.subjects},
         facts |-> step.facts, evidence |-> Evidence]
  BY <1>1, ObservedAdds
<1>5. /\ new.id = n + 1 /\ new.run = "it"
      /\ new.subjects = {IdOf(graph, key) : key \in step.subjects}
  BY <1>4 DEF AsObservation
<1>6. \A o \in DOMAIN graph.observations : AsObservation(graph', o) = AsObservation(graph, o)
  BY DEF AsObservation, Retained
<1>7. \A key \in step.subjects : IdOf(graph, key) \in DOMAIN graph.assets
  BY Named DEF Needs
<1> HIDE DEF step, n, new
<1>8. n + 1 \in DOMAIN graph'.observations \ DOMAIN graph.observations
  BY <1>3
<1>9. StoredObservations(graph') = StoredObservations(graph) \cup {new}
  <2>1. \A o \in DOMAIN graph'.observations : o \in DOMAIN graph.observations \/ o = n + 1
    BY <1>3
  <2>2. \A o \in DOMAIN graph.observations : o \in DOMAIN graph'.observations
    BY <1>3
  <2> QED
    BY <1>6, <1>8, <2>1, <2>2 DEF StoredObservations, new
<1>10. new.id \notin Graph!IdsOf(StoredObservations(graph))
  BY <1>5, <1>8, StoredIds
<1>11. Graph!AssetsExist(new.subjects)
  BY <1>5, <1>7, StoredIds DEF Graph!AssetsExist
<1>12. Graph!AppendObservation(new)
  <2>1. StoredRelations(graph') = StoredRelations(graph)
    BY <1>2 DEF StoredRelations
  <2>2. StoredAssets(graph') = StoredAssets(graph)
    BY <1>2 DEF StoredAssets, AsAsset
  <2> QED
    BY <1>1, <1>5, <1>9, <1>10, <1>11, <2>1, <2>2 DEF Graph!AppendObservation, Graph!Active
<1> QED
  BY <1>8, <1>12 DEF new

(* A hypothesis replaces the one of its kind about its asset, or is new.   *)
LEMMA StoreAccepted ==
  ASSUME Conclusions, Store
  PROVE  \/ UNCHANGED Graph!vars
         \/ \E h \in hypotheses' \ hypotheses :
              Graph!AppendHypothesis(AsHypothesis(h)) \/ Graph!UpdateHypothesis(AsHypothesis(h))
<1> DEFINE next == CHOOSE h \in pending : \A other \in pending : h.priority >= other.priority
           Stored(drawn) == {AsHypothesis(h) : h \in drawn}
           new == AsHypothesis(next)
<1>1. /\ status = "Running" /\ pending # {} /\ UNCHANGED <<status, graph>>
      /\ hypotheses' = {h \in hypotheses : ~SameHypothesis(h, next)} \cup {next}
  BY DEF Store, Running
<1>2. pending \subseteq Derived(graph)
  BY DEF Conclusions
<1>3. next \in pending
  <2>1. \A h \in pending : h.priority \in {2, 3, 4}
    BY <1>2, DerivedConcludes
  <2> QED
    BY <1>1, <2>1, NextIsPending
<1> HIDE DEF next
<1>4. next.subject \in DOMAIN graph.assets /\ References(graph, next)
  BY <1>2, <1>3, DerivedConcludes DEF Conclusions
<1>5. /\ new.id = <<next.kind, next.subject>> /\ new.subjects = {next.subject}
      /\ new.supporting = next.supporting /\ new.contradicting = next.contradicting
  BY DEF AsHypothesis
<1>6. \A h : AsHypothesis(h).id = new.id <=> SameHypothesis(h, next)
  BY DEF AsHypothesis, SameHypothesis
<1> HIDE DEF new
<1>7. Graph!ReferencesValid(new)
  <2>1. Graph!AssetsExist(new.subjects)
    BY <1>4, <1>5, StoredIds DEF Graph!AssetsExist
  <2>2. new.supporting \cup new.contradicting \subseteq Graph!IdsOf(StoredObservations(graph))
    BY <1>4, <1>5, StoredIds DEF References
  <2> QED
    BY <2>1, <2>2 DEF Graph!ReferencesValid
<1>8. Stored(hypotheses') = {stored \in Stored(hypotheses) : stored.id # new.id} \cup {new}
  BY <1>1, <1>6 DEF new
<1>9. CASE next \in hypotheses
  <2>1. \A h \in hypotheses : SameHypothesis(h, next) => h = next
    BY <1>9 DEF Conclusions
  <2>2. hypotheses' = hypotheses
    BY <1>1, <1>9, <2>1
  <2> QED
    BY <1>1, <2>2, Unseen
<1>10. CASE next \notin hypotheses /\ \E h \in hypotheses : SameHypothesis(h, next)
  <2>1. new.id \in Graph!IdsOf(Stored(hypotheses))
    BY <1>6, <1>10 DEF Graph!IdsOf
  <2>2. Graph!UpdateHypothesis(new)
    BY <1>1, <1>7, <1>8, <2>1 DEF Graph!UpdateHypothesis, Graph!Active
  <2> QED
    BY <1>1, <1>10, <2>2 DEF new
<1>11. CASE \A h \in hypotheses : ~SameHypothesis(h, next)
  <2>1. new.id \notin Graph!IdsOf(Stored(hypotheses))
    BY <1>6, <1>11 DEF Graph!IdsOf
  <2>2. Stored(hypotheses') = Stored(hypotheses) \cup {new}
    BY <1>6, <1>8, <1>11
  <2>3. Graph!AppendHypothesis(new)
    BY <1>1, <1>7, <2>1, <2>2 DEF Graph!AppendHypothesis, Graph!Active
  <2>4. next \notin hypotheses
    BY <1>11 DEF SameHypothesis
  <2> QED
    BY <1>1, <2>3, <2>4 DEF new
<1> QED
  BY <1>9, <1>10, <1>11

-----------------------------------------------------------------------------
(* The results.                                                            *)

(* The invariant holds throughout.                                         *)
THEOREM Invariance == Spec => []IInv
<1>1. IInv /\ [Next]_vars => IInv'
  BY NextPreserves
<1> QED
  BY <1>1, InitEstablishes, PTL DEF Spec

(* The ingestor, which looks before it appends, knows no asset and no      *)
(* relation twice (ensure_asset, ensure_relation).                         *)
THEOREM NothingTwice == Spec => []Unique(graph)
<1>1. IInv => Unique(graph)
  BY DEF IInv
<1> QED
  BY <1>1, Invariance, PTL

(* No result, of whatever tool, makes an asset lose a tag, move to another *)
(* place or become something else.                                         *)
THEOREM NothingLost == Spec => [][Retained(graph, graph')]_graph
<1>1. IInv /\ [Next]_vars => [Retained(graph, graph')]_graph
  BY NextPreserves
<1> QED
  BY <1>1, Invariance, PTL DEF Spec

LEMMA Progressing == Spec => [](IInv /\ Progress)
<1>1. IInv /\ Progress /\ [Next]_vars => IInv' /\ Progress'
  BY NextPreserves, NextProgress
<1>2. Init => IInv /\ Progress
  BY InitEstablishes, InitProgress
<1> QED
  BY <1>1, <1>2, PTL DEF Spec

(* Once a result has been ingested, every asset but the target of the run  *)
(* can be explained: it is the subject of an observation, or a relation    *)
(* leads to it from another asset.                                         *)
THEOREM AllExplained == Spec => []Explained
<1>1. Progress => Explained
  <2> SUFFICES ASSUME Progress, Quiet, NEW i \in DOMAIN graph.assets
               PROVE  \/ Seeded(graph.assets[i])
                      \/ \E o \in DOMAIN graph.observations : i \in graph.observations[o].subjects
                      \/ \E r \in graph.relations : r.to = i /\ r.from # i
    BY DEF Explained, Seeded
  <2>1. todo = <<>>
    BY DEF Quiet, Progress
  <2>2. Seeded(graph.assets[i]) \/ Accounted(graph, i)
    BY <2>1 DEF Progress, Explainable
  <2> QED
    BY <2>2 DEF Accounted
<1> QED
  BY <1>1, Progressing, PTL

(* No step, whatever it brings, makes an asset something else, takes a tag *)
(* from it, or makes it less sure.                                         *)
THEOREM NeverWeaker == Spec => OnlyStronger
<1> DEFINE Better ==
             \A i \in DOMAIN graph.assets :
               LET old == graph.assets[i]
                   new == graph'.assets[i]
               IN  /\ i \in DOMAIN graph'.assets
                   /\ new.kind = old.kind /\ new.value = old.value /\ new.scope = old.scope
                   /\ old.tags \subseteq new.tags
                   /\ Rank[old.confidence] <= Rank[new.confidence]
<1>1. IInv /\ Progress /\ [Next]_vars => [Better]_vars
  <2> SUFFICES ASSUME IInv, Progress, [Next]_vars, NEW i \in DOMAIN graph.assets
               PROVE  /\ i \in DOMAIN graph'.assets
                      /\ graph'.assets[i].kind = graph.assets[i].kind
                      /\ graph'.assets[i].value = graph.assets[i].value
                      /\ graph'.assets[i].scope = graph.assets[i].scope
                      /\ graph.assets[i].tags \subseteq graph'.assets[i].tags
                      /\ Rank[graph.assets[i].confidence] <= Rank[graph'.assets[i].confidence]
    OBVIOUS
  <2>1. Retained(graph, graph') \/ UNCHANGED graph
    BY NextPreserves
  <2>2. Rank[graph.assets[i].confidence] <= Rank[graph'.assets[i].confidence]
    <3>1. CASE Ingest
      <4>1. /\ GraphOK(graph) /\ Sound(graph) /\ StepOK(Head(todo))
            /\ \A key \in Needs(Head(todo)) : Known(graph, key)
            /\ graph' = Applied(graph, Head(todo), Evidence)
        BY <3>1, IngestedProgress DEF IInv, Progress, Ingest
      <4> QED
        BY <4>1, NotWeaker
    <3>2. CASE ~Ingest
      <4>1. UNCHANGED graph
        BY <3>2 DEF Next, Start, Refresh, Store, End, TakeResult, vars
      <4>2. Rank[graph.assets[i].confidence] \in 1 .. 4
        BY Ranks DEF Progress, Sound
      <4> QED
        BY <4>1, <4>2
    <3> QED
      BY <3>1, <3>2
  <2> QED
    BY <2>1, <2>2 DEF Retained
<1>2. OnlyStronger <=> [][Better]_vars
  BY DEF OnlyStronger
<1> QED
  BY <1>1, <1>2, Progressing, PTL DEF Spec

LEMMA Concluding == Spec => [](IInv /\ Progress /\ Conclusions)
<1>1. IInv /\ Progress /\ Conclusions /\ [Next]_vars => IInv' /\ Progress' /\ Conclusions'
  BY NextPreserves, NextProgress, NextConclusions
<1>2. Init => IInv /\ Progress /\ Conclusions
  BY InitEstablishes, InitProgress, InitConclusions
<1> QED
  BY <1>1, <1>2, PTL DEF Spec

(* A supported hypothesis rests on an observation, and one that a          *)
(* validation or an API description has refuted names the observation that *)
(* did, whatever the tools brought.                                        *)
THEOREM AllCited == Spec => []ConclusionsCited
<1>1. Conclusions => ConclusionsCited
  BY DEF Conclusions, Cited, ConclusionsCited
<1> QED
  BY <1>1, Concluding, PTL

(* Once the correlator is done, every hypothesis still has its reason, and *)
(* one that is missing or out of date had at least MaxDerived before it.   *)
THEOREM AllCurrent == Spec => []HypothesesCurrent
<1>1. IInv /\ Conclusions => HypothesesCurrent
  <2> DEFINE drawn == Derived(graph)
             AsUrgent(h) == {d \in drawn : d.priority >= h.priority}
  <2> SUFFICES ASSUME IInv, Conclusions, Quiet, Succeeded
               PROVE  /\ \A h \in hypotheses : \E d \in drawn : SameHypothesis(d, h)
                      /\ \A d \in drawn \ hypotheses : Cardinality(AsUrgent(d)) > MaxDerived
    BY DEF HypothesesCurrent
  <2>1. \A h \in hypotheses : \E d \in drawn : SameHypothesis(d, h)
    BY DEF Conclusions, Due
  <2>2. PICK chosen \in Best(drawn) : chosen \subseteq hypotheses
    BY DEF Conclusions, Quiet
  <2>3. /\ chosen \subseteq drawn
        /\ Cardinality(chosen) =
             IF Cardinality(drawn) < MaxDerived THEN Cardinality(drawn) ELSE MaxDerived
        /\ \A c \in chosen, d \in drawn \ chosen : c.priority >= d.priority
    BY DEF Best
  <2>4. IsFiniteSet(drawn) /\ \A d \in drawn : d.priority \in {2, 3, 4}
    BY DerivedFinite, DerivedConcludes DEF IInv, GraphOK
  <2> HIDE DEF drawn
  <2>5. ASSUME NEW d \in drawn \ hypotheses
        PROVE  Cardinality(AsUrgent(d)) > MaxDerived
    <3>1. d \notin chosen
      BY <2>2, <2>5
    <3>2. IsFiniteSet(chosen) /\ Cardinality(chosen) # Cardinality(drawn)
      BY <2>3, <2>4, <2>5, <3>1, FS_Subset
    <3>3. Cardinality(chosen) = MaxDerived
      BY <2>3, <3>2
    <3>4. Cardinality(chosen \cup {d}) = MaxDerived + 1
      BY <3>1, <3>2, <3>3, FS_AddElement
    <3>5. chosen \cup {d} \subseteq AsUrgent(d) /\ AsUrgent(d) \subseteq drawn
      BY <2>3, <2>4, <2>5, <3>1
    <3> HIDE DEF AsUrgent
    <3>6. IsFiniteSet(AsUrgent(d))
      BY <2>4, <3>5, FS_Subset
    <3>7. MaxDerived + 1 <= Cardinality(AsUrgent(d)) /\ Cardinality(AsUrgent(d)) \in Nat
      BY <3>4, <3>5, <3>6, FS_Subset, FS_CardinalityType
    <3> QED
      BY <3>7, BoundsAssumption
  <2> QED
    BY <2>1, <2>5
<1> QED
  BY <1>1, Concluding, PTL

(* A result that was ingested before, whatever came between, adds an       *)
(* observation and nothing else: no asset under another kind or spelling,  *)
(* no relation, no tag, no certainty (ensure_asset, ensure_relation).      *)
THEOREM SecondTimeNothing == Spec => []SecondTimeAddsNothing
<1>1. IInv /\ Progress /\ Repetition /\ [Next]_vars => IInv' /\ Progress' /\ Repetition'
  BY NextPreserves, NextProgress, NextRepetition
<1>2. Init => IInv /\ Progress /\ Repetition
  BY InitEstablishes, InitProgress, InitRepetition
<1>3. Repetition => SecondTimeAddsNothing
  BY DEF Repetition, SecondTimeAddsNothing
<1> QED
  BY <1>1, <1>2, <1>3, PTL DEF Spec

(* Whatever tools bring, in whatever order and spelling, the service       *)
(* accepts each call of the ingestor and of the correlator: every step is  *)
(* one call of ReconGraph whose checks let it pass, or changes nothing     *)
(* that the checks look at.                                                *)
THEOREM NothingRefused == Spec => AcceptedByService
<1> DEFINE Accepted ==
             \/ UNCHANGED Graph!vars \/ Graph!StartRun \/ Graph!EndRun
             \/ \E i \in DOMAIN graph'.assets \ DOMAIN graph.assets :
                  Graph!AppendAsset(AsAsset(graph', i))
             \/ \E r \in graph'.relations \ graph.relations : Graph!AppendRelation(AsRelation(r))
             \/ \E o \in DOMAIN graph'.observations \ DOMAIN graph.observations :
                  Graph!AppendObservation(AsObservation(graph', o))
             \/ \E h \in hypotheses' \ hypotheses :
                  Graph!AppendHypothesis(AsHypothesis(h)) \/ Graph!UpdateHypothesis(AsHypothesis(h))
<1>1. IInv /\ Progress /\ Conclusions /\ [Next]_vars => [Accepted]_vars
  <2> SUFFICES ASSUME IInv, Progress, Conclusions, Next
               PROVE  Accepted
    OBVIOUS
  <2>1. CASE Start \/ End
    BY <2>1, StartAccepted, EndAccepted
  <2>2. CASE Refresh \/ \E r \in Results : TakeResult(r)
    <3>1. UNCHANGED <<status, graph, hypotheses>>
      BY <2>2 DEF Refresh, TakeResult
    <3> QED
      BY <3>1, Unseen
  <2>3. CASE Store
    BY <2>3, StoreAccepted
  <2>4. CASE Ingest
    <3> DEFINE step == Head(todo)
    <3>1. GraphOK(graph) /\ graph' = Applied(graph, step, Evidence)
      BY <2>4 DEF IInv, Ingest
    <3>2. Retained(graph, graph')
      BY <3>1, AppliedKeeps DEF IInv
    <3>3. StepOK(step) /\ \A key \in Needs(step) : Known(graph, key)
      BY <2>4, IngestedProgress
    <3>4. ASSUME DOMAIN graph'.assets = DOMAIN graph.assets,
                 graph'.relations = graph.relations, graph'.observations = graph.observations
          PROVE  UNCHANGED Graph!vars
      <4>1. StoredAssets(graph') = StoredAssets(graph)
        BY <3>2, <3>4, StoredTheSame
      <4>2. StoredRelations(graph') = StoredRelations(graph)
        BY <3>4 DEF StoredRelations
      <4>3. StoredObservations(graph') = StoredObservations(graph)
        BY <3>4 DEF StoredObservations, AsObservation
      <4>4. UNCHANGED <<status, hypotheses>>
        BY <2>4 DEF Ingest
      <4> QED
        BY <4>1, <4>2, <4>3, <4>4 DEF Graph!vars, Graph!graph
    <3>5. CASE step.do = "ensure" /\ Known(graph, step.key)
      <4>1. graph' = Ensured(graph, step.key, step.confidence)
        BY <3>1, <3>5 DEF Applied
      <4>2. /\ DOMAIN graph'.assets = DOMAIN graph.assets
            /\ graph'.relations = graph.relations /\ graph'.observations = graph.observations
        BY <3>1, <3>5, <4>1, EnsuredAgain
      <4> QED
        BY <3>4, <4>2
    <3>6. CASE step.do = "ensure" /\ ~Known(graph, step.key)
      BY <2>4, <3>1, <3>2, <3>6, NewAssetAccepted
    <3>7. CASE step.do = "enrich"
      <4>1. graph' = Enriched(graph, step.key, step.tags)
        BY <3>1, <3>7 DEF Applied
      <4>2. /\ DOMAIN graph'.assets = DOMAIN graph.assets
            /\ graph'.relations = graph.relations /\ graph'.observations = graph.observations
        BY <3>1, <4>1, EnrichedAdds
      <4> QED
        BY <3>4, <4>2
    <3>8. CASE step.do = "relate"
      BY <2>4, <3>1, <3>3, <3>8, NewRelationAccepted
    <3>9. CASE step.do = "observe"
      BY <2>4, <3>1, <3>2, <3>3, <3>9, NewObservationAccepted
    <3> QED
      BY <3>3, <3>5, <3>6, <3>7, <3>8, <3>9 DEF StepOK
  <2> QED
    BY <2>1, <2>2, <2>3, <2>4 DEF Next
<1> QED
  BY <1>1, Concluding, PTL DEF Spec, AcceptedByService

=============================================================================
