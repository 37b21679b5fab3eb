------------------------------ MODULE ReconAssets ------------------------------
(***************************************************************************)
(* The vocabulary of the recon graph and the four ways in which the        *)
(* ingestor changes it: an asset is ensured, enriched with tags, linked to *)
(* another, and an observation is appended.                                *)
(*                                                                         *)
(* A graph is a record of the assets in the order in which they were       *)
(* appended, the set of relations, and the observations in their order.    *)
(* The position of an asset, or of an observation, stands for its uuid.    *)
(* The ingestor names an asset by its key, its kind and its value: every   *)
(* id it holds was returned by ensure_asset for that key.                  *)
(*                                                                         *)
(* A canonical value is a host or a URL.  Its part is the fragment         *)
(* "#hexhunt-..." by which the ingestor tells apart what has the same URL. *)
(***************************************************************************)
EXTENDS Integers, Sequences, FiniteSets, SequencesExt

CONSTANTS
  Lower(_),        (* a name with its letters in lower case                 *)
  IsAddress(_),    (* the name is an IP address                             *)
  InDomain(_),     (* the host matches an allowed rule and no excluded one  *)
  AllowedPorts     (* of the scope of the task                              *)

(* The elements that pass a test, in their order.                          *)
Those(s, Test(_)) == FlattenSeq([i \in DOMAIN s |-> IF Test(s[i]) THEN <<s[i]>> ELSE <<>>])

Url(scheme, host, port, path) ==
  [scheme |-> scheme, host |-> host, port |-> port, path |-> path, part |-> <<>>]

(* A value which is not a URL: a host name, an address, or any other name. *)
Host(name) == Url("", name, 0, "")

Part(value, part) == [value EXCEPT !.part = part]

(* Equal for eq_ignore_ascii_case.                                         *)
Fold(value) == [value EXCEPT !.host = Lower(value.host), !.path = Lower(value.path)]

(* The service a URL belongs to; a default port is 0.                      *)
Origin(url) == [url EXCEPT !.path = "", !.part = <<>>]

PortOf(url) ==
  IF url.port # 0 THEN url.port ELSE IF url.scheme = "http" THEN 80 ELSE 443

Key(kind, value) == [kind |-> kind, value |-> value]

UrlKinds == {"HttpService", "NetworkService", "Url", "HistoricalUrl", "Endpoint",
             "JavascriptBundle", "Api", "AuthenticationSurface", "WebForm", "Parameter",
             "DataModel"}

(* The target that is asked of the scope: "https://" is put before a value *)
(* of any other kind, so a URL of such a kind has the host "https".        *)
ScopeOf(key) ==
  LET url == key.value
      web == url.scheme # ""
  IN  IF key.kind \in {"Technology", "ThirdPartyService"} THEN "ThirdParty"
      ELSE IF web /\ key.kind \notin UrlKinds THEN "OutOfScope"
      ELSE IF web /\ url.scheme \notin {"http", "https"} THEN "RequiresReview"
      ELSE IF ~InDomain(url.host) THEN "OutOfScope"
      ELSE IF web /\ PortOf(url) \notin AllowedPorts \cup {443} THEN "RequiresReview"
      ELSE "InScope"

Confidences == {"Low", "Medium", "High", "Confirmed"}

Rank == [Low |-> 1, Medium |-> 2, High |-> 3, Confirmed |-> 4]

Stronger(old, new) == IF Rank[new] > Rank[old] THEN new ELSE old

(* A tag is a pair: "source:dns" is <<"source", "dns">>.                   *)
Sources(tags) == {tag \in tags : tag[1] = "source"}

DirectlyVerified(tags) ==
  \/ <<"dns", "resolved">> \in tags /\ <<"dns", "wildcard_match">> \notin tags
  \/ <<"http", "live">> \in tags

Corroborated(confidence, tags) ==
  CASE DirectlyVerified(tags) -> "Confirmed"
    [] ~DirectlyVerified(tags) /\ Cardinality(Sources(tags)) >= 2 -> Stronger(confidence, "High")
    [] OTHER -> confidence

-----------------------------------------------------------------------------
(* Assets.                                                                 *)

SameIdentity(asset, key) == asset.kind = key.kind /\ Fold(asset.value) = Fold(key.value)

(* Mutant: a value that is spelled in another way is another asset.        *)
KnownAsSpelled(g, key) ==
  \E i \in DOMAIN g.assets : g.assets[i].kind = key.kind /\ g.assets[i].value = key.value

Known(g, key) == \E i \in DOMAIN g.assets : SameIdentity(g.assets[i], key)

(* The position of the asset that has that key.                            *)
IdOf(g, key) == CHOOSE i \in DOMAIN g.assets : SameIdentity(g.assets[i], key)

(* Mutant: the latest source decides how sure an asset is.                 *)
EnsuredLatest(g, key, confidence) ==
  IF Known(g, key)
  THEN [g EXCEPT !.assets[IdOf(g, key)].confidence = confidence]
  ELSE [g EXCEPT !.assets = Append(@, [kind |-> key.kind, value |-> key.value,
                                       scope |-> ScopeOf(key), confidence |-> confidence,
                                       tags |-> {}])]

Ensured(g, key, confidence) ==
  IF Known(g, key)
  THEN [g EXCEPT !.assets[IdOf(g, key)].confidence = Stronger(@, confidence)]
  ELSE [g EXCEPT !.assets = Append(@, [kind |-> key.kind, value |-> key.value,
                                       scope |-> ScopeOf(key), confidence |-> confidence,
                                       tags |-> {}])]

(* Mutant: the tags of an asset are those of its latest source.            *)
RetaggedAsset(asset, tags) ==
  [asset EXCEPT !.tags = tags, !.confidence = Corroborated(asset.confidence, tags)]

EnrichedAsset(asset, tags) ==
  [asset EXCEPT !.tags = asset.tags \cup tags,
                !.confidence = Corroborated(asset.confidence, asset.tags \cup tags)]

Enriched(g, key, tags) ==
  [g EXCEPT !.assets[IdOf(g, key)] = EnrichedAsset(g.assets[IdOf(g, key)], tags)]

(* A relation that is known keeps the evidence it was first seen with.     *)
Related(g, from, to, kind, evidence) ==
  LET same == {r \in g.relations : r.from = IdOf(g, from) /\ r.to = IdOf(g, to) /\ r.kind = kind}
      new == [from |-> IdOf(g, from), to |-> IdOf(g, to), kind |-> kind, evidence |-> evidence]
  IN  IF same # {} THEN g ELSE [g EXCEPT !.relations = @ \cup {new}]

Observed(g, source, subjects, facts, evidence) ==
  [g EXCEPT !.observations =
     Append(@, [source |-> source, subjects |-> {IdOf(g, key) : key \in subjects},
                facts |-> facts, evidence |-> evidence])]

-----------------------------------------------------------------------------
(* Steps of an ingestion. Each is a call that reads the snapshot, and at   *)
(* most one call that changes and saves it.                                *)

Ensure(key, confidence) == [do |-> "ensure", key |-> key, confidence |-> confidence]

Enrich(key, tags) == [do |-> "enrich", key |-> key, tags |-> tags]

Relate(from, to, kind) == [do |-> "relate", key |-> from, to |-> to, kind |-> kind]

Observe(source, subjects, facts) ==
  [do |-> "observe", source |-> source, subjects |-> subjects, facts |-> facts]

(* The evidence of the tool result, a set of at most one, goes with the    *)
(* relations and the observations.                                         *)
Applied(g, step, evidence) ==
  CASE step.do = "ensure" -> Ensured(g, step.key, step.confidence)
    [] step.do = "enrich" -> Enriched(g, step.key, step.tags)
    [] step.do = "relate" -> Related(g, step.key, step.to, step.kind, evidence)
    [] OTHER -> Observed(g, step.source, step.subjects, step.facts, evidence)

EmptyGraph == [assets |-> <<>>, relations |-> {}, observations |-> <<>>]

=============================================================================
