---------------------------- MODULE ReconCorrelator ----------------------------
(***************************************************************************)
(* The hypotheses the correlator draws from a recon graph. They are drawn  *)
(* anew after every ingestion; the id of a hypothesis is its kind and the  *)
(* asset it is about, so that it replaces the one drawn before.            *)
(*                                                                         *)
(* stable_hypothesis_id hashes that pair; two that collide would be one    *)
(* hypothesis, which is not modelled.  Statements are left out.            *)
(***************************************************************************)
EXTENDS ReconAssets

CONSTANT
  Sensitive(_)     (* the value has a word like admin, token or payment     *)

(* endpoint_identity: a value without its "#hexhunt-" part.                *)
Identity(value) == Part(value, <<>>)

(* The groups of tags that are read as a prefix.                           *)
Tagged(asset, group) == \E tag \in asset.tags : tag[1] = group

Methods(asset) == {tag[2] : tag \in {t \in asset.tags : t[1] = "http method"}}

-----------------------------------------------------------------------------
(* Observations.                                                           *)

ObservationsOf(g, ids, source) ==
  {o \in DOMAIN g.observations : g.observations[o].source = source
                                 /\ g.observations[o].subjects \cap ids # {}}

AllObservationsOf(g, i) == {o \in DOMAIN g.observations : i \in g.observations[o].subjects}

Validations(g, value) ==
  {o \in DOMAIN g.observations :
     /\ g.observations[o].source = "ActiveValidation"
     /\ Identity(g.observations[o].facts.url) = Identity(value)}

OutcomeOf(status) ==
  CASE status = "missing" -> "NotFound"
    [] status \in {"unsupported", "none"} -> "Inconclusive"
    [] OTHER -> "Responded"

(* validation_outcome: that of the latest validation, if there is one.     *)
Outcome(g, value) ==
  IF Validations(g, value) = {} THEN "NotValidated"
  ELSE OutcomeOf(g.observations[Max(Validations(g, value))].facts.status)

ValidationStatus(outcome) ==
  CASE outcome = "Responded" -> "Supported"
    [] outcome = "NotFound" -> "Rejected"
    [] outcome = "Inconclusive" -> "Inconclusive"
    [] outcome = "NotValidated" -> "Proposed"

IfResponded(g, value) == IF Outcome(g, value) = "Responded" THEN Validations(g, value) ELSE {}

IfNotFound(g, value) == IF Outcome(g, value) = "NotFound" THEN Validations(g, value) ELSE {}

-----------------------------------------------------------------------------
(* Hypotheses, one operator for each kind; i is the position of the asset. *)

Drawn(kind, i, status, priority, capability, supporting, contradicting) ==
  [kind |-> kind, subject |-> i, status |-> status, priority |-> priority,
   capability |-> capability, supporting |-> supporting, contradicting |-> contradicting]

(* The endpoints of an API description with the identity of an endpoint.   *)
Documented(g, value) ==
  {i \in DOMAIN g.assets : /\ g.assets[i].kind = "Endpoint"
                           /\ <<"source", "api_description">> \in g.assets[i].tags
                           /\ Identity(g.assets[i].value) = Identity(value)}

DocumentedNow(g, asset) ==
  LET same == Documented(g, asset.value)
      methods == UNION {Methods(g.assets[i]) : i \in same}
  IN  /\ same # {}
      /\ Methods(asset) = {} \/ methods = {} \/ Methods(asset) \subseteq methods

(* Mutant: the operations of a description do not count as the endpoint.   *)
SameSpelling(g, value) == {i \in DOMAIN g.assets : g.assets[i].value = value}

SameValue(g, value) == {i \in DOMAIN g.assets : Identity(g.assets[i].value) = Identity(value)}

UndocumentedEndpoint(g, i) ==
  LET asset == g.assets[i]
      documented == DocumentedNow(g, asset)
  IN  Drawn("UndocumentedEndpoint", i,
            IF documented THEN "Rejected" ELSE ValidationStatus(Outcome(g, asset.value)),
            3, "ValidateUrlMetadata",
            ObservationsOf(g, {i}, "JavascriptAnalysis") \cup IfResponded(g, asset.value),
            (IF documented
             THEN ObservationsOf(g, SameValue(g, asset.value), "ApiDescription") ELSE {})
            \cup IfNotFound(g, asset.value))

IsUndocumentedEndpoint(g, i) ==
  g.assets[i].kind = "Endpoint" /\ <<"source", "javascript">> \in g.assets[i].tags

HasSensitiveParameter(g, i) ==
  \E r \in g.relations : /\ r.from = i
                         /\ g.assets[r.to].kind = "Parameter"
                         /\ Tagged(g.assets[r.to], "parameter sensitivity")

IsPublicSensitiveOperation(g, i) ==
  /\ g.assets[i].kind = "Endpoint"
  /\ <<"api", "public_operation">> \in g.assets[i].tags
  /\ Sensitive(g.assets[i].value) \/ Tagged(g.assets[i], "parameter sensitivity")
     \/ HasSensitiveParameter(g, i)

PublicSensitiveOperation(g, i) ==
  Drawn("PublicSensitiveOperation", i, "Supported", 4, "None",
        ObservationsOf(g, {i}, "ApiDescription"), {})

IsAuthenticationSurface(g, i) == g.assets[i].kind = "AuthenticationSurface"

AuthenticationSurface(g, i) ==
  Drawn("AuthenticationSurface", i,
        IF Cardinality(Sources(g.assets[i].tags)) >= 2 THEN "Supported" ELSE "Proposed",
        3, "None", AllObservationsOf(g, i), {})

(* An archived URL, or a source map, whose current state is not known      *)
(* until it has been validated.                                            *)
Unvalidated(g, i, kind, priority, source) ==
  LET value == g.assets[i].value
  IN  Drawn(kind, i, ValidationStatus(Outcome(g, value)), priority, "ValidateUrlMetadata",
            ObservationsOf(g, {i}, source) \cup IfResponded(g, value), IfNotFound(g, value))

IsHistoricalSurface(g, i) == g.assets[i].kind = "HistoricalUrl"

HistoricalSurface(g, i) == Unvalidated(g, i, "HistoricalSurface", 2, "WebArchive")

IsSourceMap(asset) ==
  asset.tags \cap {<<"web", "source_map">>, <<"web", "source_map_candidate">>} # {}

IsSourceMapExposure(g, i) == g.assets[i].kind = "Url" /\ IsSourceMap(g.assets[i])

SourceMapExposure(g, i) == Unvalidated(g, i, "SourceMapExposure", 3, "JavascriptAnalysis")

IsClientSecretIndicator(g, i) ==
  /\ g.assets[i].kind = "JavascriptBundle"
  /\ <<"javascript", "secret_indicator">> \in g.assets[i].tags

ClientSecretIndicator(g, i) ==
  Drawn("ClientSecretIndicator", i, "Inconclusive", 4, "None",
        ObservationsOf(g, {i}, "JavascriptAnalysis"), {})

IsClientSecuritySignal(g, i) ==
  /\ g.assets[i].kind = "JavascriptBundle"
  /\ \/ Tagged(g.assets[i], "javascript signal")
     \/ g.assets[i].tags
        \cap {<<"javascript", "graphql_operations">>, <<"javascript", "websocket">>} # {}

ClientSecuritySignal(g, i) ==
  Drawn("ClientSecuritySignal", i, "Supported", 3, "None",
        ObservationsOf(g, {i}, "JavascriptAnalysis"), {})

IsHighValueParameter(g, i) ==
  g.assets[i].kind = "Parameter" /\ Tagged(g.assets[i], "parameter sensitivity")

HighValueParameter(g, i) ==
  Drawn("HighValueParameter", i, "Proposed", 3, "None", AllObservationsOf(g, i), {})

IsHostTagged(g, i, tag) ==
  g.assets[i].kind \in {"RootDomain", "Subdomain"} /\ tag \in g.assets[i].tags

IsUnverifiedAsset(g, i) == IsHostTagged(g, i, <<"dns", "wildcard_match">>)

UnverifiedAsset(g, i) ==
  Drawn("UnverifiedAsset", i,
        IF Cardinality(Sources(g.assets[i].tags)) >= 2 THEN "Rejected" ELSE "Proposed",
        2, "ProbeHttp", ObservationsOf(g, {i}, "DnsQuery"), {})

IsPotentialDanglingDns(g, i) == IsHostTagged(g, i, <<"dns", "dangling_candidate">>)

PotentialDanglingDns(g, i) ==
  Drawn("PotentialDanglingDns", i,
        IF ObservationsOf(g, {i}, "HttpProbe") # {} THEN "Inconclusive" ELSE "Proposed",
        4, "ProbeHttp", ObservationsOf(g, {i}, "DnsOwnership"), {})

-----------------------------------------------------------------------------

(* derive, before it sorts.                                                *)
Derived(g) ==
  UNION {
      (IF IsUndocumentedEndpoint(g, i) THEN {UndocumentedEndpoint(g, i)} ELSE {})
      \cup (IF IsPublicSensitiveOperation(g, i) THEN {PublicSensitiveOperation(g, i)} ELSE {})
      \cup (IF IsAuthenticationSurface(g, i) THEN {AuthenticationSurface(g, i)} ELSE {})
      \cup (IF IsHistoricalSurface(g, i) THEN {HistoricalSurface(g, i)} ELSE {})
      \cup (IF IsSourceMapExposure(g, i) THEN {SourceMapExposure(g, i)} ELSE {})
      \cup (IF IsClientSecretIndicator(g, i) THEN {ClientSecretIndicator(g, i)} ELSE {})
      \cup (IF IsClientSecuritySignal(g, i) THEN {ClientSecuritySignal(g, i)} ELSE {})
      \cup (IF IsHighValueParameter(g, i) THEN {HighValueParameter(g, i)} ELSE {})
      \cup (IF IsUnverifiedAsset(g, i) THEN {UnverifiedAsset(g, i)} ELSE {})
      \cup (IF IsPotentialDanglingDns(g, i) THEN {PotentialDanglingDns(g, i)} ELSE {})
    : i \in DOMAIN g.assets}

SameHypothesis(a, b) == a.kind = b.kind /\ a.subject = b.subject

=============================================================================
