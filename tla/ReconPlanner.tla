------------------------------ MODULE ReconPlanner ------------------------------
(***************************************************************************)
(* The plan for the next step of a run: what is not known yet about the    *)
(* assets in scope, which tool would find it out, what each of these       *)
(* actions is worth, and which one is recommended, if any is.              *)
(*                                                                         *)
(* An action is a capability, the asset it is about, and its arguments: a  *)
(* name or a URL, a port and a set of paths, each of which a capability    *)
(* either uses or leaves at 0 or {}.  Its number is its position in the    *)
(* list of proposals, from which its id is built.  Reasons, summaries and  *)
(* rationales are left out.                                                *)
(***************************************************************************)
EXTENDS ReconCorrelator

CONSTANTS
  Primary,           (* the primary target of the task: a URL, or nothing   *)
  Ports,             (* the allowed ports of its scope, a sequence          *)
  Tools,             (* its available tools                                 *)
  ExternalConfigured,   (* a source of external intelligence has a key      *)
  DescribesApi(_),   (* is_api_description_candidate                        *)
  TechnologyPaths(_),   (* the paths that go with a technology              *)
  Trim(_),           (* a path without the slashes at its end               *)
  MaxCandidates      (* MAX_CANDIDATE_ACTIONS: 24                           *)

(* MIN_ACTION_SCORE                                                        *)
MinScore == 180

(* tool_for_capability, of the capabilities that have a tool.              *)
ToolFor ==
  [SearchCertificateTransparency |-> "search_certificate_transparency",
   ResolveDns |-> "resolve_dns", InspectDnsOwnership |-> "inspect_dns_ownership",
   InspectRdap |-> "inspect_rdap", ProbeTcpService |-> "probe_tcp_service",
   ProbeHttp |-> "probe_http", ValidateUrlMetadata |-> "validate_url_metadata",
   DiscoverContent |-> "discover_content", FetchRobotsTxt |-> "fetch_robots_txt",
   FetchSitemap |-> "fetch_sitemap", LookupWebArchive |-> "lookup_web_archive",
   AnalyzeJavascript |-> "analyze_javascript", DescribeApi |-> "describe_api",
   AnalyzeWebPage |-> "analyze_web_page", AnalyzeVisualPage |-> "analyze_visual_page",
   AdaptiveBrowserRecon |-> "adaptive_browser_recon",
   QueryExternalIntelligence |-> "query_external_intelligence"]

Capabilities == DOMAIN ToolFor

Allowed(action) == ToolFor[action.capability] \in Tools

(* is_recon_tool: a task without any is not planned for.                   *)
ASSUME PlannerAssumption ==
  MaxCandidates \in Nat /\ \E capability \in Capabilities : ToolFor[capability] \in Tools

-----------------------------------------------------------------------------
(* What has been observed.                                                 *)

Seen(g, i, source) == ObservationsOf(g, {i}, source) # {}

TcpSeen(g, i, port) ==
  \E o \in ObservationsOf(g, {i}, "TcpProbe") : g.observations[o].facts.port = port

OriginKey(url) == <<url.scheme, Lower(url.host), PortOf(url)>>

(* An observation without a URL has the key of no origin.                  *)
HttpSeen(g, i, url) ==
  \E o \in ObservationsOf(g, {i}, "HttpProbe") :
    OriginKey(g.observations[o].facts.url) = OriginKey(url)

(* is_successful_web_page                                                  *)
SuccessfulPage(asset) ==
  /\ <<"http status", "ok">> \in asset.tags
  /\ asset.tags \cap {<<"http content", "json">>, <<"http content", "javascript">>} = {}

-----------------------------------------------------------------------------
(* Actions.                                                                *)

Arguments(value) == [value |-> value, port |-> 0, paths |-> {}]

Action(capability, i, arguments, gain, risk) ==
  [capability |-> capability, target |-> i, arguments |-> arguments, gain |-> gain,
   risk |-> risk]

Passive(capability, i, value, gain) == Action(capability, i, Arguments(value), gain, "Passive")

Active(capability, i, value, gain) == Action(capability, i, Arguments(value), gain, "LowImpact")

If(condition, action) == IF condition THEN <<action>> ELSE <<>>

(* normalized_arguments. The scheme stays: a URL refuses to become a "web" *)
(* one, so a page over http is not the page over https.                    *)
Normalized(arguments) ==
  [arguments EXCEPT !.value = Fold([@ EXCEPT !.path = Trim(@), !.part = <<>>]),
                    !.paths = {Lower(path) : path \in @}]

Equivalent(a, b) ==
  a.capability = b.capability /\ Normalized(a.arguments) = Normalized(b.arguments)

(* probe_urls: http before https, a default port before the others, which  *)
(* keep the order of the scope (the code sorts them as strings).           *)
ProbeUrls(name) ==
  LET primary == Those(Primary, LAMBDA url : Lower(url.host) = Lower(name))
      ports == Those(SubSeq(Ports, 1, IF Len(Ports) < 8 THEN Len(Ports) ELSE 8),
                     LAMBDA port : \A i \in DOMAIN primary : PortOf(primary[i]) # port)
      At(port) == CASE port = 80 -> Url("http", name, 0, "/")
                    [] port = 443 -> Url("https", name, 0, "/")
                    [] OTHER -> Url("https", name, port, "/")
      urls == primary \o [i \in DOMAIN ports |-> At(ports[i])]
      plain == Those(urls, LAMBDA url : url.scheme = "http")
      secure == Those(urls, LAMBDA url : url.scheme # "http")
  IN  IF urls = <<>> THEN <<Url("https", name, 0, "/")>> ELSE plain \o secure

(* content_discovery_paths, without the cut at 32 of them.                 *)
DiscoveryPaths(g, i) ==
  LET Has(kind) == \E j \in DOMAIN g.assets : g.assets[j].kind = kind
      technologies == {g.assets[j].value : j \in {k \in DOMAIN g.assets :
                                                    g.assets[k].kind = "Technology"}}
      past == {g.assets[j].value : j \in {k \in DOMAIN g.assets :
                                            g.assets[k].kind = "HistoricalUrl"}}
  IN  {"/.well-known/security.txt", "/.well-known/openid-configuration"}
      \cup (IF Has("AuthenticationSurface") THEN {"/login", "/auth", "/oauth/authorize"} ELSE {})
      \cup (IF Has("Api") THEN {"/openapi.json", "/swagger.json", "/graphql"} ELSE {})
      \cup UNION {TechnologyPaths(name) : name \in technologies}
      \cup {url.path : url \in {v \in past : OriginKey(v) = OriginKey(g.assets[i].value)
                                              /\ v.path # ""}}

ExternalActions(g, i) ==
  If(ExternalConfigured /\ ~Seen(g, i, "ExternalIntelligence"),
     Passive("QueryExternalIntelligence", i, g.assets[i].value, 75))

OwnershipActions(g, i) ==
  If(~Seen(g, i, "DnsOwnership"), Passive("InspectDnsOwnership", i, g.assets[i].value, 75))

TcpActions(g, i) ==
  LET open == Those(SubSeq(Ports, 1, IF Len(Ports) < 8 THEN Len(Ports) ELSE 8),
                    LAMBDA port : ~TcpSeen(g, i, port))
  IN  [n \in DOMAIN open |->
         Action("ProbeTcpService", i, [Arguments(g.assets[i].value) EXCEPT !.port = open[n]], 50,
                "LowImpact")]

ProbeActions(g, i, urls, gain) ==
  [n \in DOMAIN urls |-> Active("ProbeHttp", i, urls[n], gain)]

(* The origins of a host of which no probe has been observed.              *)
UnseenOrigins(g, i) ==
  Those(ProbeUrls(g.assets[i].value.host), LAMBDA url : ~HttpSeen(g, i, url))

HostActions(g, i) ==
  If(~Seen(g, i, "DnsQuery"), Passive("ResolveDns", i, g.assets[i].value, 50))
  \o TcpActions(g, i)
  \o ProbeActions(g, i, UnseenOrigins(g, i), 75)

RdapActions(g, i, gain) ==
  If(~Seen(g, i, "Rdap"), Passive("InspectRdap", i, g.assets[i].value, gain))

ValidationActions(g, i) ==
  LET url == Identity(g.assets[i].value)
  IN  If(url.scheme # "" /\ Validations(g, url) = {}, Active("ValidateUrlMetadata", i, url, 75))

RootActions(g, i) ==
  LET value == g.assets[i].value
  IN  ExternalActions(g, i)
      \o RdapActions(g, i, 50)
      \o If(~Seen(g, i, "CertificateTransparency"),
            Passive("SearchCertificateTransparency", i, value, 75))
      \o If(~Seen(g, i, "WebArchive"), Passive("LookupWebArchive", i, value, 75))
      \o OwnershipActions(g, i) \o HostActions(g, i)

ServiceActions(g, i) ==
  LET value == g.assets[i].value
      discovery == [Arguments(value) EXCEPT !.paths = DiscoveryPaths(g, i)]
  IN  If(~Seen(g, i, "ContentDiscovery"), Action("DiscoverContent", i, discovery, 75, "LowImpact"))
      \o If(~Seen(g, i, "Sitemap"), Active("FetchSitemap", i, value, 75))
      \o If(~Seen(g, i, "RobotsTxt"), Active("FetchRobotsTxt", i, value, 50))

(* A page is analyzed, then rendered, and looked at once it was loaded.    *)
UrlActions(g, i) ==
  LET asset == g.assets[i]
      analyzed == Seen(g, i, "WebPageAnalysis")
      page == <<"web", "discovered_link">> \in asset.tags
              \/ (<<"http", "observed">> \in asset.tags /\ SuccessfulPage(asset))
  IN  (IF IsSourceMap(asset) THEN ValidationActions(g, i) ELSE <<>>)
      \o If(page /\ ~analyzed, Active("AnalyzeWebPage", i, asset.value, 75))
      \o If(analyzed /\ ~Seen(g, i, "AdaptiveBrowser"),
            Active("AdaptiveBrowserRecon", i, asset.value, 75))
      \o If((analyzed \/ Seen(g, i, "HttpProbe")) /\ ~Seen(g, i, "VisualAnalysis"),
            Active("AnalyzeVisualPage", i, asset.value, 50))

(* What is not known of an asset that is in scope.                         *)
AssetActions(g, i) ==
  LET asset == g.assets[i]
  IN  IF asset.scope # "InScope" THEN <<>>
      ELSE CASE asset.kind = "RootDomain" -> RootActions(g, i)
             [] asset.kind = "Subdomain" ->
                  ExternalActions(g, i) \o OwnershipActions(g, i) \o HostActions(g, i)
             [] asset.kind \in {"HistoricalUrl", "Endpoint"} -> ValidationActions(g, i)
             [] asset.kind = "IpAddress" ->
                  ExternalActions(g, i) \o RdapActions(g, i, 75) \o TcpActions(g, i)
                  \o ProbeActions(g, i, UnseenOrigins(g, i), 75)
             [] asset.kind = "HttpService" -> ServiceActions(g, i)
             [] asset.kind = "Url" -> UrlActions(g, i)
             [] asset.kind = "JavascriptBundle" ->
                  If(~Seen(g, i, "JavascriptAnalysis"),
                     Active("AnalyzeJavascript", i, asset.value, 75))
             [] asset.kind = "Api" ->
                  If(DescribesApi(asset.value) /\ ~Seen(g, i, "ApiDescription"),
                     Active("DescribeApi", i, asset.value, 75))
             [] OTHER -> <<>>

-----------------------------------------------------------------------------
(* Hypotheses: a sequence, in the order in which they were first stored.   *)

Open(h) == h.status \in {"Proposed", "Testing"}

(* information_gain of a priority, and its bonus.                          *)
GainOf(priority) == 25 * priority

BonusOf(priority) ==
  CASE priority = 4 -> 50 [] priority = 3 -> 35 [] priority = 2 -> 20 [] priority = 1 -> 10

(* The action a hypothesis recommends. A probe is proposed even if one has *)
(* been observed.                                                          *)
HypothesisActions(g, h) ==
  LET asset == g.assets[h.subject]
      urls == IF asset.value.scheme # "" THEN <<asset.value>> ELSE ProbeUrls(asset.value.host)
  IN  CASE asset.scope = "InScope" /\ h.capability = "ValidateUrlMetadata" ->
             ValidationActions(g, h.subject)
        [] asset.scope = "InScope" /\ h.capability = "ProbeHttp" ->
             ProbeActions(g, h.subject, urls, GainOf(h.priority))
        [] OTHER -> <<>>

(* The hypotheses an action would help to decide.                          *)
HelpedBy(hypotheses, action) ==
  {n \in DOMAIN hypotheses : /\ Open(hypotheses[n])
                             /\ hypotheses[n].capability \in {"None", action.capability}
                             /\ hypotheses[n].subject = action.target}

Urgent(hypotheses, ns) ==
  {n \in ns : \A m \in ns : hypotheses[n].priority >= hypotheses[m].priority}

-----------------------------------------------------------------------------
(* Scores.                                                                 *)

Relevance ==
  [ResolveDns |-> 95, InspectDnsOwnership |-> 95, InspectRdap |-> 95, ProbeTcpService |-> 95,
   ProbeHttp |-> 95, ValidateUrlMetadata |-> 95, DiscoverContent |-> 95,
   AdaptiveBrowserRecon |-> 95, QueryExternalIntelligence |-> 90,
   SearchCertificateTransparency |-> 90, AnalyzeJavascript |-> 90, DescribeApi |-> 90,
   AnalyzeWebPage |-> 90, FetchSitemap |-> 85, LookupWebArchive |-> 80,
   AnalyzeVisualPage |-> 80, FetchRobotsTxt |-> 70]

Cost ==
  [ResolveDns |-> 10, InspectDnsOwnership |-> 10, InspectRdap |-> 10, ProbeTcpService |-> 20,
   QueryExternalIntelligence |-> 20, SearchCertificateTransparency |-> 15,
   FetchRobotsTxt |-> 15, FetchSitemap |-> 20, LookupWebArchive |-> 30, ProbeHttp |-> 35,
   ValidateUrlMetadata |-> 35, DescribeApi |-> 35, AnalyzeWebPage |-> 35,
   DiscoverContent |-> 40, AnalyzeJavascript |-> 45, AnalyzeVisualPage |-> 60,
   AdaptiveBrowserRecon |-> 60]

Sureness == [Low |-> 40, Medium |-> 60, High |-> 80, Confirmed |-> 100]

RiskPenalty == [Passive |-> 0, LowImpact |-> 15]

(* An asset that only a wildcard zone speaks for.                          *)
OnlyWildcard(asset) ==
  <<"dns", "wildcard_match">> \in asset.tags /\ Cardinality(Sources(asset.tags)) < 2

(* similar_selections: those of this run for the same asset, whatever the  *)
(* arguments, and those of earlier runs with the same arguments.           *)
Similar(selections, memory, action) ==
  Cardinality({n \in DOMAIN selections : /\ selections[n].capability = action.capability
                                         /\ selections[n].target = action.target})
  + Cardinality({n \in DOMAIN memory : Equivalent(memory[n], action)})

Novelty(similar) == IF similar >= 4 THEN 0 ELSE 100 - 25 * similar

(* Mutant: every repetition costs the same.                                *)
RepetitionPenaltyFlat(similar) == IF similar >= 1 THEN 35 ELSE 0

RepetitionPenalty(similar) == IF similar >= 3 THEN 100 ELSE 35 * similar

Bonus(hypotheses, action) ==
  LET urgent == Urgent(hypotheses, HelpedBy(hypotheses, action))
  IN  IF urgent = {} THEN 0 ELSE BonusOf(hypotheses[CHOOSE n \in urgent : TRUE].priority)

(* What an action is worth, before what is known of earlier ones.          *)
Worth(g, action) ==
  action.gain
  + (Relevance[action.capability] - (IF OnlyWildcard(g.assets[action.target]) THEN 40 ELSE 0))
  + Sureness[g.assets[action.target].confidence]
  - Cost[action.capability] - RiskPenalty[action.risk]

(* score_action                                                            *)
Score(g, hypotheses, selections, memory, action) ==
  LET similar == Similar(selections, memory, action)
  IN  Worth(g, action) + Novelty(similar) - RepetitionPenalty(similar) + Bonus(hypotheses, action)

-----------------------------------------------------------------------------
(* The plan.                                                               *)

Numbered(actions) ==
  [n \in DOMAIN actions |-> [number |-> n, capability |-> actions[n].capability,
                             target |-> actions[n].target, arguments |-> actions[n].arguments,
                             gain |-> actions[n].gain, risk |-> actions[n].risk]]

(* The actions of up to 16 open hypotheses, then those of the assets in    *)
(* their order; an asset in scope after which there are twice as many as   *)
(* may become candidates is the last one.                                  *)
Proposals(g, hypotheses) ==
  LET open == Those(hypotheses, Open)
      first == SubSeq(open, 1, IF Len(open) < 16 THEN Len(open) ELSE 16)
      start == FlattenSeq([n \in DOMAIN first |-> HypothesisActions(g, first[n])])
      actions == [i \in DOMAIN g.assets |-> AssetActions(g, i)]
      Full(i) == /\ g.assets[i].scope = "InScope"
                 /\ Len(start \o FlattenSeq(SubSeq(actions, 1, i))) >= 2 * MaxCandidates
      visited == {i \in DOMAIN g.assets : \A j \in 1 .. i - 1 : ~Full(j)}
  IN  Numbered(start \o FlattenSeq([i \in visited |-> actions[i]]))

(* deduplicate_actions: of the actions that are equivalent the first one.  *)
Deduplicated(actions) ==
  {actions[n] : n \in {m \in DOMAIN actions :
                         \A k \in 1 .. m - 1 : ~Equivalent(actions[k], actions[m])}}

(* Mutant: only a selection with these very arguments counts.              *)
WasSelectedExactly(selections, action) ==
  \E n \in DOMAIN selections : /\ selections[n].capability = action.capability
                               /\ selections[n].arguments = action.arguments

(* action_was_selected                                                     *)
WasSelected(selections, action) ==
  \E n \in DOMAIN selections : Equivalent(selections[n], action)

(* Mutant: what was tried and brought no observation is offered again.     *)
BlockedByTool(selections, action) == ~Allowed(action)

Blocked(selections, action) == WasSelected(selections, action) \/ ~Allowed(action)

(* The ids end in the number, and are compared as strings.                 *)
Lead(number) ==
  IF number < 10 THEN 100 * number ELSE IF number < 100 THEN 10 * number ELSE number

Before(a, b) ==
  Lead(a.number) < Lead(b.number) \/ (Lead(a.number) = Lead(b.number) /\ a.number < b.number)

StopReason(candidates, gaps, recommended, actionable) ==
  CASE candidates = {} /\ gaps = {} /\ actionable = {} -> "CoverageComplete"
    [] candidates = {} /\ (gaps # {} \/ actionable # {}) -> "RequiredCapabilityUnavailable"
    [] candidates # {} /\ recommended = {} -> "MarginalInformationGainTooLow"
    [] candidates # {} /\ recommended # {} -> "None"

(* The first of the proposals.                                             *)
First(actions, count) ==
  {a \in actions : Cardinality({b \in actions : b.number < a.number}) < count}

(* plan_with_memory, of the proposals. The recommended action is a set of  *)
(* at most one.                                                            *)
PlanOf(gaps, g, hypotheses, selections, memory) ==
  LET candidates == First({action \in gaps : ~Blocked(selections, action)}, MaxCandidates)
      scores == [action \in candidates |-> Score(g, hypotheses, selections, memory, action)]
      best == {a \in candidates : \A b \in candidates \ {a} :
                 scores[a] > scores[b] \/ (scores[a] = scores[b] /\ Before(a, b))}
      recommended == {a \in best : scores[a] >= MinScore}
      actionable == {n \in DOMAIN hypotheses :
                       Open(hypotheses[n]) /\ hypotheses[n].capability # "None"}
  IN  [gaps |-> gaps, candidates |-> candidates, scores |-> scores, recommended |-> recommended,
       stop |-> StopReason(candidates, gaps, recommended, actionable)]

Plan(g, hypotheses, selections, memory) ==
  PlanOf(Deduplicated(Proposals(g, hypotheses)), g, hypotheses, selections, memory)

-----------------------------------------------------------------------------
(* What the agent asks for: a capability and arguments, possibly with some *)
(* more that the capability does not know.                                 *)

(* Mutant: an action of the same tool is taken for the candidate.          *)
SelectionOfTool(candidates, asked) ==
  {action \in candidates : action.capability = asked.capability}

(* record_selection: the candidate that is asked for, if it is one.        *)
SelectionOf(candidates, asked) ==
  {action \in candidates : /\ action.capability = asked.capability
                           /\ action.arguments = asked.arguments}

(* Mutant: only the latest selection is looked at.                         *)
RejectedOnce(selections, asked) ==
  /\ selections # <<>> /\ ~asked.more
  /\ selections[Len(selections)].capability = asked.capability
  /\ selections[Len(selections)].arguments = asked.arguments

(* selection_rejection_reason: the very same call was selected before.     *)
Rejected(selections, asked) ==
  \E n \in DOMAIN selections : /\ selections[n].capability = asked.capability
                               /\ selections[n].arguments = asked.arguments
                               /\ ~asked.more

=============================================================================
