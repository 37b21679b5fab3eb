----------------------------- MODULE ReconIngestor -----------------------------
(***************************************************************************)
(* What the ingestor makes of the result of each tool: the sequence of     *)
(* steps by which it brings what the tool found into the recon graph.      *)
(*                                                                         *)
(* A result is a record of the fields of its data that the graph depends   *)
(* on.  Lists are sequences; a value that may be missing is a sequence of  *)
(* at most one.  A status is the class of the HTTP status: "ok" (2xx),     *)
(* "missing" (404, 410), "unsupported" (405, 501), "other" or "none".      *)
(* Display names, summaries, and tags and facts that nothing reads are     *)
(* left out.  A success always names the target of its tool.               *)
(***************************************************************************)
EXTENDS ReconAssets, TLC

CONSTANTS
  Slug(_),         (* parameter_slug                                        *)
  Sensitivity(_)   (* parameter_sensitivity: a sequence of at most one      *)

Take(s, n) == SubSeq(s, 1, IF Len(s) < n THEN Len(s) ELSE n)

ForEach(s, Steps(_)) == FlattenSeq([i \in DOMAIN s |-> Steps(s[i])])

ForThose(s, Test(_), Steps(_)) ==
  FlattenSeq([i \in DOMAIN s |-> IF Test(s[i]) THEN Steps(s[i]) ELSE <<>>])

Optional(condition, tag) == IF condition THEN {tag} ELSE {}

NoFacts == [url |-> Host(""), status |-> "none", port |-> 0]

Found(key, confidence, tags) == <<Ensure(key, confidence), Enrich(key, tags)>>

(* An asset that was found through another one.                            *)
Linked(from, key, confidence, tags, relation) ==
  Found(key, confidence, tags) \o <<Relate(from, key, relation)>>

(* Mutant: the asset is not linked.                                        *)
Unlinked(from, key, confidence, relation) == <<Ensure(key, confidence)>>

(* The same, for the assets that are given no tags.                        *)
Joined(from, key, confidence, relation) ==
  <<Ensure(key, confidence), Relate(from, key, relation)>>

(* An observation of all that the steps before it name.                    *)
Keys(steps) == {steps[i].key : i \in DOMAIN steps}

(* The kind of the first asset with that value, whatever its kind.         *)
KindOf(g, value, otherwise) ==
  LET i == SelectInSeq(g.assets, LAMBDA asset : Fold(asset.value) = Fold(value))
  IN  IF i = 0 THEN otherwise ELSE g.assets[i].kind

HostKind(name, otherwise) == IF IsAddress(name) THEN "IpAddress" ELSE otherwise

-----------------------------------------------------------------------------
(* Passive sources.                                                        *)

(* seed_task: the target of a task that has a URL.                         *)
SeedSteps(target) ==
  ForEach(target, LAMBDA url :
    <<Ensure(Key(HostKind(url.host, "RootDomain"), Host(url.host)), "Confirmed")>>)

CertificateSteps(r) ==
  LET root == Key("RootDomain", Host(r.domain))
      tags == {<<"source", "certificate_transparency">>}
      Name(name) ==
        LET key == Key(IF Lower(name) = Lower(r.domain) THEN "RootDomain" ELSE "Subdomain",
                       Host(name))
        IN  Found(key, "High", tags)
            \o IF key.kind = "RootDomain" THEN <<>> ELSE <<Relate(root, key, "Owns")>>
  IN  Found(root, "Confirmed", tags) \o ForEach(r.subdomains, Name)
      \o <<Observe("CertificateTransparency", {root}, NoFacts)>>

(* The one failure that is recorded, so that the search is not repeated.   *)
InconclusiveSteps(r) ==
  LET root == Key("RootDomain", Host(r.domain))
  IN  <<Ensure(root, "Confirmed"), Observe("CertificateTransparency", {root}, NoFacts)>>

DnsSteps(r, g) ==
  LET host == Key(KindOf(g, Host(r.hostname), "Subdomain"), Host(r.hostname))
      confidence == CASE r.resolved /\ ~r.wildcardMatch -> "Confirmed"
                      [] r.resolved /\ r.wildcardMatch -> "Medium"
                      [] OTHER -> "Low"
      tags == {<<"source", "dns">>, <<"dns", IF r.resolved THEN "resolved" ELSE "unresolved">>}
              \cup Optional(r.wildcardZone, <<"dns", "wildcard_zone">>)
              \cup Optional(r.wildcardMatch, <<"dns", "wildcard_match">>)
      Address(address) ==
        Linked(host, Key("IpAddress", Host(address)), "High", {<<"source", "dns">>}, "ResolvesTo")
      steps == Found(host, confidence, tags)
               \o ForThose(r.addresses, IsAddress, Address)
  IN  steps \o <<Observe("DnsQuery", Keys(steps), NoFacts)>>

OwnershipSteps(r, g) ==
  LET host == Key(KindOf(g, Host(r.hostname), "Subdomain"), Host(r.hostname))
      tags == {<<"source", "dns_ownership">>}
      At(part) == Part(Url("https", r.hostname, 0, "/"), part)
      Record(record) ==
        Linked(host, Key("DnsRecord", At(<<"dns", record.type, record.value>>)), "High",
               tags \cup {<<"dns type", record.type>>}, "Exposes")
      Provider(provider) ==
        Linked(host, Key("CloudResource", At(<<"cloud", Slug(provider)>>)), "Medium",
               tags \cup {<<"cloud", provider>>}, "HostedOn")
      steps == Found(host, "High", tags \cup Optional(r.dangling, <<"dns", "dangling_candidate">>))
               \o ForEach(Take(r.records, 500), Record) \o ForEach(r.providers, Provider)
  IN  steps \o <<Observe("DnsOwnership", Keys(steps), NoFacts)>>

RdapSteps(r) ==
  LET target == Key(HostKind(r.target, "RootDomain"), Host(r.target))
      tags == {<<"source", "rdap">>}
      At(part) == Part(Url("https", r.target, 0, "/"), part)
      Network(range) ==
        Linked(target, Key("NetworkRange", At(<<"network", range>>)), "High", tags, "RelatedTo")
      Number(asn) == Linked(target, Key("Asn", At(<<"asn", asn>>)), "High", tags, "HostedOn")
      steps == Found(target, "High", tags) \o ForEach(r.range, Network)
               \o ForEach(Take(r.asns, 50), Number)
  IN  steps \o <<Observe("Rdap", Keys(steps), NoFacts)>>

(* A host that is no address is taken for a subdomain, the root as well.   *)
TcpSteps(r) ==
  LET host == Key(HostKind(r.hostname, "Subdomain"), Host(r.hostname))
      service == Key("NetworkService",
                     Part(Url("https", r.hostname, r.port, "/"), <<"tcp-service">>))
  IN  <<Ensure(host, "High")>>
      \o Linked(host, service, IF r.open THEN "Confirmed" ELSE "Medium",
                {<<"source", "tcp_probe">>,
                 <<"network", IF r.open THEN "open" ELSE "closed_or_filtered">>}, "Serves")
      \o <<Observe("TcpProbe", {host, service}, [NoFacts EXCEPT !.port = r.port])>>

(* The findings of one provider that answered.                             *)
ProviderSteps(target, name, source) ==
  LET tags == {<<"source", source.provider>>}
      At(port) == Part(Url("https", name, port, "/"), <<"external-service">>)
      Address(address) ==
        Linked(target, Key("IpAddress", Host(address)), "Medium", tags, "ResolvesTo")
      Hostname(hostname) == Found(Key("Subdomain", Host(hostname)), "Medium", tags)
      Service(port) ==
        Linked(target, Key("NetworkService", At(port)), "Medium",
               tags \cup {<<"external", "unverified">>}, "Serves")
      Repository(path) ==
        Linked(target, Key("ThirdPartyService", Url("https", "github.com", 0, path)), "Medium",
               {<<"source", "github">>}, "References")
      Past(address) ==
        Found(Key("IpAddress", Host(address)), "Low", tags \cup {<<"external", "historical">>})
  IN  ForThose(Take(source.addresses, 500), IsAddress, Address)
      \o ForEach(Take(source.hostnames, 500), Hostname)
      \o ForEach(Take(source.services, 200), Service)
      \o ForEach(Take(source.repositories, 100), Repository)
      \o ForThose(source.pastAddresses, IsAddress, Past)

ExternalSteps(r) ==
  LET target == Key(HostKind(r.target, "RootDomain"), Host(r.target))
      Answered(source) == source.success
      steps == Found(target, "High", {<<"source", "external_intelligence">>})
               \o ForThose(r.sources, Answered,
                           LAMBDA source : ProviderSteps(target, r.target, source))
  IN  steps \o <<Observe("ExternalIntelligence", Keys(steps), NoFacts)>>

CurrentKind(record) ==
  CASE record.kind = "Javascript" -> "JavascriptBundle"
    [] record.kind = "Endpoint" -> "Endpoint"
    [] record.kind = "ApiDescription" -> "Api"
    [] OTHER -> "Url"

(* An archived URL is kept twice: as it was, and as it may be today.       *)
HistoricalSteps(r) ==
  LET root == Key("RootDomain", Host(r.domain))
      tags == {<<"source", "web_archive">>}
      Owned(name) == Linked(root, Key("Subdomain", Host(name)), "Low", tags, "Owns")
      Record(record) ==
        LET past == Key("HistoricalUrl", record.url)
            host == Key("Subdomain", Host(record.url.host))
        IN  Joined(root, past, "Low", "References")
            \o Joined(past, Key(CurrentKind(record), record.url), "Low", "HistoricalVersionOf")
            \o IF Lower(record.url.host) = Lower(r.domain) THEN <<>>
               ELSE Owned(record.url.host) \o <<Relate(host, past, "References")>>
      steps == Found(root, "Confirmed", tags)
               \o ForEach(r.subdomains, Owned) \o ForEach(r.records, Record)
  IN  steps \o <<Observe("WebArchive", Keys(steps), NoFacts)>>

-----------------------------------------------------------------------------
(* Pages.                                                                  *)

(* A page that was rendered, with the links and the scripts of its DOM.    *)
RenderedSteps(view) ==
  LET tags == {<<"source", "adaptive_browser">>}
      page == Key("Url", view.url[1])
      Link(link) ==
        Linked(page, Key("Url", link), "High", tags \cup {<<"browser", "dom_link">>},
               "References")
      Script(script) ==
        Linked(page, Key("JavascriptBundle", script), "High",
               tags \cup {<<"browser", "loaded_script">>}, "References")
  IN  IF view.url = <<>> THEN <<>>
      ELSE Found(page, "Confirmed", tags \cup {<<"browser", "rendered">>})
           \o ForEach(Take(view.links, 500), Link) \o ForEach(Take(view.scripts, 200), Script)

(* What a page loaded while it was rendered.                               *)
LoadedSteps(event) ==
  LET kind == CASE event.type \in {"xhr", "fetch", "websocket", "eventsource"} -> "Endpoint"
                [] event.type = "script" -> "JavascriptBundle"
                [] OTHER -> "Url"
  IN  Found(Key(kind, event.url), "Confirmed",
            {<<"source", "adaptive_browser">>, <<"browser resource", event.type>>,
             <<"http status", event.status>>})

(* The pages of up to four identities; a URL that is already an observed   *)
(* page, or was loaded before, is not taken from the network events.       *)
BrowserSteps(r) ==
  LET views == Take(r.views, 4)
      (* observed_urls at the n-th event of a view.                        *)
      Seen(v, n) ==
        UNION {ToSet(views[w].url) : w \in 1 .. v}
        \cup UNION {{event.url : event \in ToSet(Take(views[w].events, 500))} : w \in 1 .. v - 1}
        \cup {views[v].events[i].url : i \in 1 .. n - 1}
      Loaded(v) ==
        FlattenSeq([n \in DOMAIN Take(views[v].events, 500) |->
                      IF views[v].events[n].url \in Seen(v, n) THEN <<>>
                      ELSE LoadedSteps(views[v].events[n])])
      steps == FlattenSeq([v \in DOMAIN views |-> RenderedSteps(views[v]) \o Loaded(v)])
  IN  steps \o <<Observe("AdaptiveBrowser", Keys(steps), NoFacts)>>

VisualSteps(r) ==
  LET page == Key("Url", r.url)
      steps == <<Ensure(page, "High")>>
               \o (IF r.authentication
                   THEN Joined(page, Key("AuthenticationSurface", r.url), "Medium", "Exposes")
                   ELSE <<>>)
               \o ForEach(Take(r.technologies, 25), LAMBDA name :
                    Joined(page, Key("Technology", Host(name)), "Low", "UsesTechnology"))
  IN  steps \o <<Observe("VisualAnalysis", Keys(steps), [NoFacts EXCEPT !.url = r.url])>>

ContentSteps(r) ==
  LET service == Key("HttpService", Origin(r.base))
      Present(finding) == finding.status \notin {"missing", "none"}
      Finding(finding) ==
        Linked(service, Key("Url", finding.url), "High",
               {<<"source", "content_discovery">>, <<"http status", finding.status>>,
                <<"content", "discovered">>}, "Exposes")
      steps == <<Ensure(service, "High")>>
               \o ForThose(Take(r.findings, 100), Present, Finding)
  IN  steps \o <<Observe("ContentDiscovery", Keys(steps), NoFacts)>>

-----------------------------------------------------------------------------
(* HTTP responses, and what their bodies were found to hold.               *)

(* ensure_parameter: a parameter whose name is blank is its parent.        *)
ParameterSteps(parent, base, context, name, location, source, required) ==
  LET parameter ==
        Key("Parameter", Part(base, <<"parameter">> \o context \o <<Slug(location), Slug(name)>>))
  IN  IF name = "" THEN <<>>
      ELSE Linked(parent, parameter, "High",
                  {<<"source", source>>, <<"parameter location", location>>}
                  \cup Optional(required, <<"parameter", "required">>)
                  \cup {<<"parameter sensitivity", kind>> : kind \in ToSet(Sensitivity(name))},
                  "AcceptsInput")

FormSteps(page, form, index) ==
  LET key == Key("WebForm", Part(form.action, <<"form", form.method, ToString(index)>>))
      action == Key("Url", form.action)
      login == Key("AuthenticationSurface", form.action)
      Input(name) == ParameterSteps(key, form.action, <<"form", form.method>>, name, "form",
                                    "web_form", FALSE)
  IN  Linked(page, key, "High",
             {<<"source", "web_page">>, <<"form method", form.method>>}
             \cup Optional(form.password, <<"form", "password">>)
             \cup Optional(form.upload, <<"form", "file_upload">>), "Exposes")
      \o ForEach(Take(form.inputs, 200), Input)
      \o Linked(key, action, "Medium",
                {<<"source", "web_form">>, <<"web", "discovered_link">>}, "References")
      \o (IF form.password
          THEN Linked(key, login, "High",
                      {<<"source", "web_page">>, <<"auth", "password_form">>}, "AuthenticatesWith")
          ELSE <<>>)

PageSteps(url, r) ==
  LET forms == Take(r.forms, 100)
      Link(link) ==
        Linked(url, Key("Url", link), "Medium",
               {<<"source", "web_page">>, <<"web", "discovered_link">>}, "References")
  IN  <<Enrich(url, {<<"source", "web_page">>, <<"web", "analyzed">>}
                    \cup {<<"web signal", signal>> : signal \in r.signals})>>
      \o ForEach(r.links, Link)
      \o FlattenSeq([i \in DOMAIN forms |-> FormSteps(url, forms[i], i)])

(* What a script refers to. What has a profile is not listed again, and a  *)
(* source map that is declared is not guessed.                             *)
ReferenceSteps(script, r) ==
  LET profiled == {r.profiles[i].url : i \in DOMAIN r.profiles}
      javascript == {<<"source", "javascript">>}
      To(kind, confidence, url) == Joined(script, Key(kind, url), confidence, "References")
      Tagged(kind, confidence, tags, url) ==
        Linked(script, Key(kind, url), confidence, tags, "References")
  IN  ForThose(r.endpoints, LAMBDA url : url \notin profiled,
               LAMBDA url : To("Endpoint", "Medium", url))
      \o ForEach(r.sourceMaps, LAMBDA url :
           Tagged("Url", "Medium", javascript \cup {<<"web", "source_map">>}, url))
      \o ForThose(r.sourceMapCandidates, LAMBDA url : url \notin ToSet(r.sourceMaps), LAMBDA url :
           Tagged("Url", "Low", javascript \cup {<<"web", "source_map_candidate">>}, url))
      \o ForEach(r.imports, LAMBDA url :
           Tagged("JavascriptBundle", "Medium", {<<"source", "javascript_import">>}, url))
      \o ForEach(r.apis, LAMBDA url : To("Api", "Medium", url))
      \o ForEach(r.apiBases, LAMBDA url :
           Tagged("Api", "Medium", javascript \cup {<<"api", "client_base_url">>}, url))
      \o ForEach(r.auths, LAMBDA url :
           Tagged("AuthenticationSurface", "Medium", javascript, url))

ScriptSteps(service, r) ==
  LET script == Key("JavascriptBundle", r.url)
      Profile(profile) ==
        LET endpoint == Key("Endpoint", profile.url)
            Input(name) == ParameterSteps(endpoint, profile.url, <<"javascript">>, name, "query",
                                          "javascript", FALSE)
        IN  Linked(script, endpoint, "High",
                   {<<"source", "javascript">>}
                   \cup {<<"http method", method>> : method \in profile.methods}, "References")
            \o ForEach(Take(profile.parameters, 200), Input)
  IN  Joined(service, script, "High", "References")
      \o <<Enrich(script, {<<"source", "javascript">>}
                          \cup Optional(r.secrets, <<"javascript", "secret_indicator">>)
                          \cup Optional(r.graphql, <<"javascript", "graphql_operations">>)
                          \cup Optional(r.websocket, <<"javascript", "websocket">>)
                          \cup {<<"javascript signal", kind>> : kind \in r.clientSignals})>>
      \o ForEach(Take(r.profiles, 500), Profile)
      \o ReferenceSteps(script, r)

OperationSteps(api, operation) ==
  LET endpoint == Key("Endpoint", Part(operation.url, <<"method", operation.method>>))
      Input(parameter) ==
        ParameterSteps(endpoint, operation.url, <<operation.method>>, parameter.name,
                       parameter.location, "api_description", parameter.required)
  IN  Linked(api, endpoint, "High",
             {<<"source", "api_description">>, <<"http method", operation.method>>,
              <<"api", IF operation.authenticated THEN "authentication_required"
                       ELSE "public_operation">>}
             \cup Optional(operation.deprecated, <<"api", "deprecated">>), "Exposes")
      \o ForEach(Take(operation.parameters, 200), Input)

ApiSteps(r) ==
  LET api == Key("Api", r.url)
      described == {<<"source", "api_description">>}
      profiled == {r.operations[i].url : i \in DOMAIN r.operations}
      Scheme(scheme) ==
        Linked(api, Key("AuthenticationSurface", Part(r.url, <<"auth-scheme", scheme.name>>)),
               "High", described \cup {<<"auth kind", scheme.kind>>}, "AuthenticatesWith")
      Model(name) ==
        Linked(api, Key("DataModel", Part(r.url, <<"schema", Slug(name)>>)), "High", described,
               "Describes")
  IN  <<Ensure(api, "High")>>
      \o ForEach(r.format, LAMBDA format :
           <<Enrich(api, described \cup {<<"api format", format>>})>>)
      \o ForEach(Take(r.operations, 500), LAMBDA operation : OperationSteps(api, operation))
      \o ForThose(r.paths, LAMBDA url : url \notin profiled,
                  LAMBDA url : Joined(api, Key("Endpoint", url), "High", "Exposes"))
      \o ForEach(r.servers, LAMBDA url : Joined(api, Key("HttpService", url), "High", "HostedOn"))
      \o ForEach(Take(r.schemes, 100), Scheme) \o ForEach(r.schemas, Model)

HttpSource(tool) ==
  CASE tool = "fetch_robots_txt" -> "RobotsTxt"
    [] tool = "fetch_sitemap" -> "Sitemap"
    [] tool = "analyze_web_page" -> "WebPageAnalysis"
    [] tool = "analyze_javascript" -> "JavascriptAnalysis"
    [] tool = "describe_api" -> "ApiDescription"
    [] tool = "validate_url_metadata" -> "ActiveValidation"
    [] OTHER -> "HttpProbe"

ValidationTag(status) ==
  CASE status = "missing" -> "not_found"
    [] status = "unsupported" -> "method_unsupported"
    [] status = "none" -> "inconclusive"
    [] OTHER -> "responded"

(* The host, the service and the URL of a response.                        *)
ResponseSteps(host, service, url, r) ==
  LET live == {<<"source", "http">>, <<"http", "live">>}
      status == IF r.status = "none" THEN {} ELSE {<<"http status", r.status>>}
  IN  <<Ensure(host, "High"), Ensure(service, "High"), Ensure(url, "High"),
        Enrich(host, live),
        Enrich(service, live \cup status \cup Optional(r.tls, <<"tls", "present">>)),
        Enrich(url, {<<"source", "http">>, <<"http", "observed">>} \cup status
                    \cup {<<"http content", kind>> : kind \in r.content})>>
      \o (IF r.tool = "validate_url_metadata"
          THEN <<Enrich(url, {<<"source", "active_validation">>,
                              <<"validation", ValidationTag(r.status)>>})>>
          ELSE <<>>)
      \o <<Relate(host, service, "Serves"), Relate(service, url, "Exposes")>>

(* Who serves it, and the scripts it loads.                                *)
HintSteps(service, r) ==
  LET Provider(name) ==
        Linked(service, Key("ThirdPartyService", Host(name)), "High",
               {<<"source", "http_headers">>, <<"infrastructure", "provider">>}, "HostedOn")
  IN  ForEach(Take(r.hints, 20), Provider)
      \o ForEach(Take(r.scripts, 500), LAMBDA script :
           Joined(service, Key("JavascriptBundle", script), "High", "References"))

ContextSteps(service, url, r) ==
  ForEach(r.location, LAMBDA to : Joined(url, Key("Url", to), "High", "RedirectsTo"))
  \o ForEach(r.technologies, LAMBDA name :
       Joined(service, Key("Technology", Host(name)), "Medium", "UsesTechnology"))

(* declared_urls: what robots.txt and a sitemap list.                      *)
Declared(r) ==
  IF r.tool \in {"fetch_robots_txt", "fetch_sitemap"} THEN Take(r.declared, 500) ELSE <<>>

(* Redirects and technologies are linked, but no subject of the            *)
(* observation; a trusted connection is observed a second time.            *)
HttpSteps(r, g) ==
  LET host == Key(KindOf(g, Host(r.url.host), HostKind(r.url.host, "Subdomain")), Host(r.url.host))
      service == Key("HttpService", Origin(r.url))
      url == Key("Url", r.url)
      content ==
        (IF r.tool = "analyze_web_page" THEN PageSteps(url, r) ELSE <<>>)
        \o HintSteps(service, r)
        \o (CASE r.tool = "analyze_javascript" -> ScriptSteps(service, r)
              [] r.tool = "describe_api" -> ApiSteps(r)
              [] OTHER -> <<>>)
      declared ==
        ForEach(Declared(r), LAMBDA to : Joined(service, Key("Url", to), "Medium", "Exposes"))
      subjects == {host, service, url} \cup Keys(content) \cup Keys(declared)
      facts == [NoFacts EXCEPT !.url = r.url, !.status = r.status]
  IN  ResponseSteps(host, service, url, r) \o content \o ContextSteps(service, url, r) \o declared
      \o <<Observe(HttpSource(r.tool), subjects, facts)>>
      \o (IF r.tls THEN <<Observe("TlsInspection", {service, url}, NoFacts)>> ELSE <<>>)

-----------------------------------------------------------------------------
(* Results.                                                                *)

HttpTools ==
  {"http_request", "probe_http", "validate_url_metadata", "fetch_robots_txt", "fetch_sitemap",
   "analyze_web_page", "analyze_javascript", "describe_api"}

IsSequence(s) == s \in Seq(ToSet(s))

(* What is read as a list of a result is one, whatever it holds.           *)
ListsOK(r) ==
  /\ r.tool = "search_certificate_transparency" => IsSequence(r.subdomains)
  /\ r.tool = "resolve_dns" => IsSequence(r.addresses)
  /\ r.tool = "inspect_dns_ownership" => IsSequence(r.records) /\ IsSequence(r.providers)
  /\ r.tool = "inspect_rdap" => IsSequence(r.range) /\ IsSequence(r.asns)
  /\ r.tool = "discover_content" => IsSequence(r.findings)
  /\ r.tool = "lookup_web_archive" => IsSequence(r.subdomains) /\ IsSequence(r.records)
  /\ r.tool = "analyze_visual_page" => IsSequence(r.technologies)
  /\ r.tool = "adaptive_browser_recon" =>
       /\ IsSequence(r.views)
       /\ \A view \in ToSet(r.views) :
            IsSequence(view.links) /\ IsSequence(view.scripts) /\ IsSequence(view.events)
  /\ r.tool = "query_external_intelligence" =>
       /\ IsSequence(r.sources)
       /\ \A source \in ToSet(r.sources) : source.success =>
            /\ IsSequence(source.addresses) /\ IsSequence(source.hostnames)
            /\ IsSequence(source.services) /\ IsSequence(source.repositories)
            /\ IsSequence(source.pastAddresses)
  /\ r.tool \in HttpTools =>
       /\ IsSequence(r.hints) /\ IsSequence(r.scripts)
       /\ IsSequence(r.location) /\ IsSequence(r.technologies)
  /\ r.tool \in {"fetch_robots_txt", "fetch_sitemap"} => IsSequence(r.declared)
  /\ r.tool = "analyze_web_page" =>
       /\ IsSequence(r.links) /\ IsSequence(r.forms)
       /\ \A form \in ToSet(r.forms) : IsSequence(form.inputs)
  /\ r.tool = "analyze_javascript" =>
       /\ IsSequence(r.profiles) /\ IsSequence(r.endpoints) /\ IsSequence(r.sourceMaps)
       /\ IsSequence(r.sourceMapCandidates) /\ IsSequence(r.imports) /\ IsSequence(r.apis)
       /\ IsSequence(r.apiBases) /\ IsSequence(r.auths)
       /\ \A profile \in ToSet(r.profiles) : IsSequence(profile.parameters)
  /\ r.tool = "describe_api" =>
       /\ IsSequence(r.format) /\ IsSequence(r.operations) /\ IsSequence(r.paths)
       /\ IsSequence(r.servers) /\ IsSequence(r.schemes) /\ IsSequence(r.schemas)
       /\ \A operation \in ToSet(r.operations) : IsSequence(operation.parameters)

(* A failure leaves the graph alone, but for that of the search above.     *)
FailureSteps(r) == IF r.tool = "search_certificate_transparency" THEN InconclusiveSteps(r) ELSE <<>>

(* ingest_tool_result. A tool that is not listed leaves the graph alone.   *)
IngestionSteps(r, g) ==
  CASE ~r.success -> FailureSteps(r)
    [] r.success /\ r.tool = "search_certificate_transparency" -> CertificateSteps(r)
    [] r.success /\ r.tool = "resolve_dns" -> DnsSteps(r, g)
    [] r.success /\ r.tool = "inspect_dns_ownership" -> OwnershipSteps(r, g)
    [] r.success /\ r.tool = "inspect_rdap" -> RdapSteps(r)
    [] r.success /\ r.tool = "probe_tcp_service" -> TcpSteps(r)
    [] r.success /\ r.tool = "discover_content" -> ContentSteps(r)
    [] r.success /\ r.tool = "lookup_web_archive" -> HistoricalSteps(r)
    [] r.success /\ r.tool = "analyze_visual_page" -> VisualSteps(r)
    [] r.success /\ r.tool = "adaptive_browser_recon" -> BrowserSteps(r)
    [] r.success /\ r.tool = "query_external_intelligence" -> ExternalSteps(r)
    [] r.success /\ r.tool \in HttpTools -> HttpSteps(r, g)
    [] OTHER -> <<>>

=============================================================================
