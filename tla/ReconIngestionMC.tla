---------------------------- MODULE ReconIngestionMC ----------------------------
(***************************************************************************)
(* A target with one subdomain, which certificates spell in capitals, and  *)
(* one result of most tools about them.                                    *)
(***************************************************************************)
EXTENDS ReconIngestion

MCLower(name) == IF name = "WWW" THEN "www" ELSE name
MCIsAddress(name) == name = "ip"
MCInDomain(host) == MCLower(host) \in {"root", "www"}
MCAllowedPorts == {443}
MCSlug(name) == name
MCSensitivity(name) == IF name = "token" THEN <<"session">> ELSE <<>>
MCSensitive(value) == value.path = "/admin"

Www(path) == Url("https", "www", 0, path)

MCTarget == <<Url("https", "root", 0, "/")>>

Result(tool) == [tool |-> tool, success |-> TRUE]

Certificates ==
  Result("search_certificate_transparency") @@ [domain |-> "root", subdomains |-> <<"WWW", "root">>]

NoCertificates == [Certificates EXCEPT !.success = FALSE, !.subdomains = <<>>]

Dns ==
  Result("resolve_dns") @@ [hostname |-> "www", resolved |-> TRUE, wildcardMatch |-> TRUE,
                            wildcardZone |-> FALSE, addresses |-> <<"ip", "cname">>]

Ownership ==
  Result("inspect_dns_ownership") @@ [hostname |-> "www", dangling |-> TRUE,
                                      records |-> <<[type |-> "CNAME", value |-> "elsewhere"]>>,
                                      providers |-> <<"cloud">>]

Rdap == Result("inspect_rdap") @@ [target |-> "ip", range |-> <<"net">>, asns |-> <<"as">>]

Tcp == Result("probe_tcp_service") @@ [hostname |-> "root", port |-> 8443, open |-> FALSE]

External ==
  Result("query_external_intelligence")
  @@ [target |-> "www",
      sources |-> <<[provider |-> "shodan", success |-> TRUE, addresses |-> <<"ip">>,
                     hostnames |-> <<"root">>, services |-> <<443>>, repositories |-> <<"/leak">>,
                     pastAddresses |-> <<"ip">>]>>]

Archive ==
  Result("lookup_web_archive") @@ [domain |-> "root", subdomains |-> <<"www">>,
                                   records |-> <<[kind |-> "Endpoint", url |-> Www("/admin")]>>]

Browser ==
  Result("adaptive_browser_recon")
  @@ [views |-> <<[url |-> <<Www("/")>>, links |-> <<Www("/login")>>, scripts |-> <<Www("/app")>>,
                   events |-> <<[url |-> Www("/admin"), type |-> "fetch", status |-> "ok"],
                                [url |-> Www("/"), type |-> "document", status |-> "ok"]>>]>>]

Visual ==
  Result("analyze_visual_page")
  @@ [url |-> Www("/login"), authentication |-> TRUE, technologies |-> <<"cms">>]

Content ==
  Result("discover_content")
  @@ [base |-> Www("/"), findings |-> <<[url |-> Www("/admin"), status |-> "other"],
                                        [url |-> Www("/gone"), status |-> "missing"]>>]

Http(tool, path, class) ==
  Result(tool) @@ [url |-> Www(path), status |-> class, tls |-> TRUE, content |-> {}, hints |-> <<>>,
                   scripts |-> <<>>, location |-> <<>>, technologies |-> <<>>, declared |-> <<>>]

Probe ==
  [Http("probe_http", "/", "ok") EXCEPT !.hints = <<"cdn">>, !.scripts = <<Www("/app")>>,
                                        !.location = <<Www("/login")>>, !.technologies = <<"cms">>]

Robots == [Http("fetch_robots_txt", "/robots", "ok") EXCEPT !.declared = <<Www("/admin")>>]

Login ==
  [method |-> "post", action |-> Www("/login"), password |-> TRUE, upload |-> FALSE,
   inputs |-> <<"token", "">>]

Page ==
  Http("analyze_web_page", "/", "ok")
  @@ [links |-> <<Www("/admin")>>, signals |-> {"login"}, forms |-> <<Login>>]

Script ==
  Http("analyze_javascript", "/app", "ok")
  @@ [profiles |-> <<[url |-> Www("/admin"), methods |-> {"GET"}, parameters |-> <<"token">>]>>,
      endpoints |-> <<Www("/admin"), Www("/v2")>>, sourceMaps |-> <<>>,
      sourceMapCandidates |-> <<Www("/app.map")>>, imports |-> <<Www("/chunk")>>,
      apis |-> <<Www("/api")>>, apiBases |-> <<Www("/api")>>, auths |-> <<Www("/login")>>,
      secrets |-> TRUE, graphql |-> FALSE, websocket |-> TRUE, clientSignals |-> {"dom_sink"}]

Api ==
  Http("describe_api", "/api", "ok")
  @@ [format |-> <<"openapi">>, paths |-> <<Www("/admin"), Www("/v3")>>, servers |-> <<Www("/v1")>>,
      schemes |-> <<[name |-> "key", kind |-> "apiKey"]>>, schemas |-> <<"User">>,
      operations |-> <<[url |-> Www("/admin"), method |-> "GET", authenticated |-> FALSE,
                        deprecated |-> FALSE,
                        parameters |-> <<[name |-> "token", location |-> "query",
                                          required |-> TRUE]>>]>>]

Validated(path, class) == Http("validate_url_metadata", path, class)

MCResults ==
  {Certificates, NoCertificates, Dns, Ownership, Rdap, Tcp, External, Archive, Browser, Visual,
   Content, Probe, Robots, Page, Script, Api, Validated("/admin", "ok"),
   Validated("/admin", "missing"), Validated("/app.map", "missing"),
   [Result("whois") EXCEPT !.success = FALSE]}

(* A third result is a validation, the certificates, or the first again.   *)
MCThird ==
  Len(taken) = 3 =>
    taken[3] \in {taken[1], Certificates, Validated("/admin", "ok"), Validated("/admin", "missing")}

=============================================================================
