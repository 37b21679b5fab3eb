------------------------------- MODULE ReconLoopMC ------------------------------
(***************************************************************************)
(* A domain with a subdomain, or with four; every tool answers, or fails   *)
(* so that it may be tried again.                                          *)
(***************************************************************************)
EXTENDS ReconLoop

CONSTANT Subdomains    \* those that certificates name, a sequence

MCLower(name) == name
MCIsAddress(name) == name = "ip"
MCInDomain(host) == TRUE
MCAllowedPorts == {443}
MCPorts == <<443>>
MCManyPorts == <<443, 80, 8080, 8443, 3000, 5000, 8000, 9000>>
MCSlug(name) == name
MCSensitivity(name) == <<>>
MCSensitive(value) == FALSE
MCDescribesApi(value) == FALSE
MCTechnologyPaths(name) == {}
MCTrim(path) == IF path = "/" THEN "" ELSE IF path = "/a/" THEN "/a" ELSE path

MCPrimary == <<Url("https", "root", 0, "/")>>

Response(tool, url) ==
  [tool |-> tool, success |-> TRUE, url |-> url, status |-> "ok", tls |-> FALSE, content |-> {},
   hints |-> <<>>, scripts |-> <<>>, location |-> <<>>, technologies |-> <<>>, declared |-> <<>>]

At(url, path) == [url EXCEPT !.path = path]

(* The archive knows a page in two spellings.                              *)
Archived == <<Url("https", "root", 0, "/a"), Url("https", "root", 0, "/a/")>>

(* What a tool finds when it succeeds.                                     *)
Succeeded(call) ==
  LET tool == ToolFor[call.capability]
      value == call.arguments.value
  IN  CASE tool = "search_certificate_transparency" ->
             [tool |-> tool, success |-> TRUE, domain |-> value.host, subdomains |-> Subdomains]
        [] tool = "resolve_dns" ->
             [tool |-> tool, success |-> TRUE, hostname |-> value.host, resolved |-> TRUE,
              wildcardMatch |-> value.host = "www", wildcardZone |-> FALSE, addresses |-> <<>>]
        [] tool = "probe_tcp_service" ->
             [tool |-> tool, success |-> TRUE, hostname |-> value.host,
              port |-> call.arguments.port, open |-> TRUE]
        [] tool = "lookup_web_archive" ->
             [tool |-> tool, success |-> TRUE, domain |-> value.host, subdomains |-> <<>>,
              records |-> [n \in 1 .. 2 |-> [kind |-> "Page", url |-> Archived[n]]]]
        [] tool \in {"probe_http", "validate_url_metadata"} -> Response(tool, value)
        [] tool = "analyze_web_page" ->
             Response(tool, value)
             @@ [links |-> IF value.path = "/" THEN <<At(value, "/a")>> ELSE <<>>,
                 signals |-> {}, forms |-> <<>>]

Failed(call) ==
  [tool |-> ToolFor[call.capability], success |-> FALSE, retryable |-> TRUE,
   domain |-> call.arguments.value.host]

MCWorld(call) == {Succeeded(call), Failed(call)}

(* An earlier run that resolved the names of the domain four times over.   *)
Resolved(name) == [capability |-> "ResolveDns", arguments |-> Arguments(Host(name))]

MCEarlierRuns ==
  {[id |-> "earlier", sameScope |-> TRUE, completed |-> TRUE,
    actions |-> <<Resolved("root"), Resolved("root"), Resolved("root"), Resolved("root")>>]}

MCPolicy == [mode |-> "AutoAssisted", sources |-> {}, maxRuns |-> 5]

MCTools ==
  {"search_certificate_transparency", "resolve_dns", "lookup_web_archive", "validate_url_metadata",
   "probe_http"}

MCNameTools == {"search_certificate_transparency", "resolve_dns"}

MCSubdomains == <<"www">>
MCManySubdomains == <<"www", "mail", "api", "dev">>

MCPageTools == {"search_certificate_transparency", "probe_http", "analyze_web_page"}

=============================================================================
