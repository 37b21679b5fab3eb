------------------------------ MODULE ScopeGuard ------------------------------
(***************************************************************************)
(* The scope guard: decides whether a request may be sent for a project,   *)
(* and keeps, under one mutex, a sliding window of the moments at which    *)
(* requests of each project were granted.                                  *)
(*                                                                         *)
(* All runs and the window of the application share one guard.  A run that *)
(* is refused for the rate sleeps and asks once more (agent_runtime.rs);   *)
(* for a path of a content discovery it takes many shorter naps            *)
(* (content_discovery.rs). Its thread does one of the two at a time.       *)
(* A call reads the clock under the mutex, so it is one step.  A target    *)
(* outside the scope is refused before the mutex is taken and changes      *)
(* nothing.  Nothing panics under the mutex: it is never poisoned.         *)
(***************************************************************************)
EXTENDS Integers, Sequences, FiniteSets

CONSTANTS
  Projects,   (* project ids                                               *)
  Requests,   (* what callers may ask: a ScopeProject and a target         *)
  Hosts,      (* host names                                                *)
  Below,      (* pairs of host names, the first a subdomain of the second  *)
  Ports,      (* ports                                                     *)
  Runs,       (* runs, which sleep and retry                               *)
  Nothing,    (* a run that is not waiting to retry                        *)
  Window,     (* the length of the window: one second                      *)
  Pause,      (* how long a run sleeps before it retries: 1.05 seconds     *)
  PathPause,  (* how long it naps before it asks for a path again: 0.1 s   *)
  MAX_RATE_RETRIES,   (* how often it asks for a path again: 12            *)
  MaxRate,    (* the largest request_rate of a project                     *)
  MaxTime     (* bound: the clock stops here                               *)

Rule == [host : Hosts, wildcard : BOOLEAN]

ScopeProject == [id : Projects, allowed : SUBSET Rule, excluded : SUBSET Rule,
                 ports : SUBSET Ports, rate : 0 .. MaxRate, authorized : BOOLEAN]

(* A URL as Url::parse sees it: web means its scheme is http or https.     *)
Target == [valid : BOOLEAN, web : BOOLEAN, host : Hosts, port : Ports]

Request == [project : ScopeProject, target : Target]

ASSUME TimesAssumption ==
  /\ Window \in Nat /\ Pause \in Nat /\ Window <= Pause
  /\ PathPause \in Nat /\ MAX_RATE_RETRIES \in Nat \ {0}
  /\ Window <= MAX_RATE_RETRIES * PathPause
  /\ MaxRate \in Nat /\ MaxTime \in Nat

ASSUME RequestsAssumption == Requests \subseteq Request

VARIABLES
  clock,         (* Instant::now, monotonic                                *)
  requestTimes,  (* per project: the grants still in the window            *)
  waiting,       (* per run: the request it will retry                     *)
  granted        (* per project: every grant there was (history)           *)

vars == <<clock, requestTimes, waiting, granted>>

(* left: how often it may still ask after this sleep and its question;     *)
(* seen: how many grants there were when it was first refused (history).   *)
Wait == [request : Requests, until : Nat, left : Nat, seen : Nat]

TypeOK ==
  /\ clock \in Nat
  /\ requestTimes \in [Projects -> Seq(Nat)]
  /\ granted \in [Projects -> Seq(Nat)]
  /\ waiting \in [Runs -> {Nothing} \cup Wait]

-----------------------------------------------------------------------------
(* validate.                                                               *)

(* matches_rule: a wildcard rule covers the subdomains, not the host.      *)
Matches(host, rule) ==
  IF rule.wildcard THEN <<host, rule.host>> \in Below ELSE host = rule.host

InScope(project, target) ==
  /\ project.authorized
  /\ target.valid /\ target.web
  /\ ~ \E rule \in project.excluded : Matches(target.host, rule)
  /\ \E rule \in project.allowed : Matches(target.host, rule)
  /\ target.port \in project.ports

-----------------------------------------------------------------------------
(* authorize_request.                                                      *)

(* Mutants: a window too short, a window too long.                         *)
ExpiredEarly(at) == clock - at >= Window - 1

ExpiredLate(at) == clock - at > Window

Expired(at) == clock - at >= Window

(* The loop that pops the front stops after k elements.                    *)
Pops(times, k) ==
  /\ \A i \in 1 .. k : Expired(times[i])
  /\ k < Len(times) => ~Expired(times[k + 1])

Rest(times, k) == [i \in 1 .. (Len(times) - k) |-> times[k + i]]

(* Mutant: one request more than the rate.                                 *)
FullLate(times, rate) == Len(times) > rate

Full(times, rate) == Len(times) >= rate

Grant(request) ==
  LET p == request.project.id IN
  /\ InScope(request.project, request.target)
  /\ \E k \in 0 .. Len(requestTimes[p]) :
       /\ Pops(requestTimes[p], k)
       /\ ~Full(Rest(requestTimes[p], k), request.project.rate)
       /\ requestTimes' = [requestTimes EXCEPT ![p] = Append(Rest(@, k), clock)]
  /\ granted' = [granted EXCEPT ![p] = Append(@, clock)]
  /\ UNCHANGED clock

(* A refusal keeps what the loop popped popped.                            *)
Limit(request) ==
  LET p == request.project.id IN
  /\ InScope(request.project, request.target)
  /\ \E k \in 0 .. Len(requestTimes[p]) :
       /\ Pops(requestTimes[p], k)
       /\ Full(Rest(requestTimes[p], k), request.project.rate)
       /\ requestTimes' = [requestTimes EXCEPT ![p] = Rest(@, k)]
  /\ UNCHANGED <<clock, granted>>

-----------------------------------------------------------------------------
(* Callers.                                                                *)

(* The authorize command of the window does not retry.                     *)
AuthorizeCommand(request) ==
  /\ Grant(request) \/ Limit(request)
  /\ UNCHANGED waiting

(* HttpRequestTool::prepare on behalf of a run.                            *)
PrepareGranted(run, request) ==
  /\ waiting[run] = Nothing
  /\ Grant(request)
  /\ UNCHANGED waiting

Asleep(request, pause, left) ==
  [request |-> request, until |-> clock + pause, left |-> left,
   seen |-> Len(granted[request.project.id])]

PrepareLimited(run, request) ==
  /\ waiting[run] = Nothing
  /\ Limit(request)
  /\ waiting' = [waiting EXCEPT ![run] = Asleep(request, Pause, 0)]

(* Mutant: the first attempt counts as a retry.                            *)
PathLimitedShort(run, request) ==
  /\ waiting[run] = Nothing
  /\ Limit(request)
  /\ waiting' = [waiting EXCEPT ![run] = Asleep(request, PathPause, MAX_RATE_RETRIES - 2)]

(* prepare_with_rate_pacing: the first attempt for a path is refused.      *)
PathLimited(run, request) ==
  /\ waiting[run] = Nothing
  /\ Limit(request)
  /\ waiting' = [waiting EXCEPT ![run] = Asleep(request, PathPause, MAX_RATE_RETRIES - 1)]

(* After the sleep the same request is prepared once more; what the last   *)
(* of these calls returns is the answer.                                   *)
Awake(run) == waiting[run] # Nothing /\ waiting[run].until <= clock

RetryGranted(run) ==
  /\ Awake(run)
  /\ Grant(waiting[run].request)
  /\ waiting' = [waiting EXCEPT ![run] = Nothing]

(* A path that may be asked for again is not given up yet.                 *)
RetryAgain(run) ==
  /\ Awake(run) /\ waiting[run].left > 0
  /\ Limit(waiting[run].request)
  /\ waiting' = [waiting EXCEPT ![run] =
       [waiting[run] EXCEPT !.until = clock + PathPause, !.left = waiting[run].left - 1]]

RetryLimited(run) ==
  /\ Awake(run) /\ waiting[run].left = 0
  /\ Limit(waiting[run].request)
  /\ waiting' = [waiting EXCEPT ![run] = Nothing]

Tick ==
  /\ clock < MaxTime
  /\ clock' = clock + 1
  /\ UNCHANGED <<requestTimes, waiting, granted>>

Init ==
  /\ clock = 0
  /\ requestTimes = [p \in Projects |-> <<>>]
  /\ granted = [p \in Projects |-> <<>>]
  /\ waiting = [run \in Runs |-> Nothing]

Next ==
  \/ \E request \in Requests :
       \/ AuthorizeCommand(request)
       \/ \E run \in Runs : \/ PrepareGranted(run, request) \/ PrepareLimited(run, request)
                             \/ PathLimited(run, request)
  \/ \E run \in Runs : RetryGranted(run) \/ RetryAgain(run) \/ RetryLimited(run)
  \/ Tick

Spec == Init /\ [][Next]_vars

-----------------------------------------------------------------------------
(* Correctness.                                                            *)

(* In no window of one second does a project get more grants than its      *)
(* largest rate: grants that many apart are at least a window apart.       *)
RateBounded ==
  \A p \in Projects : \A i, j \in DOMAIN granted[p] :
    i + MaxRate <= j => granted[p][j] - granted[p][i] >= Window

(* The queue of a project is no longer than its largest rate.              *)
QueueBounded == \A p \in Projects : Len(requestTimes[p]) <= MaxRate

Recent(p) == {i \in DOMAIN granted[p] : clock - granted[p][i] < Window}

(* The guard refuses only when it must: a request it limits would have     *)
(* been one more than the rate within the window that ends now.            *)
DenialJustified ==
  [][\A request \in Requests :
       Limit(request) =>
         Cardinality(Recent(request.project.id)) >= request.project.rate]_vars

(* A run that has its project to itself gets its request by the one retry, *)
(* and its path by the many: it is refused for good only if somebody was   *)
(* granted a request since it was first refused, or the rate is zero.      *)
RetryRefusedWhenContended ==
  [][\A run \in Runs :
       RetryLimited(run) =>
         LET w == waiting[run] IN
         \/ w.request.project.rate = 0
         \/ w.seen < Len(granted[w.request.project.id])]_vars
=============================================================================
