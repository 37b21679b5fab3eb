# HexHunt in TLA+

HexHunt is a desktop application (Rust under Tauri, a TypeScript window) in which a
language model investigates a web target: the model plans, the application executes
the tool the model asks for, stores what came back as evidence, builds a graph of the
recon, and ends the run with an answer that cites the evidence.  Everything of value is
a *run*: paid model calls, authorised requests, and the record of both.

These modules state what must hold of runs, whatever threads, failed saves, crashes and
restarts do, check it with TLC on small instances, and prove most of it with TLAPS for
every value of the constants.  Paths below are relative to `HexHunt/src-tauri/src/`
unless they begin with `HexHunt`.

## 1. The system

| Component | State it keeps | Operations | Talks to | What is hard | What makes it correct |
|---|---|---|---|---|---|
| **Run service** `core/run_service.rs` | all runs in memory under one `RwLock`; the ids in use | create, start, append_event, commit_tool_result, commit_model_call, update_usage, record_evidence, complete/fail/cancel/..., set_evaluation_result, recover_interrupted_runs, append_recon_*, update_recon_* | repository (saves under the lock), runtime, commands | mutation before save and rollback; checks before the lock; recovery one run at a time | what readers see is on disk; one ending per run; the log tells the status; an answer cites recorded evidence; history only grows |
| **Repository** `core/sqlite_repository.rs` | seven tables | load_all, save_record (one transaction) | run service | keys that refuse what memory accepted | a record the service accepted can be stored |
| **Scope guard** `scope_guard.rs` | per project, the times of the grants of the last second | validate, authorize_request | HTTP tool, content discovery, the window | boundary of the window; shared by runs; the caller's one retry | no window holds more grants than the rate; a refusal is justified |
| **Agent runtime** `core/agent_runtime.rs` | the local variables of one execution | execute_managed: the loop of model call, validation, preparation, execution, storing, ingestion, answer | every other component | several executions of a run, cancellation at any moment, each call of the service may be refused or fail to save | one driver per run; a late thread does one more thing at most; no Running run is abandoned; it ends |
| **Commands** `lib.rs`, `core/real_agent_run.rs` | the services of the process | create, start, cancel, execute (spawns a thread) | run service, runtime | any order, any number, several at once; restart | as for the runtime |
| **Model provider** `core/model_provider.rs` | none | generate: up to max_attempts requests, each paid | runtime | what is charged when an attempt fails | requests stay within the budget |
| **Recon snapshot** `core/recon.rs`, `core/run_service.rs` | assets, relations, observations, hypotheses, decisions of a run | the seven append and update calls | ingestor, planner, correlator, memory | one JSON document: no key or foreign key of a table guards it | nothing twice, nothing dangling, every candidate scored, nothing forgotten |
| **Recon ingestor, correlator** `core/recon_ingestor.rs`, `core/recon_correlator.rs` | none | seed_task, ingest_tool_result; refresh | run service | each asset, link and hypothesis is a saved call of its own; the same thing comes in under several names, kinds and tools | no call is refused; what is ingested again adds nothing; nothing is forgotten or weakened; hypotheses cite what they rest on |
| **Recon planner, critic** `core/recon_planner.rs`, `core/recon_critic.rs` | selections, as decisions of the snapshot | plan_with_memory, record_selection, selection_rejection_reason | runtime | three notions of "the same action"; the selection is recorded before the action is validated; failed actions leave no observation | no action twice; who follows the plan is not rejected and comes to an end |
| **Recon memory** `core/recon_memory.rs` | none | build_recon_memory | run service | a source may appear while a run goes on | only ended runs of the same scope |
| **Content discovery** `core/content_discovery.rs` | the findings of one execution | many paced requests | scope guard | 12 waits of 100 ms against a window of 1 s | a path is given up only when somebody else used the rate |
| **Evidence recorder, evaluator** `core/evidence_recorder.rs`, `core/evaluator.rs` | none | record_tool_result; evaluate | run service | between two saved calls | every result cited is evidence; evaluated once |
| **Browser vault, visual, historical, infrastructure, external recon, recon tools** | sessions behind a lock | capture, fetch, parse | runtime, as tools | external processes, time limits | inputs are bounded |
| **Window** `HexHunt/src/*.tsx` | the selected run | sends commands, polls views | commands | may send anything at any time | - |
| **Bench** `HexHunt-Bench/` | busy flag, lab thread, table of results | run one case | run service, runtime | save after evaluation, flag on early returns | busy is always cleared |

How they interact: the window sends commands; `execute_agent_run` spawns a thread, and
nothing prevents two of them for one run.  A thread runs `execute_managed`, which
calls the run service many times, each call being atomic under the service's lock and
saved before the lock is released.  Between two calls anything may happen to the run.
Model calls and tools happen outside the lock and outside the service.  A tool asks the
scope guard, which is one object of the process, for leave to send.  A restart loses
every thread; at the next start the service loads the rows, fails every run that was
Running, and only then are commands served.

## 2. Modules

| Module | Models | By |
|---|---|---|
| `RunLedger` | what the service promises | `status`, `steps`, `evidence`, `output` and `evaluated` of each run; a step creates, starts, works on, ends or evaluates one run, atomically and durably |
| `RunService` | the service and the repository | `store` (memory), `disk` (rows), `txn` (who holds the write lock with an unsaved change), `previous` (the clone), `now` (the clock as each thread read it), `draft` (a completion whose evidence was looked up under the read lock), `interrupted` (the runs recovery still has to fail), `mode`, `clock` |
| `ScopeGuard` | the guard, and its callers' sleeps and retries | `requestTimes[project]`, `waiting[run]`, `clock`, and `granted` as history |
| `AgentRuntime` | the loop, the commands around it, the service as one run sees it | `run`, `log`, `pc[e]` and `local[e]` of each execution, bounded `faults` and `restarts`, and as history `byWindow`, `sent`, `late` |
| `ReconGraph` | the recon snapshot of one run and its seven calls | `assets`, `relations`, `observations`, `hypotheses`, `decisions`, `status` |
| `ReconAssets` | the graph as the ingestor builds it, and its steps | operators: `Ensured`, `Related`, `Observed`, `Applied` |
| `ReconIngestor` | what each tool's result makes of the graph | operators: `SeedSteps`, `IngestionSteps` |
| `ReconCorrelator` | the hypotheses a graph gives rise to | operators: `Derived` |
| `ReconIngestion` | a run whose results are ingested one saved step at a time | `graph`, `hypotheses`, `todo`, `pending`, `taken`, `status` |
| `ReconPlanner` | proposals, filters, scores and selection of actions | operators: `Plan`, `SelectionOf`, `Rejected` |
| `ReconLoop` | planner, ingestor, correlator and memory around an agent that need not follow the plan | `graph`, `hypotheses`, `selections`, `ended`, `plan`, `asked`, `rejections`, `status` |

**RunService.**  A call is up to three steps.  `Stamp` reads the clock, before the lock
is asked for, as the code does.  The call itself (`CreateRun`, `StartRun`, `FinishRun`, ...)
takes the lock, passes its checks, clones the store (`previous`) and changes it in place; `Refused` is the
call whose checks fail.  Then `Saved` commits the record as one transaction, or `SaveFailed`
puts the clone back.  Nobody else mutates while the lock is held, but a `Crash` may
come at any point.  `complete_run` has one step more, because the code
releases the read lock after it has looked up the cited evidence (`CheckOutput`, then
`CompleteRun`).  `AppendToolResult`, `AppendModelCall`, `AppendEvidence` and `UpdateUsage` log nothing and read no clock.
What a caller chooses freely is chosen freely: the step of the event that
`CommitToolResult`, `CommitModelCall` and `RecordEvidence` write is an argument the service compares with nothing,
and `AppendEvent` takes any kind that `is_service_managed_event` does not name (`ServiceManaged`), an
`EvaluationCompleted` of a run that goes on included; only `AppendEvent` compares its step (`KeepsOrder`).
After a crash `Open` loads the rows, rebuilds the sets of ids and collects, once, the runs that are
Running (`interrupted`); `RecoverRun` fails one of them per step, each with its own save (a save that fails there
aborts the start, so it is a `Crash`), and `FinishRecovery` lets calls in when the loop is over: it looks at
no status.
`Storable` is the primary and foreign keys of the tables.  Usage is reduced to steps and
duration, the two counters the service itself reads.

**ScopeGuard.**  `Grant` and `Limit` are the two ends of `authorize_request` for a
request in scope: drop the times older than the window, compare with the rate, push or
refuse.  `PrepareLimited` is a run that was refused and sleeps
(`agent_runtime.rs:825`), `RetryGranted` and `RetryLimited` its one retry.  `PathLimited`
is a path of a content discovery that was refused, which naps `PathPause` and is asked for again
up to `MAX_RATE_RETRIES` times (`RetryAgain`, `content_discovery.rs:214`); the two kinds of
sleep share `waiting` because one thread does one at a time.
`AuthorizeCommand` is the command of the window, which does not retry.  Hosts are
names with a subdomain relation (`Below`), rules have a host and a wildcard flag, so
that scoping is decided by the rules of `scope_guard.rs` and not by a flag.

**AgentRuntime.**  `pc[e]` is the call an execution makes next, and each action is
one call of the service, or one effect outside of it (a model call, a tool, the
preparation of one), together with what the code computes up to the next.  The events in `log` have their
kind and step: `Ask` computes the step of an iteration (`local[e].step`) from the usage it reads, and every call of that
iteration writes this one, through `record_event`, which compares it (`Records`), or through the commits and the recorder, which do not.  The run may
change between any two of them.  `CallRefused` is the service's refusal
of a call in the run's present status and `SaveFails` a failed save; `Afterwards` is where
the code's `?` or its error branch goes from there.  `Ask` spends 1 to `MaxAttempts`
requests within the remaining calls and chooses freely what the model answers: an error, an action
that planning or validation refuses, a tool, a finish.  `Prepare` chooses what scope and
rate say, `Execute` what the tool brings back and how many requests it sent, `Judge` and `Complete`
apply the rule that an HTTP task needs evidence and cites it.  `Configure` to `ConfFail` are
`execute_openrouter_agent_run` with `configuration_failure`.

**ReconGraph.**  Each action is one call with every check in the order of the code;
a refused call changes nothing and is not a step.  Two spellings of a value that the
code compares case-insensitively are one value under `Folded`, an operator constant that
each instance gives (`ReconIngestion` gives it the folding of its own values).  A
decision is a record of gap, candidates, scores and selection, so that each of the checks of
`append_recon_decision` can be what stands between a wrong decision and the snapshot.
The save and rollback of these calls are those of `RunService`
(`mutate_recon_snapshot` goes through `persist_record_locked`).

**ReconAssets, ReconIngestor, ReconCorrelator.**  Pure definitions.  The ingestor makes of a
result a sequence of steps, in the order of its calls: `ensure` an asset (find it by kind and
normalized value, or by the kinds a hostname may already be known under, and enrich it; else append
it), `relate` two assets, `observe`.  `Applied` is what one step does.  Values are records of scheme,
host, port and path, so that the spellings the code folds (case, default ports, a trailing slash)
and those it does not (http and https: `url.set_scheme` with a made-up scheme changes
nothing) are told apart as the code does.  `Derived` is the ten kinds of
hypotheses of `recon_correlator.rs`, each with status, priority, subject and the observations it
cites.

**ReconIngestion.**  `TakeResult` is commit_tool_result with record_tool_result, `Ingest` one
step of the ingestor, `Refresh` the correlator's reading of the snapshot and `Store` one
hypothesis saved.  `End` may come between any two of them: a cancellation, a failed save, an error,
a crash.  What was ingested until then stays in the snapshot of the ended run.

**ReconPlanner, ReconLoop.**  `Plan` is `plan_with_memory`: the actions each asset calls for, those
each hypothesis calls for, at most `2 * MaxCandidates` proposals looked at (`First`), blocked ones
dropped, duplicates merged, scores, the recommendation and the reason to stop.  In
`ReconLoop` a step plans (`PlanNow`); the agent asks for a call (`Ask`), which records the selection
first and is then checked against repetition, or finishes (`Finish`); a call is refused (`Refuse`,
`RefuseForRate`) or answered (`Answer`), and an answer is ingested and the hypotheses drawn
anew within the same step, since nobody else changes the snapshot of a running run
(`ReconIngestion` takes that apart).  Other runs may end at any time and
change the memory (`OtherRunEnds`).  `World` says what tools may answer.

`RunServiceProofs`, `ScopeGuardProofs`, `AgentRuntimeProofs`, `AgentRuntimeLogProofs`, `ReconGraphProofs`
and `ReconLoopProofs` hold the proofs of their components.  Those of the ingestion are in two modules:
`ReconIngestorProofs` says what the steps of every tool's result have in common, whatever the graph, with the
lemmas on induction and on `FlattenSeq` this takes; `ReconIngestionProofs` extends it and is about the run that
takes the steps one by one.  The `*MC` modules give symmetry sets and the structured constants.

**Abstraction and refinement.**  `RunLedger` promises that a run is created once, moves
only along `Transitions`, gathers steps and evidence while it is Running and loses none, gets an output exactly
by completing, one that cites its evidence, and is evaluated at most once, after it Completed.  `RunService`
implements it with the rows of the database as the ledger (`ImplementsLedger`): memory,
the lock, crashes and recovery are stuttering or single ledger steps.  `AgentRuntime`
implements it for its one run (`KeepsLedger`), which ties the two: the runtime uses
the service in no way the ledger does not allow.  In the same way `ReconGraph` says which calls on a
snapshot the service accepts, and `ReconIngestion` is shown to make no other
(`AcceptedByService`): each step of the ingestor and each hypothesis stored is, under the mapping of its
graph to identified assets, edges and observations, one call of `ReconGraph` whose checks pass.
The check is worth it because the ingestor returns its first error and the run then fails.

## 3. Runs

| Run | Instance | Shows |
|---|---|---|
| `service` | 1 run, threads `agent` and `ui`, 1 result, 1 evidence item, clock to 2, 1 step, 4 events | `TypeOK`; what is in memory without the lock held is on disk (`ExposedIsDurable`); an ended run has one kind of ending event, the one of its status, and after it only one evaluation of a completed run, whatever kinds of events callers append before it (`LogTellsStatus`); a completed run cites evidence it has, of results it has (`OutputIsBacked`); no step takes back anything committed (`HistoryOnlyGrows`) |
| `service_two_runs` | 2 runs competing for the ids of 1 result, 1 model call and 1 evidence item, clock to 1, 3 events | the checks in memory imply the keys of the tables, also after a restart (`AcceptedIsStorable`); no call is served while a run of the last process is Running (`RecoveredBeforeServing`); `ImplementsLedger` |
| `timestamps` | as `service` | **violated**: the log is not ordered by timestamp |
| `scope_guard` | 2 projects, one asked for with rates 1 and 2, the other with 1; 2 runs and the window; window and pause of 2 ticks, a nap of 1 tick with 2 retries; 4 ticks | `RateBounded`, `QueueBounded`; a request is refused only when the grants of the last window already reach its rate (`DenialJustified`); a request given up after the pause, or a path after all its naps, means that somebody was granted a request of that project in the meantime, or that the rate is zero (`RetryRefusedWhenContended`) |
| `agent` | 2 executions of one run, unlimited model calls as the window sets it (`HexHunt/src/App.tsx:94`), 4 steps, 1 failed save, 1 restart | `TypeOK`; two executions never both drive the run (`OneDriver`); after an ending from outside a thread sends at most one more model call or tool execution (`OneLateEffect`); the steps of the log never go backward nor beyond the usage, though most calls compare them with nothing (`StepsOrdered`); a completed run has a result of every tool it started, and its usage counts every request that tools of one request at most have sent (`ToolsAnswered`); a Running run has a driver, unless a save failed or the window started it by itself (`RunningIsAttended`); the log never shows more than three rejections without a tool result between them, nor an action after the third (`StreakBounded`); `KeepsLedger` |
| `agent_liveness` | 2 executions, 2 model calls, up to 2 attempts per answer, 1 failed save, no restart, `FairSpec` | the requests of all attempts, those not committed yet included, stay within the limit, apart from one call a tool may make by itself per result (`BudgetKept`); every execution returns (`ExecutionReturns`); a run that is driven ends, unless a save fails (`DrivenRunEnds`) |
| `evaluated` | 1 execution, 1 restart | **violated**: a completed run nobody evaluates |
| `recon_graph` | 2 assets of 2 kinds and 2 spellings of one value, 2 edges of 1 kind, 1 observation, 1 hypothesis, 2 action ids, 11 decisions: right ones and ones wrong in one respect each | `KnownOnce`: no two assets with one id or one kind and value, no two edges with one meaning, after any merges; `Grounded`: every reference resolves, from a decision down to the assets; `Decided`: every candidate of a decision has exactly one score, what is selected has been scored, a step is decided once; `OnlyGrows`: nothing is forgotten, and an ended run's snapshot is final |
| `ingestion` | 20 results of the tools, which name the same host, pages and services in several spellings and under several kinds; 3 per run, 3 hypotheses stored per refresh, ended at any step | `AcceptedByService`; `OnlyStronger`: an asset keeps its identity and scope, loses no tag and no confidence; `Explained`: every asset but the target has an observation or an edge that leads to it; `SecondTimeAddsNothing`: a repeated result adds an observation only; `ConclusionsCited`: what is supported or refuted names the observation that did it; `HypothesesCurrent`: no hypothesis outlives its reason, none is stale unless 3 others are as urgent |
| `recon_loop` | a domain, 1 subdomain, 5 tools that succeed or fail, 2 failures, 1 deviation, 3 rejections, 1 earlier run that may end meanwhile, the real `MaxCandidates` | `FollowingIsAccepted`: an agent that follows the plan is rejected only for a call that was refused or failed; `FollowingCompletes`: its run comes to an end; `SelectedWasDone`: every selection has brought a result, unless its call was refused, failed or is under way; `NotRepeated`: a selected call is not executed again; `SelectedOnce`: no two selections are one action in two spellings; `WornOut`: what was done four times is recommended for a hypothesis only |
| `discovered_pages` | domain, certificates, probe and page analysis | **violated**: a discovered page is never analyzed |
| `proposals_window` | 8 ports, 4 subdomains, certificates and DNS only | **violated**: the run stops with work left |

*The bounds, and why they are enough.*  `RunService`: the calls look at one run
each and share only the lock, the ids and the clock, so one run with two threads gives
every interleaving of two calls, and two runs give every collision of ids.  A clock to 2
starts at 1, so it distinguishes earlier, equal and later; logged work stops at 4 events (`MaxEvents`; 3 in `service_two_runs`), after creation, start and two
pieces of work, but endings, evaluations and calls that log nothing are never cut off by the bound.  A model call behaves as a tool
result does for everything `service` asks, so there it is left to `service_two_runs`.  `ScopeGuard`: rate 2 makes "full" differ from "not empty", rate 1
on the same project makes the queue larger than the rate asked with, and 4 ticks are two
windows, so that grants expire at and across the boundary.
`Window` and `Pause` are equal in the run, the tightest case the assumption
`Window <= Pause` admits (1000 and 1050 ms in the code).  `AgentRuntime`: two
executions are what a second click produces; three would add only more of the second.
Four steps are more than the three rejections that exhaust the tolerance.  One
fault and one restart may come at any place.  `MaxSteps` bounds the step counter of the
run: in `agent`, whose budget is unlimited, it is what stops the loop; `agent_liveness`
is stopped by the budget instead and never by the bound (2 model calls, 3 steps).
Two attempts against two remaining calls make an answer that may spend more than is left.
`ReconGraph`: each check involves at most two elements of a kind.  `ReconIngestion`: one result
brings in, a second meets it under another name, and the third repeats the
first or contradicts it: the `CONSTRAINT` of the run lets a third result be the first again, the
certificates, or a validation of a page, one of the two results of which refutes what the other supports.  The list of 20 results has, for each pair of
kinds a host or URL may be known under, a result that names it so.  `MaxDerived` is 3, fewer than two
results give rise to, so that hypotheses do fall out of the list.  `ReconLoop`: the domain, a
subdomain and an archived page in two spellings are enough for every planner rule the five tools
serve, and 2 failures with 1 deviation for a failed call that is asked for again.

Deadlock is checked except in the `agent*`, `evaluated` and recon runs, where the
system may really stop: all executions have returned and the window is quiet, or the run has ended.
The symmetry sets permute executions, or runs and threads, which no definition tells
apart; they are used only with invariants, properties of single steps and refinement without
fairness, never with liveness.

*Fairness.*  `FairSpec` is weak fairness of `Proceeds(e)` for each execution: a thread
that can go on does.  The code justifies it: model calls and tools have time limits, the
lock of the service is held only for one save, and sleeps are finite.  Nothing is fair
about the commands, the failures or the restarts: the window need not act.
`ReconLoop` assumes the same of its one thread: `Fairness` is weak fairness of `Step`, written out
(a `Step` can be taken for as long as the run is Running, so either it is infinitely often not
Running, or `Step` is taken infinitely often), which spares TLC the evaluation of `ENABLED` on a plan.
`FollowingCompletes` is about agents that do not deviate, and needs no bound but that of failures.
Both liveness properties of the runtime need a limit on model calls: with `max_model_calls = 0`, as the
window sets it, the loop has no bound of its own, since refusals for the rate and tool calls
go round without counting as rejections.

## 4. What the violations show

- `timestamps`: `finish_run`, `start_run` and the commits read the clock before the lock
  and push their event uncompared; only `append_event` checks.  The log can go
  backward in time although `core/run_service.rs:1301` says
  "Events must preserve step and timestamp ordering."  Steps do stay ordered, not because
  the service sees to it but because one execution drives the run (`StepsOrdered` of `AgentRuntime`, proved).
- `evaluated`: completing and evaluating are two saved calls, and recovery looks only
  at Running runs.  `README.md:60` of the repository promises an evaluation with the answer.
- `discovered_pages`: the ingestor makes everything a page or script names (links, form
  actions, imports, endpoints) a subject of the observation of that page
  (`core/recon_ingestor.rs:1379`, `2171`), and the planner takes an asset for observed by a tool when any
  observation of that tool has it as a subject (`core/recon_planner.rs:1164`).  So a page found
  by its link counts as analyzed, and the rule for the tag `discovered_link` never proposes it,
  although the test at `core/recon_planner.rs:1762` is named
  `discovered_web_page_is_analyzed_once_before_the_agent_moves_on`; the test builds its page without such an
  observation.
- `proposals_window`: the planner looks at no more than 48 proposals
  (`core/recon_planner.rs:294`), counting those it then drops because the task lacks the tool.  With
  only certificate search and DNS, a few names with eight ports each fill the list, and the
  run stops with "none can be acted on" (`core/recon_planner.rs:540`) while later names are unresolved.

## 5. Proofs

For all values of the constants, under the assumptions the modules name
(`BoundsAssumption`, `SentinelAssumption`, `IdsAssumption`, `TimesAssumption`,
`RequestsAssumption`, `BudgetAssumption`, `OutputAssumption`, `InputsAssumption`:
bounds are numbers, sentinels are not values, the three sorts of ids are disjoint, the
pause, and the naps of a path together, are not shorter than the window, and the lists in the result of a
successful tool call are sequences, as `string_array` returns them; of what is in them nothing is assumed.
`ReconLoop` assumes as much of the primary URLs, the ports and what earlier runs selected; that its answers bring
sequences is `ListsBrought`, an assumption of the one theorem that needs it, which every state of the runs satisfies.)

| Theorem (module) | Says |
|---|---|
| `TypeCorrect`, `Durability`, `Storability`, `LogCorrect`, `OutputCorrect`, `HistoryGrows`, `RecoveryFirst` (`RunServiceProofs`) | every property of the two passing runs of the service |
| `Refinement` (`RunServiceProofs`) | `Spec => Ledger!Spec` |
| `TypeCorrect`, `RateNeverExceeded`, `QueuesStayShort`, `OneRetryIsEnough`, `RefusalsAreJustified` (`ScopeGuardProofs`) | every property of `scope_guard` |
| `TypeCorrect`, `OneDriverAtATime`, `LateEffectsBounded`, `StepOrder`, `NobodyWalksAway`, `Refinement` (`AgentRuntimeProofs`) | `OneDriver`, `OneLateEffect`, `StepsOrdered`, `RunningIsAttended`, `KeepsLedger` |
| `NothingUnanswered`, `StreaksEnd`, `LimitHolds` (`AgentRuntimeLogProofs`) | `ToolsAnswered`, `StreakBounded`, `BudgetKept` |
| `FollowingIsNeverRejected`, `SelectionsAreDone`, `SelectedIsNotRepeated`, `NothingIsSelectedTwice` (`ReconLoopProofs`) | `FollowingIsAccepted`, `SelectedWasDone`, `NotRepeated`, `SelectedOnce` |
| `WornOutIsLeft` (`ReconLoopProofs`) | `Spec /\ []ListsBrought => []WornOut` |
| `IngestionComplete` (`ReconIngestorProofs`) | of every result of every tool, on every graph: a step names an asset only after a step that ensured it; each asset it ensures is later observed or related to; each tag a hypothesis would rest on is followed by the observation to cite |
| `AllExplained`, `SecondTimeNothing`, `AllCited`, `AllCurrent`, `NeverWeaker` (`ReconIngestionProofs`) | `Explained`, `SecondTimeAddsNothing`, `ConclusionsCited`, `HypothesesCurrent`, `OnlyStronger` |
| `NothingRefused` (`ReconIngestionProofs`) | `AcceptedByService`: the ingestion refines `ReconGraph` |
| `NothingTwice`, `NothingLost` (`ReconIngestionProofs`) | no asset and no relation is known twice; no asset loses a tag or becomes something else |
| `TypeCorrect`, `NoTwins`, `NothingDangles`, `DecisionsAreScored`, `NothingForgotten` (`ReconGraphProofs`) | every property of `recon_graph` |

Each rests on a theorem `Invariance == Spec => []IInv` (`LogInvariance` for the log).

- *Service.*  The properties speak of the rows, the calls change memory.  `IInv`
  says that the two are equal when nobody holds the lock (`Clean`), how they differ
  while somebody does (`Dirty`: by one run, whose new record legally extends the row), what
  every single row looks like (`RowsFit`, by `RecordInv`), that ids of different runs are
  disjoint (`Apart`), and that the draft of `complete_run` stays backed (`DraftsBacked`:
  evidence never goes away, which is why giving up the lock is harmless).  A crash keeps
  it because the rows say everything; a failed save because of the clone.  `Recovering` says that what is left
  of the list recovery collected is all that is Running, which is why the end of its loop may let calls in.
- *Guard.*  `RateBounded` counts grants in any window of the history, the code only
  the queue.  `IInv` says that the queue is the tail of the history (`TailOf`), that
  what was dropped is older than a window (`Dropped`), that both are
  ordered in time (`Ordered`), and what a sleeper has seen: as long as nobody was granted
  anything since, the grants that refused it have expired by the time of its last question, which is
  `left` naps away (`Sleeper`, `Last`); each nap shortens the wait by one and `until` by as much,
  so the bound survives `RetryAgain`.  Grants as many apart
  as the largest rate then cannot both be in a queue.
- *Runtime.*  `OneDriver` needs what each place in the loop says about the run
  (`Started`, `Outcome`), since the status an execution read may be stale:
  only an execution whose own `start_run` was accepted goes on, and a run is started once.
  `Lateness` says where the thread can be once the run has ended and its one late effect is spent.
  `Tolerance` bounds the rejections by place.  `StepsOrdered` rests on `InStep`: from the commit of its model call on,
  the step an execution carries is the usage's, and between the question and the commit one more, because
  nobody else who could raise it drives the run.
- *Log of the runtime.*  The properties count events, the code counts in the local variables
  of one execution.  `LogInv` ties them place by place: between which calls the started tools
  exceed the results by one and the requests sent exceed those charged (`Accounted`), and that the
  streak of rejections at the end of the log is no longer than `rejections` (`Within`).  It is inductive
  only beside `OneDriver`: nobody else writes the log in between.  `BudgetInv` does
  the same for model calls: what an execution has spent and not committed fits what remains (`Pending`).
- *Recon.*  `Decided` follows from a count (`Checked`): the scores differ, each
  names a candidate, and there are as many as there are candidates, so every candidate is named
  (`ScoresCover`: an injection between finite sets of one size is onto).  `Grounded` holds because updates
  keep ids and nothing is removed.

- *Ingestion.*  The invariant has four layers, each of which needs the ones before it.
  `IInv` leaves open which steps a result brings: each of the four kinds of steps keeps the graph well formed and
  free of twins and retains every asset (`AppliedKeeps`).
  `Progress` is about the steps still to come, because between two of them `Explained` does not hold: an asset
  is appended before it is observed.  The steps refer only to what is known or will be by
  then (`Ready`), what they will ensure will be explained and observed (`Closed`), and what is known
  already is explained, and observed by every source its tags owe something to, or will be by a step to
  come (`Explainable`, `Owing`).
  When a result comes in, all this is `IngestionComplete`, proved tool by tool.
  `Conclusions` says that a hypothesis stored, or about to be, keeps its reason (a graph only gains tags and
  observations, so a reason does not go away), cites an observation when it has to, which `Owing` provides, and that no two
  hypotheses are the same; while they are being stored, those stored and those pending make up one choice
  of the most urgent.
  `Repetition` says that the effect of every step of every earlier result is there (`Done`), and stays there. The steps of a
  result depend on the graph, through the kind under which a name is already known; so it also says that a
  name once asked for is known from then on, under the kind it was found with, and therefore that a result ingested
  again has the same steps.  Certainty needs `Corroboration`: tags that have had their effect have none the
  second time.
- *Refinement of the snapshot.*  Assets, relations and observations of the ingestion become those of
  `ReconGraph` by giving each its place and each value its folded spelling (`StoredAssets`, `StoredRelations`,
  `StoredObservations`, `Canonical`).  An accepted call is then found for each step: `ensure` is an append
  or an update, according to `Unique`; `relate` and `observe` find the ends that `Ready`
  promises; a hypothesis about to be stored differs from all stored ones by `Conclusions`.
- *Sequences.*  The steps of a result are concatenations over lists of any length.  What holds of them is proved by
  induction over the length, in the form of a statement about the set of lengths for which it holds
  (`SetInduction`), from which follows what `FlattenSeq` is made of (`Flattened`).
- *Loop.*  For every planner constant, any results of tools and any graph: `IInv` says that the
  selections are the recorded calls (by a count that grows with `asked`), that all of them differ
  in normalized spelling, that a call about to be executed was not recorded by an earlier
  one, and that without deviations the rejections are no more than the failures.  These steps need of the planner
  only that a candidate is not equivalent to a selection and that a
  recommendation is a candidate; both are proved from `Plan`.  `SelectedWasDone` is a count of its own (`DoneInv`): each
  call that is recorded either ends the phase by one of the three outcomes or is under way.
- *Worth.*  `WornOut` needs the whole planner.  Every proposal, of whatever asset or hypothesis, is about an asset of
  the graph, is at most of low impact, and gains more than 75 only as a probe (`Modest`, proved for each list of proposals
  up to `ProposalsFair`).  From there it is arithmetic: nothing modest is worth more than 260 (`WorthBounded`), four
  repetitions cost 100 and the novelty, and `MinScore` is 180, so only a bonus can make up for it (`WornAction`).  What the planner is
  given must be right for that, which is a second invariant (`Wearing`): each asset has a confidence, each hypothesis is about
  an asset that is there, and the memory is a list.  An answer keeps it because the steps it brings are `Complete` (`BuiltFits`)
  and the hypotheses are drawn from the graph they led to (`RefreshedFit`).

Only model-checked: the liveness properties (`ExecutionReturns`, `DrivenRunEnds`,
`FollowingCompletes`; fairness is out of the prover's reach).  The invariants of all passing runs and the
refinements are proved.  So that they could be, filters are written `Those`, with `FlattenSeq`, where one would write
`SelectSeq`, and the steps of an answer are applied by a recursive function (`Built`): `SelectSeq`, `SortSeq` and the folds
of the library are recursive operators or arguments the prover cannot look into.

## 6. What is left out of the modules, and why

- Fresh ids are fresh (they are UUIDs), locks are never poisoned (no code panics
  while it holds one), and the wall clock does not go backward.  If it did, the
  checks of usage and commits would refuse the call, and the runtime's `?` would leave the run
  Running until the next restart, which is the same as a failed save in the model.
- The scripted agent and `FakeToolExecutor` exist for tests.  `BudgetExhausted` is an
  ending the service offers and no caller outside tests uses; it is in `RunService` and the ledger.
- Of a task's budget only the limit on model calls is enforced by the code in the loop;
  steps, requests, tokens and duration are shown to the model as advice, and are data here.
- The guard bounds grants, not the moment at which a request leaves.
- A tool that sends several requests and breaks off counts as the code counts it.
- Left to data: prompts, parsing of answers, headers and bodies, parsers of recon
  tools (`recon_tools.rs`, `recon_analysis.rs`: pure functions of one response; their results are what the
  ingestion runs enumerate), scores of the evaluator, redaction, paging of views, wording,
  metadata and times in the recon snapshot, and the numbers of an observation that nobody reads.
- In `ReconGraph` the evidence ids are left out because the service does not check them, and no property is about
  them: their one caller passes on what `append_evidence_recorded` has just returned, so that they exist
  holds by the shape of the code.
- The name of an authentication scheme, which becomes part of an asset's value, is not folded in case by `ReconIngestor`; `ProbeUrls` of `ReconPlanner` lists
  ports in the order of the scope, not sorted; `Refreshed` of `ReconLoop` has no cap of 300 hypotheses (its graphs give
  rise to a few; the cap is `MaxDerived` of `ReconIngestion`).  A decision's mode, coverage and focus, which only
  the prompt and the window read, are left out of `Plan`.
- `ReconLoop` has the five tools its run names in `World`; the planner's rules for the others are in
  `ReconPlanner` and are not exercised by a run.  A call that is out of scope ends the run
  in `AgentRuntime` and is not repeated there.  The age limit of the memory is left out; by default there is none.
- The critic reads a finished snapshot and words what it finds.
- Runs the code really leaves behind are in the model: a run whose save failed, or that
  the window started without executing it, stays Running until the next restart; and
  `configuration_failure` may fail a run that another execution has just started.

- Not modelled: the browser vault (a map behind a lock, each call atomic) and the capture of
  pages by an external process; the credential store and redaction (no protocol of several
  steps); run views; the local lab (a server for tests); the Bench application, a
  second client of the run service that makes no call in a new way and whose own state is a busy flag, which a drop guard
  clears; migrations and encoding of rows.

## 7. Order of work

The modules were written in the order in which they rest on each other: `RunLedger` and
`RunService`, because everything needs durable runs; `ScopeGuard`; `AgentRuntime`, which uses both;
`ReconGraph`; then `ReconAssets`, `ReconIngestor` and `ReconCorrelator` with `ReconIngestion` over
`ReconGraph`; `ReconPlanner` and `ReconLoop`, which compose planner, ingestor, correlator and
memory; the paced retries of content discovery in `ScopeGuard`.  What would add most next:

1. the retry loop of `ModelProvider` as a module of its own, shown to implement `Ask`: which error
   is retried, and that an error which is not is returned at once;
2. `ReconLoop` with the tools for APIs and scripts, whose assets (a server of an API
   description, an imported script) share the fate of the discovered pages.
