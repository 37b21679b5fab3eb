----------------------------- MODULE AgentRuntime -----------------------------
(***************************************************************************)
(* The agent runtime: the thread that drives one run.  It asks the model   *)
(* for one action at a time, validates it, prepares and executes the tool  *)
(* it names, commits the result and ends the run.                          *)
(*                                                                         *)
(* The window may start, cancel and execute the same run at any time, so   *)
(* several executions of it may be under way; between any two calls of the *)
(* service the run may have ended.  The service is taken as the ledger it  *)
(* implements (RunLedger): one call, one atomic and durable step, refused  *)
(* when the run is not in the status the call needs.  A call may also fail *)
(* because its save did.                                                   *)
(*                                                                         *)
(* The agent is the one the application runs: driven by a model.  What the *)
(* model answers, and what tools find, is chosen freely.                   *)
(***************************************************************************)
EXTENDS Integers, Sequences, FiniteSets

CONSTANTS
  Executors,     (* threads that execute_agent_run spawned for the run      *)
  MaxModelCalls, (* TaskBudget::max_model_calls; zero is no limit           *)
  MaxAttempts,   (* ModelConfig::max_attempts: requests per answer          *)
  MaxRequests,   (* most HTTP requests one execution of a tool sends        *)
  HttpTask,      (* the task has an HTTP target and tools: evidence needed  *)
  NoOutput,      (* the None of Run::final_output                           *)
  MaxSteps,      (* bound: answers of the model                             *)
  MaxFaults,     (* bound: failed saves                                     *)
  MaxRestarts    (* bound: restarts of the application                      *)

ASSUME BudgetAssumption ==
  /\ MaxModelCalls \in Nat /\ MaxAttempts \in Nat \ {0} /\ MaxRequests \in Nat
  /\ MaxSteps \in Nat /\ MaxFaults \in Nat /\ MaxRestarts \in Nat
  /\ HttpTask \in BOOLEAN

Steps == 0 .. MaxSteps

ASSUME OutputAssumption == \A cited \in SUBSET Steps : cited # NoOutput

MAX_CONSECUTIVE_MODEL_REJECTIONS == 3

VARIABLES
  run,       (* the run as the service keeps it                             *)
  log,       (* its events                                                  *)
  pc,        (* per executor: the call it makes next                        *)
  local,     (* per executor: its local variables                           *)
  faults,    (* failed saves so far                                         *)
  restarts,  (* restarts so far                                             *)
  byWindow,  (* the window started the run with start_run (history)         *)
  sent,      (* HTTP requests really sent (history)                         *)
  late       (* model calls and tool executions begun after the end         *)

vars == <<run, log, pc, local, faults, restarts, byWindow, sent, late>>

Endings == {"Completed", "Failed", "Cancelled", "ScopeBlocked"}

EndEvent == [Completed |-> "RunCompleted", Failed |-> "RunFailed",
             Cancelled |-> "RunCancelled", ScopeBlocked |-> "ScopeBlocked"]

(* The evidence of a run is named by the step that recorded it.            *)
Run == [status : {"Absent", "Created", "Running"} \cup Endings,
        steps : Steps, calls : Nat, requests : Nat,
        evidence : SUBSET Steps,
        output : {NoOutput} \cup SUBSET Steps,
        evaluated : BOOLEAN]

(* The kinds of events; a rejection for the rate has a name of its own.    *)
EventKinds == {"RunCreated", "RunStarted", "ModelCalled", "ActionReceived", "ActionRejected",
               "RateLimited", "ToolStarted", "ToolCompleted", "EvidenceRecorded",
               "EvaluationCompleted"} \cup {EndEvent[status] : status \in Endings}

Event == [kind : EventKinds, step : Nat]

(* What the model answered: an error, an action that planning or           *)
(* validation refuses, a tool call, or a finish.                           *)
Answers == {"error", "invalid", "tool", "finish"}

(* What a tool brought back.                                               *)
Results == {"success", "retryable", "final"}

(* The step of an iteration is computed at the head of the loop; all calls *)
(* that iteration makes are given it.                                      *)
Local == [step : Nat, rejections : 0 .. MAX_CONSECUTIVE_MODEL_REJECTIONS,
          spent : Nat, answer : Answers, result : Results, counted : Nat, called : Nat]

Fresh == [step |-> 0, rejections |-> 0, spent |-> 0, answer |-> "error", result |-> "final",
          counted |-> 0, called |-> 0]

(* The calls of the service by an execution that started the run.          *)
Driving == {"seed", "head", "commit", "receive", "judge", "reject", "prepare",
            "prepare_again", "limited", "blocked", "block", "announce", "execute",
            "store", "record", "ingest", "fail", "complete", "evaluate"}

Places == {"idle", "configure", "misconfigured", "conf_start", "conf_fail", "check",
           "start", "returned"} \cup Driving

TypeOK ==
  /\ run \in Run
  /\ log \in Seq(Event)
  /\ pc \in [Executors -> Places]
  /\ local \in [Executors -> Local]
  /\ faults \in Nat /\ restarts \in Nat /\ byWindow \in BOOLEAN
  /\ sent \in Nat /\ late \in Nat

-----------------------------------------------------------------------------
Goto(e, place) == pc' = [pc EXCEPT ![e] = place]

Ended == run.status \in Endings

Logs(kind, step) == log' = Append(log, [kind |-> kind, step |-> step])

(* finish_run: the event of an ending is of the step the run is in.        *)
Finishes(status) ==
  /\ run' = [run EXCEPT !.status = status]
  /\ Logs(EndEvent[status], run.steps)

(* An effect outside of the process, which ought to be for a run that has  *)
(* not ended.                                                              *)
Begins == late' = late + (IF Ended THEN 1 ELSE 0)

OnlyMoves == UNCHANGED <<run, log, local, faults, restarts, byWindow, sent, late>>

Outside == UNCHANGED <<faults, restarts, byWindow, sent, late>>

(* A call of the service that a Running run is needed for.                 *)
Calls(e, place) == pc[e] = place /\ run.status = "Running"

(* append_event refuses a step beyond the usage's or before the last one.  *)
KeepsOrder(step) ==
  /\ step <= run.steps
  /\ log # <<>> => log[Len(log)].step <= step

(* record_event, with the step of the iteration.                           *)
Records(e, place, kind) ==
  /\ Calls(e, place)
  /\ KeepsOrder(local[e].step)
  /\ Logs(kind, local[e].step)

-----------------------------------------------------------------------------
(* execute_openrouter_agent_run.                                           *)

Execution(e) ==
  /\ pc[e] = "idle" /\ run.status # "Absent"
  /\ Goto(e, "configure")
  /\ OnlyMoves

(* ModelConfig::from_env, OpenRouterProvider::new, HttpRequestTool::new.   *)
Configure(e) ==
  /\ pc[e] = "configure"
  /\ \E place \in {"check", "misconfigured"} : Goto(e, place)
  /\ OnlyMoves

(* configuration_failure looks at the status first ...                     *)
Misconfigured(e) ==
  /\ pc[e] = "misconfigured"
  /\ Goto(e, IF run.status = "Created" THEN "conf_start" ELSE "returned")
  /\ OnlyMoves

(* ... then starts the run, and fails it whether it could start it or not. *)
ConfStart(e) ==
  /\ pc[e] = "conf_start" /\ run.status = "Created"
  /\ run' = [run EXCEPT !.status = "Running"]
  /\ Logs("RunStarted", run.steps)
  /\ Goto(e, "conf_fail")
  /\ UNCHANGED local /\ Outside

ConfFail(e) ==
  /\ Calls(e, "conf_fail") /\ Finishes("Failed")
  /\ Goto(e, "returned")
  /\ UNCHANGED local /\ Outside

-----------------------------------------------------------------------------
(* execute_internal, up to the loop.                                       *)

Check(e) ==
  /\ pc[e] = "check"
  /\ Goto(e, IF run.status = "Created" THEN "start" ELSE "returned")
  /\ OnlyMoves

(* Mutant: start_run does not look at the status once more.                *)
StartChecked(e) ==
  /\ pc[e] = "start" /\ run.status \in {"Created", "Running"}
  /\ run' = [run EXCEPT !.status = "Running"]
  /\ Logs("RunStarted", run.steps)
  /\ Goto(e, "seed")
  /\ UNCHANGED local /\ Outside

Start(e) ==
  /\ pc[e] = "start" /\ run.status = "Created"
  /\ run' = [run EXCEPT !.status = "Running"]
  /\ Logs("RunStarted", run.steps)
  /\ Goto(e, "seed")
  /\ UNCHANGED local /\ Outside

(* seed_task calls the service only for a target with a host.              *)
Seed(e) ==
  /\ pc[e] = "seed"
  /\ Goto(e, "head")
  /\ local' = [local EXCEPT ![e] = Fresh]
  /\ UNCHANGED <<run, log>> /\ Outside

-----------------------------------------------------------------------------
(* The loop: an answer of the model.                                       *)

(* Mutant: attempts are not held to what remains, once anything does.      *)
RemainingAny ==
  IF MaxModelCalls = 0 \/ run.calls < MaxModelCalls THEN MaxAttempts ELSE 0

(* remaining_budget, as far as a request for an answer can use it up.      *)
Remaining ==
  CASE MaxModelCalls = 0 -> MaxAttempts
    [] run.calls < MaxModelCalls -> MaxModelCalls - run.calls
    [] OTHER -> 0

(* generate_next_action: no request without budget, else one to            *)
(* max_attempts.  The status of the run is not looked at.                  *)
AskNothing(e) ==
  /\ pc[e] = "head" /\ Remaining = 0
  /\ local' = [local EXCEPT ![e] = [local[e] EXCEPT !.step = run.steps + 1,
                                                     !.answer = "error", !.spent = 0]]
  /\ Goto(e, "commit")
  /\ UNCHANGED <<run, log>> /\ Outside

Ask(e) ==
  /\ pc[e] = "head"
  /\ \E k \in 1 .. MaxAttempts, answer \in Answers :
       /\ k <= Remaining
       /\ local' = [local EXCEPT ![e] = [local[e] EXCEPT !.step = run.steps + 1,
                                                          !.answer = answer, !.spent = k]]
  /\ Begins
  /\ Goto(e, "commit")
  /\ UNCHANGED <<run, log, faults, restarts, byWindow, sent>>

(* commit_model_call takes no usage that goes back, and logs its event     *)
(* with the step it is given, which it compares with nothing.              *)
Committed(e) == Calls(e, "commit") /\ run.steps <= local[e].step /\ local[e].step <= MaxSteps

(* Mutants: the calls are not charged; an error is returned at once.       *)
CommitFree(e) ==
  /\ Committed(e)
  /\ run' = [run EXCEPT !.steps = local[e].step]
  /\ Logs("ModelCalled", local[e].step)
  /\ Goto(e, IF local[e].answer = "error" THEN "fail" ELSE "receive")
  /\ UNCHANGED local /\ Outside

CommitReturning(e) ==
  /\ Committed(e)
  /\ run' = [run EXCEPT !.steps = local[e].step, !.calls = @ + local[e].spent]
  /\ Logs("ModelCalled", local[e].step)
  /\ Goto(e, IF local[e].answer = "error" THEN "returned" ELSE "receive")
  /\ UNCHANGED local /\ Outside

(* commit_model_call, also for an error; then fail_run if it was one.      *)
Commit(e) ==
  /\ Committed(e)
  /\ run' = [run EXCEPT !.steps = local[e].step, !.calls = @ + local[e].spent]
  /\ Logs("ModelCalled", local[e].step)
  /\ Goto(e, IF local[e].answer = "error" THEN "fail" ELSE "receive")
  /\ UNCHANGED local /\ Outside

(* The decision and ActionReceived; planning and validate_action.          *)
Receive(e) ==
  /\ Records(e, "receive", "ActionReceived")
  /\ Goto(e, CASE local[e].answer = "tool" -> "prepare"
               [] local[e].answer = "finish" -> "judge"
               [] OTHER -> "reject")
  /\ UNCHANGED <<run, local>> /\ Outside

(* Mutant: one rejection more is tolerated.                                *)
RejectLate(e) ==
  /\ Records(e, "reject", "ActionRejected")
  /\ local' = [local EXCEPT ![e].rejections = @ + 1]
  /\ Goto(e, IF local[e].rejections < MAX_CONSECUTIVE_MODEL_REJECTIONS
             THEN "head" ELSE "fail")
  /\ UNCHANGED run /\ Outside

(* ActionRejected: tolerated until there are too many in a row.            *)
Reject(e) ==
  /\ Records(e, "reject", "ActionRejected")
  /\ local' = [local EXCEPT ![e].rejections = @ + 1]
  /\ Goto(e, IF local[e].rejections + 1 < MAX_CONSECUTIVE_MODEL_REJECTIONS
             THEN "head" ELSE "fail")
  /\ UNCHANGED run /\ Outside

-----------------------------------------------------------------------------
(* The loop: a tool.                                                       *)

(* ToolExecutor::prepare: arguments and scope; RATE_LIMITED sleeps once.   *)
Prepare(e) ==
  /\ pc[e] \in {"prepare", "prepare_again"}
  /\ \E place \in {"announce", "reject", "blocked",
                   IF pc[e] = "prepare" THEN "prepare_again" ELSE "limited"} :
       Goto(e, place)
  /\ OnlyMoves

(* Refused for the rate twice: rejected, but not counted.                  *)
Limited(e) ==
  /\ Records(e, "limited", "RateLimited")
  /\ Goto(e, "head")
  /\ UNCHANGED <<run, local>> /\ Outside

Blocked(e) ==
  /\ Records(e, "blocked", "ActionRejected")
  /\ Goto(e, "block")
  /\ UNCHANGED <<run, local>> /\ Outside

BlockScope(e) ==
  /\ Calls(e, "block") /\ Finishes("ScopeBlocked")
  /\ Goto(e, "returned")
  /\ UNCHANGED local /\ Outside

Announce(e) ==
  /\ Records(e, "announce", "ToolStarted")
  /\ Goto(e, "execute")
  /\ UNCHANGED <<run, local>> /\ Outside

Brought(e, result, counted, called) ==
  /\ local' = [local EXCEPT ![e] =
       [local[e] EXCEPT !.result = result, !.counted = counted, !.called = called]]
  /\ Goto(e, "store")

(* A tool that answers counts its requests, and the model call a visual    *)
(* tool makes besides; one that breaks off after it started a request      *)
(* counts one; one that breaks off before, for a reason that may pass,     *)
(* counts none and may be retried, else the run fails.                     *)
Execute(e) ==
  /\ pc[e] = "execute"
  /\ \E n \in 0 .. MaxRequests :
       /\ sent' = sent + n
       /\ \/ \E result \in Results : Brought(e, result, n, 0)
          \/ n = 1 /\ Brought(e, "success", n, 1)
          \/ Brought(e, "retryable", IF n > 0 THEN 1 ELSE 0, 0)
          \/ n = 0 /\ Goto(e, "fail") /\ UNCHANGED local
  /\ Begins
  /\ UNCHANGED <<run, log, faults, restarts, byWindow>>

(* Mutant: only a success is committed.                                    *)
StoreSuccess(e) ==
  /\ Calls(e, "store")
  /\ IF local[e].result = "success"
     THEN /\ run' = [run EXCEPT !.requests = @ + local[e].counted,
                                !.calls = @ + local[e].called]
          /\ Logs("ToolCompleted", local[e].step)
     ELSE UNCHANGED <<run, log>>
  /\ Goto(e, "record")
  /\ UNCHANGED local /\ Outside

(* commit_tool_result, of the usage as it is now.                          *)
Store(e) ==
  /\ Calls(e, "store")
  /\ run' = [run EXCEPT !.requests = @ + local[e].counted, !.calls = @ + local[e].called]
  /\ Logs("ToolCompleted", local[e].step)
  /\ Goto(e, "record")
  /\ UNCHANGED local /\ Outside

(* record_tool_result: a success is evidence, for most tools.              *)
Record(e) ==
  /\ Calls(e, "record") /\ local[e].result = "success"
  /\ run' = [run EXCEPT !.evidence = @ \cup {run.steps}]
  /\ Logs("EvidenceRecorded", local[e].step)
  /\ Goto(e, "ingest")
  /\ UNCHANGED local /\ Outside

RecordNothing(e) ==
  /\ pc[e] = "record"
  /\ Goto(e, "ingest")
  /\ OnlyMoves

(* ingest_tool_result, which need not call the service, and what follows:  *)
(* the counter is reset, and what the iteration bound goes out of scope.   *)
Ingest(e) ==
  /\ pc[e] = "ingest"
  /\ IF local[e].result = "final"
     THEN Goto(e, "fail") /\ UNCHANGED local
     ELSE Goto(e, "head") /\ local' = [local EXCEPT ![e] = Fresh]
  /\ UNCHANGED <<run, log>> /\ Outside

-----------------------------------------------------------------------------
(* The loop: the end.                                                      *)

(* validate_final_output_evidence: an HTTP task needs evidence; an answer  *)
(* may be refused for other reasons as well.                               *)
Judge(e) ==
  /\ pc[e] = "judge"
  /\ \/ (HttpTask => run.evidence # {}) /\ Goto(e, "complete")
     \/ Goto(e, "reject")
  /\ OnlyMoves

Complete(e) ==
  /\ Calls(e, "complete")
  /\ \E cited \in SUBSET run.evidence :
       /\ HttpTask => cited # {}
       /\ run' = [run EXCEPT !.status = "Completed", !.output = cited]
  /\ Logs(EndEvent["Completed"], run.steps)
  /\ Goto(e, "evaluate")
  /\ UNCHANGED local /\ Outside

Evaluate(e) ==
  /\ pc[e] = "evaluate"
  /\ run' = [run EXCEPT !.evaluated = TRUE]
  /\ Logs("EvaluationCompleted", run.steps)
  /\ Goto(e, "returned")
  /\ UNCHANGED local /\ Outside

Fail(e) ==
  /\ Calls(e, "fail") /\ Finishes("Failed")
  /\ Goto(e, "returned")
  /\ UNCHANGED local /\ Outside

-----------------------------------------------------------------------------
(* A call that returns an error.                                           *)

CallsForCreated == {"conf_start", "start"}

CallsForRunning == {"conf_fail", "seed", "commit", "receive", "reject", "limited", "blocked",
                    "block", "announce", "store", "record", "ingest", "fail", "complete"}

(* The calls that record_event checks the step of.                         *)
Recording == {"receive", "reject", "limited", "blocked", "announce"}

Refused(e) ==
  \/ pc[e] \in CallsForCreated /\ run.status # "Created"
  \/ pc[e] \in CallsForRunning /\ run.status # "Running"
  \/ pc[e] = "commit" /\ local[e].step < run.steps
  \/ pc[e] \in Recording /\ ~KeepsOrder(local[e].step)

(* Mutant: a result that cannot be kept is dropped, and the loop goes on.  *)
AfterwardsDropped(place) ==
  CASE place = "conf_start" -> "conf_fail"
    [] place \in {"store", "record", "ingest"} -> "head"
    [] OTHER -> "returned"

(* Where the error goes: configuration_failure ignores it, a result that   *)
(* cannot be kept fails the run, every other error is returned as it is.   *)
Afterwards(place) ==
  CASE place = "conf_start" -> "conf_fail"
    [] place \in {"store", "record", "ingest"} -> "fail"
    [] OTHER -> "returned"

CallRefused(e) ==
  /\ Refused(e)
  /\ Goto(e, Afterwards(pc[e]))
  /\ OnlyMoves

SaveFails(e) ==
  /\ pc[e] \in CallsForCreated \cup CallsForRunning \cup {"evaluate"}
  /\ ~Refused(e)
  /\ faults < MaxFaults
  /\ faults' = faults + 1
  /\ Goto(e, Afterwards(pc[e]))
  /\ UNCHANGED <<run, log, local, restarts, byWindow, sent, late>>

-----------------------------------------------------------------------------
(* The window, and the application.                                        *)

CreateCommand ==
  /\ run.status = "Absent"
  /\ run' = [run EXCEPT !.status = "Created"]
  /\ Logs("RunCreated", run.steps)
  /\ UNCHANGED <<pc, local>> /\ Outside

StartCommand ==
  /\ run.status = "Created"
  /\ run' = [run EXCEPT !.status = "Running"]
  /\ Logs("RunStarted", run.steps)
  /\ byWindow' = TRUE
  /\ UNCHANGED <<pc, local, faults, restarts, sent, late>>

CancelCommand ==
  /\ run.status \in {"Created", "Running"}
  /\ Finishes("Cancelled")
  /\ UNCHANGED <<pc, local>> /\ Outside

(* Mutant: recovery fails a run that was never started, too.               *)
RestartAnew ==
  /\ restarts < MaxRestarts
  /\ restarts' = restarts + 1
  /\ IF run.status \in {"Created", "Running"} THEN Finishes("Failed") ELSE UNCHANGED <<run, log>>
  /\ pc' = [e \in Executors |-> "idle"]
  /\ local' = [e \in Executors |-> Fresh]
  /\ UNCHANGED <<faults, byWindow, sent, late>>

(* A crash, and the recovery of the next process, which serves no call     *)
(* before it is done (RunService!RecoveredBeforeServing).                  *)
Restart ==
  /\ restarts < MaxRestarts
  /\ restarts' = restarts + 1
  /\ IF run.status = "Running" THEN Finishes("Failed") ELSE UNCHANGED <<run, log>>
  /\ pc' = [e \in Executors |-> "idle"]
  /\ local' = [e \in Executors |-> Fresh]
  /\ UNCHANGED <<faults, byWindow, sent, late>>

Init ==
  /\ run = [status |-> "Absent", steps |-> 0, calls |-> 0, requests |-> 0,
            evidence |-> {}, output |-> NoOutput, evaluated |-> FALSE]
  /\ log = <<>>
  /\ pc = [e \in Executors |-> "idle"]
  /\ local = [e \in Executors |-> Fresh]
  /\ faults = 0 /\ restarts = 0 /\ byWindow = FALSE /\ sent = 0 /\ late = 0

(* What an execution does once it is under way.                            *)
Proceeds(e) ==
  \/ Configure(e) \/ Misconfigured(e) \/ ConfStart(e) \/ ConfFail(e)
  \/ Check(e) \/ Start(e) \/ Seed(e)
  \/ AskNothing(e) \/ Ask(e) \/ Commit(e) \/ Receive(e) \/ Reject(e)
  \/ Prepare(e) \/ Limited(e) \/ Blocked(e) \/ BlockScope(e) \/ Announce(e)
  \/ Execute(e) \/ Store(e) \/ Record(e) \/ RecordNothing(e) \/ Ingest(e)
  \/ Judge(e) \/ Complete(e) \/ Evaluate(e) \/ Fail(e)
  \/ CallRefused(e)

Next ==
  \/ \E e \in Executors : Execution(e) \/ Proceeds(e) \/ SaveFails(e)
  \/ CreateCommand \/ StartCommand \/ CancelCommand \/ Restart

Spec == Init /\ [][Next]_vars

(* A thread runs on: model calls and tools have timeouts, the lock is held *)
(* briefly. Nothing makes the window act or the application restart.       *)
FairSpec == Spec /\ \A e \in Executors : WF_vars(Proceeds(e))

-----------------------------------------------------------------------------
(* Correctness.                                                            *)

Drives(e) == pc[e] \in Driving

(* However often the run is executed at once, one execution drives it: the *)
(* look at the status before start_run is not what makes sure of it.       *)
OneDriver == \A e, f \in Executors : Drives(e) /\ Drives(f) => e = f

(* Once the run has ended, by a cancellation for instance, its execution   *)
(* reaches out at most once more, by a model call or by a tool, although   *)
(* neither the head of the loop nor the tools look at the status.          *)
OneLateEffect == late <= 1

(* The log is ordered by step and within the usage, although only          *)
(* record_event compares steps: the commits and the recorder write the one *)
(* their iteration computed before it asked the model, whatever happened   *)
(* to the run meanwhile.                                                   *)
StepsOrdered ==
  /\ \A i, j \in DOMAIN log : i < j => log[i].step <= log[j].step
  /\ \A i \in DOMAIN log : log[i].step <= run.steps

Positions(kinds) == {i \in DOMAIN log : log[i].kind \in kinds}

(* The log never shows four rejections without a tool result or an end,    *)
(* nor three and then another action, wherever the rejections came from.   *)
(* Rate limits do not count.                                               *)
StreakBounded ==
  \A i, j \in Positions({"ActionRejected"}) :
    LET between == {k \in Positions({"ActionRejected", "ToolCompleted"}) : i <= k /\ k <= j}
    IN  (\A k \in between : log[k].kind = "ActionRejected") =>
          /\ Cardinality(between) <= MAX_CONSECUTIVE_MODEL_REJECTIONS
          /\ Cardinality(between) = MAX_CONSECUTIVE_MODEL_REJECTIONS =>
               Positions({"ActionReceived"}) \cap {k \in DOMAIN log : k > j} = {}

(* A completed run has the result of every tool it started, and every      *)
(* request of a tool that sends one at most is in its usage, whatever      *)
(* tools broke off and whatever was retried.                               *)
ToolsAnswered ==
  run.status = "Completed" =>
    /\ Cardinality(Positions({"ToolStarted"})) = Cardinality(Positions({"ToolCompleted"}))
    /\ MaxRequests <= 1 => run.requests = sent

(* The limit on model calls holds for the requests of all attempts, those  *)
(* an execution has not committed yet included; only the call a visual     *)
(* tool makes by itself may go beyond it, one call for one result.         *)
BudgetKept ==
  MaxModelCalls # 0 =>
    \A e \in Executors :
      run.calls + (IF pc[e] = "commit" THEN local[e].spent ELSE 0)
        <= MaxModelCalls + Cardinality(Positions({"ToolCompleted"}))

(* A Running run is looked after by somebody, unless the window started it *)
(* by itself or a save failed: no error path leaves it behind.             *)
RunningIsAttended ==
  run.status = "Running" /\ ~byWindow /\ faults = 0 =>
    \E e \in Executors : Drives(e) \/ pc[e] = "conf_fail"

(* "The run finishes with an answer, evidence links, usage, and an         *)
(* evaluation." (README.md:60), stated of a run nobody works on any more.  *)
FinishedIsEvaluated ==
  run.status = "Completed" /\ (\A e \in Executors : ~Drives(e)) => run.evaluated

(* The runtime is a client the ledger allows.                              *)
It == {"it"}

Ledger == INSTANCE RunLedger WITH
  Runs        <- It,
  EvidenceIds <- Steps,
  status      <- [r \in It |-> run.status],
  steps       <- [r \in It |-> run.steps],
  evidence    <- [r \in It |-> run.evidence],
  output      <- [r \in It |-> run.output],
  evaluated   <- [r \in It |-> run.evaluated]

KeepsLedger == Ledger!Spec

(* Every execution returns, if the task limits its model calls.            *)
ExecutionReturns ==
  \A e \in Executors : pc[e] \notin {"idle", "returned"} ~> pc[e] \in {"idle", "returned"}

(* A run that is driven ends, unless a save fails on the way.              *)
DrivenRunEnds ==
  \A e \in Executors : Drives(e) ~> Ended \/ faults > 0
=============================================================================
