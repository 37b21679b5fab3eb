------------------------------ MODULE RunService ------------------------------
(***************************************************************************)
(* The run service: an in-memory store of run records behind one RwLock,   *)
(* every mutation of which is saved to the repository before the write     *)
(* lock is released, and undone when the save fails.                       *)
(*                                                                         *)
(* Several threads call it: the commands of the window and the thread that *)
(* executes an agent run.  A call reads the clock BEFORE it takes the      *)
(* lock, so the moment it stamps its event with and the moment it takes    *)
(* effect are two steps.  What a call does under the lock up to its save   *)
(* is one step, the outcome of the save another; a crash may come between. *)
(*                                                                         *)
(* Identifiers of events are fresh UUIDs (the duplicate check on them never*)
(* fires).  RunUsage keeps steps and duration, the two counters the        *)
(* service itself reads; the counters it only compares behave like steps.  *)
(* Run::current_step is always written together with usage.steps: one      *)
(* field stands for both.  The recon snapshot has a module of its own.     *)
(***************************************************************************)
EXTENDS Naturals, Sequences

CONSTANTS
  Runs,          (* run identifiers                                         *)
  Clients,       (* threads that call the service                           *)
  ResultIds,     (* identifiers of tool results                             *)
  CallIds,       (* identifiers of model calls                              *)
  EvidenceIds,   (* identifiers of evidence items                           *)
  NoOutput,      (* the None of Run::final_output                           *)
  NoDraft,       (* no completion is being prepared                         *)
  NoTxn,         (* nobody holds the write lock                             *)
  MaxClock,      (* bound: the clock stops here                             *)
  MaxSteps,      (* bound: largest step and duration a caller reports       *)
  MaxEvents      (* bound: longest event log a caller extends               *)

ASSUME BoundsAssumption ==
  MaxClock \in Nat /\ MaxSteps \in Nat /\ MaxEvents \in Nat

ASSUME SentinelAssumption ==
  /\ \A output \in SUBSET EvidenceIds : output # NoOutput
  /\ \A d \in [run : Runs, output : SUBSET EvidenceIds] : d # NoDraft
  /\ \A c \in Clients, r \in Runs : <<c, r>> # NoTxn

ASSUME IdsAssumption ==
  /\ ResultIds \cap CallIds = {}
  /\ (ResultIds \cup CallIds) \cap EvidenceIds = {}

VARIABLES
  mode,    (* "down", "recovering" (setup of the application) or "up"       *)
  store,   (* RunStore: the records and the ids in use, lost by a crash     *)
  disk,    (* the committed rows of the repository                          *)
  txn,     (* the write lock: <<thread, run>> between mutation and save     *)
  previous,(* the clone of the store the holder of the lock took            *)
  clock,   (* the wall clock, in milliseconds; 0 is never read              *)
  now,     (* per thread: the time read for the call under way, 0 if none   *)
  draft,   (* per thread: a completion whose evidence has been checked      *)
  interrupted (* the runs that recovery still has to fail                   *)

vars == <<mode, store, disk, txn, previous, clock, now, draft, interrupted>>

-----------------------------------------------------------------------------
(* The records.                                                            *)

Endings == {"Completed", "Failed", "Cancelled", "BudgetExhausted", "ScopeBlocked"}

Statuses == {"Absent", "Created", "Running"} \cup Endings

(* The event finish_run's callers log with each ending.                    *)
EndEvent == [Completed |-> "RunCompleted", Failed |-> "RunFailed",
             Cancelled |-> "RunCancelled", BudgetExhausted |-> "BudgetExhausted",
             ScopeBlocked |-> "ScopeBlocked"]

EndEvents == {EndEvent[s] : s \in Endings}

(* is_service_managed_event: the kinds append_event refuses. It takes all  *)
(* others from a caller, those of the commits and evaluations included;    *)
(* "Recorded" is any kind that only callers write.                         *)
ServiceManaged == {"RunCreated", "RunStarted"} \cup EndEvents

EventKinds == {"ModelCalled", "ToolCompleted", "EvidenceRecorded", "Recorded",
               "EvaluationCompleted"} \cup ServiceManaged

Event == [kind : EventKinds, at : Nat, step : Nat]

(* Evidence::source: a tool result or a model call (a Request source names *)
(* a request id found in a tool result: it counts as that result).         *)
Sources == ResultIds \cup CallIds

Evidence == [id : EvidenceIds, source : Sources]

Usage == [steps : Nat, duration : Nat]

Record == [status    : Statuses,
           started   : Nat,
           usage     : Usage,
           events    : Seq(Event),
           results   : SUBSET ResultIds,
           calls     : SUBSET CallIds,
           evidence  : SUBSET Evidence,
           output    : {NoOutput} \cup SUBSET EvidenceIds,
           evaluated : BOOLEAN]

Ids == ResultIds \cup CallIds \cup EvidenceIds

Missing == [status |-> "Absent", started |-> 0,
            usage |-> [steps |-> 0, duration |-> 0], events |-> <<>>,
            results |-> {}, calls |-> {}, evidence |-> {},
            output |-> NoOutput, evaluated |-> FALSE]

EvidenceOf(rec) == {e.id : e \in rec.evidence}

IdsOf(rec) == rec.results \cup rec.calls \cup EvidenceOf(rec)

EmptyStore == [runs |-> [r \in Runs |-> Missing], ids |-> {}]

InUse(rows) == UNION {IdsOf(rows[r]) : r \in Runs}

(* Mutant: the sets of ids in use start empty after a restart.             *)
LoadedForgetful(rows) == [runs |-> rows, ids |-> {}]

(* with_repository rebuilds the sets of ids in use from the rows it loads. *)
Loaded(rows) == [runs |-> rows, ids |-> InUse(rows)]

TypeOK ==
  /\ mode \in {"down", "recovering", "up"}
  /\ store \in [runs : [Runs -> Record], ids : SUBSET Ids]
  /\ disk \in [Runs -> Record]
  /\ txn \in {NoTxn} \cup (Clients \X Runs)
  /\ previous \in [runs : [Runs -> Record], ids : SUBSET Ids]
  /\ clock \in Nat
  /\ now \in [Clients -> Nat]
  /\ draft \in [Clients -> {NoDraft} \cup [run : Runs, output : SUBSET EvidenceIds]]
  /\ interrupted \in SUBSET Runs

-----------------------------------------------------------------------------
(* Checks the calls make under the lock.                                   *)

Transitions == ({"Created"} \X {"Running", "Cancelled"}) \cup ({"Running"} \X Endings)

(* Mutant: a run that has ended may end again.                             *)
MayTransitionAgain(from, to) ==
  from # "Absent" /\ to \in Endings \cup {"Running"}

MayTransition(from, to) == <<from, to>> \in Transitions

(* Mutant: updates are refused only of a run that does not exist.          *)
AcceptsUpdatesLate(rec) == rec.status # "Absent"

AcceptsUpdates(rec) == rec.status = "Running"

(* ensure_usage_is_monotonic: every counter of the proposal is as large.   *)
Monotonic(current, proposed) ==
  current.steps <= proposed.steps /\ current.duration <= proposed.duration

SourceExists(rec, source) == source \in rec.results \cup rec.calls

(* append_event looks at the last event of the log only.                   *)
KeepsOrder(rec, step, at) ==
  /\ step <= rec.usage.steps
  /\ rec.events # <<>> =>
       LET last == rec.events[Len(rec.events)]
       IN  last.step <= step /\ last.at <= at

(* What the tables accept: primary keys across all runs, and evidence that *)
(* refers to a tool result or a model call of its own run.                 *)
Storable(r, rec) ==
  /\ \A q \in Runs \ {r} : IdsOf(rec) \cap IdsOf(disk[q]) = {}
  /\ \A e \in rec.evidence : e.source \in rec.results \cup rec.calls

-----------------------------------------------------------------------------
(* The write lock.                                                         *)

(* The mutation of one record, under the lock: the store is cloned, then   *)
(* changed in place, and the save comes next.                              *)
Mutate(c, r, rec, ids) ==
  /\ txn' = <<c, r>>
  /\ previous' = store
  /\ store' = [runs |-> [store.runs EXCEPT ![r] = rec], ids |-> store.ids \cup ids]

Idle(c) == mode = "up" /\ txn = NoTxn /\ now[c] = 0 /\ draft[c] = NoDraft

(* A call that logs an event: stamped already, and now owner of the lock.  *)
Stamped(c) == mode = "up" /\ txn = NoTxn /\ now[c] # 0 /\ draft[c] = NoDraft

(* ... of a run that exists.  Its id came out of create_run, so whoever    *)
(* names it read the clock no earlier than its creation did.               *)
Addressed(c, r) ==
  /\ Stamped(c)
  /\ store.runs[r].status # "Absent"
  /\ store.runs[r].events[1].at <= now[c]

Done(c) == now' = [now EXCEPT ![c] = 0] /\ UNCHANGED <<mode, disk, clock, draft, interrupted>>

Logged(rec, kind, at, step) ==
  [rec EXCEPT !.events = Append(@, [kind |-> kind, at |-> at, step |-> step])]

HasRoom(rec) == Len(rec.events) < MaxEvents

-----------------------------------------------------------------------------
(* Calls.                                                                  *)

(* now_ms and the event id are taken before write_store.                   *)
Stamp(c) ==
  /\ mode = "up"
  /\ \A r \in Runs : txn # <<c, r>>
  /\ now[c] = 0
  /\ now' = [now EXCEPT ![c] = clock]
  /\ UNCHANGED <<mode, store, disk, txn, previous, clock, draft, interrupted>>

(* A call whose checks fail returns its error and changes nothing.         *)
Refused(c) ==
  /\ mode = "up" /\ txn = NoTxn /\ now[c] # 0
  /\ now' = [now EXCEPT ![c] = 0]
  /\ draft' = [draft EXCEPT ![c] = NoDraft]
  /\ UNCHANGED <<mode, store, disk, txn, previous, clock, interrupted>>

CreateRun(c, r) ==
  /\ Stamped(c)
  /\ store.runs[r].status = "Absent"
  /\ Mutate(c, r, Logged([Missing EXCEPT !.status = "Created"], "RunCreated", now[c], 0), {})
  /\ Done(c)

StartRun(c, r) ==
  LET rec == store.runs[r] IN
  /\ Addressed(c, r)
  /\ MayTransition(rec.status, "Running")
  /\ Mutate(c, r, Logged([rec EXCEPT !.status = "Running", !.started = now[c]],
                         "RunStarted", now[c], rec.usage.steps), {})
  /\ Done(c)

(* Mutants: the difference wraps below zero; what was reported is dropped. *)
LastedSigned(rec, at) ==
  IF rec.started # 0 THEN at - rec.started ELSE rec.usage.duration

LastedMeasured(rec, at) ==
  IF rec.started # 0 /\ rec.started <= at THEN at - rec.started ELSE rec.usage.duration

(* A duration is at least what has passed since the start (max and         *)
(* saturating_sub).                                                        *)
Lasted(rec, at) ==
  IF rec.started # 0 /\ rec.started + rec.usage.duration < at
  THEN at - rec.started
  ELSE rec.usage.duration

Ended(rec, ending, output, at) ==
  Logged([rec EXCEPT !.status = ending, !.output = output,
                     !.usage.duration = Lasted(rec, at)],
         EndEvent[ending], at, rec.usage.steps)

(* fail_run, exhaust_budget, block_scope and cancel_run.                   *)
FinishRun(c, r, ending) ==
  LET rec == store.runs[r] IN
  /\ Addressed(c, r)
  /\ ending # "Completed"
  /\ MayTransition(rec.status, ending)
  /\ Mutate(c, r, Ended(rec, ending, NoOutput, now[c]), {})
  /\ Done(c)

(* Mutant: the cited evidence is not looked up.                            *)
CheckNothing(c, r, output) ==
  /\ Idle(c)
  /\ store.runs[r].status # "Absent"
  /\ draft' = [draft EXCEPT ![c] = [run |-> r, output |-> output]]
  /\ UNCHANGED <<mode, store, disk, txn, previous, clock, now, interrupted>>

(* complete_run, first half: under the READ lock, released before the      *)
(* write lock is asked for, the evidence the output cites is looked up.    *)
CheckOutput(c, r, output) ==
  /\ Idle(c)
  /\ store.runs[r].status # "Absent"
  /\ output \subseteq EvidenceOf(store.runs[r])
  /\ draft' = [draft EXCEPT ![c] = [run |-> r, output |-> output]]
  /\ UNCHANGED <<mode, store, disk, txn, previous, clock, now, interrupted>>

(* complete_run, second half: finish_run under the write lock.             *)
CompleteRun(c) ==
  /\ mode = "up" /\ txn = NoTxn /\ now[c] # 0 /\ draft[c] # NoDraft
  /\ LET r   == draft[c].run
         rec == store.runs[r]
     IN  /\ MayTransition(rec.status, "Completed")
         /\ Mutate(c, r, Ended(rec, "Completed", draft[c].output, now[c]), {})
  /\ now' = [now EXCEPT ![c] = 0]
  /\ draft' = [draft EXCEPT ![c] = NoDraft]
  /\ UNCHANGED <<mode, disk, clock, interrupted>>

(* commit_tool_result: result, usage and event in one mutation. The step   *)
(* of the event is an argument of its own, which nothing compares with the *)
(* usage or the log: that is left to the callers (AgentRuntime).           *)
CommitToolResult(c, r, id, step, usage) ==
  LET rec == store.runs[r] IN
  /\ Addressed(c, r)
  /\ AcceptsUpdates(rec) /\ HasRoom(rec)
  /\ id \notin store.ids
  /\ Monotonic(rec.usage, usage)
  /\ Mutate(c, r, Logged([rec EXCEPT !.results = @ \cup {id}, !.usage = usage],
                         "ToolCompleted", now[c], step), {id})
  /\ Done(c)

(* commit_model_call: the same for a model call.                           *)
CommitModelCall(c, r, id, step, usage) ==
  LET rec == store.runs[r] IN
  /\ Addressed(c, r)
  /\ AcceptsUpdates(rec) /\ HasRoom(rec)
  /\ id \notin store.ids
  /\ Monotonic(rec.usage, usage)
  /\ Mutate(c, r, Logged([rec EXCEPT !.calls = @ \cup {id}, !.usage = usage],
                         "ModelCalled", now[c], step), {id})
  /\ Done(c)

(* append_evidence_recorded: the source must be of this run.               *)
RecordEvidence(c, r, id, source, step) ==
  LET rec == store.runs[r] IN
  /\ Addressed(c, r)
  /\ AcceptsUpdates(rec) /\ HasRoom(rec)
  /\ id \notin store.ids
  /\ SourceExists(rec, source)
  /\ Mutate(c, r, Logged([rec EXCEPT !.evidence = @ \cup {[id |-> id, source |-> source]}],
                         "EvidenceRecorded", now[c], step), {id})
  /\ Done(c)

(* record_event with a kind that is not the service's own.                 *)
AppendEvent(c, r, kind, step) ==
  LET rec == store.runs[r] IN
  /\ Addressed(c, r)
  /\ kind \notin ServiceManaged
  /\ AcceptsUpdates(rec) /\ HasRoom(rec)
  /\ KeepsOrder(rec, step, now[c])
  /\ Mutate(c, r, Logged(rec, kind, now[c], step), {})
  /\ Done(c)

(* The calls that only store something: they log nothing, leave the usage  *)
(* alone and read no clock. First append_tool_result ...                   *)
AppendToolResult(c, r, id) ==
  LET rec == store.runs[r] IN
  /\ Idle(c)
  /\ AcceptsUpdates(rec)
  /\ id \notin store.ids
  /\ Mutate(c, r, [rec EXCEPT !.results = @ \cup {id}], {id})
  /\ UNCHANGED <<mode, disk, clock, now, draft, interrupted>>

(* ... append_model_call ...                                               *)
AppendModelCall(c, r, id) ==
  LET rec == store.runs[r] IN
  /\ Idle(c)
  /\ AcceptsUpdates(rec)
  /\ id \notin store.ids
  /\ Mutate(c, r, [rec EXCEPT !.calls = @ \cup {id}], {id})
  /\ UNCHANGED <<mode, disk, clock, now, draft, interrupted>>

(* ... and append_evidence.                                                *)
AppendEvidence(c, r, id, source) ==
  LET rec == store.runs[r] IN
  /\ Idle(c)
  /\ AcceptsUpdates(rec)
  /\ id \notin store.ids
  /\ SourceExists(rec, source)
  /\ Mutate(c, r, [rec EXCEPT !.evidence = @ \cup {[id |-> id, source |-> source]}], {id})
  /\ UNCHANGED <<mode, disk, clock, now, draft, interrupted>>

(* update_usage, which stores nothing else.                                *)
UpdateUsage(c, r, usage) ==
  LET rec == store.runs[r] IN
  /\ Idle(c)
  /\ AcceptsUpdates(rec)
  /\ Monotonic(rec.usage, usage)
  /\ Mutate(c, r, [rec EXCEPT !.usage = usage], {})
  /\ UNCHANGED <<mode, disk, clock, now, draft, interrupted>>

(* set_evaluation_result: once, and only of a completed output.            *)
SetEvaluation(c, r) ==
  LET rec == store.runs[r] IN
  /\ Addressed(c, r)
  /\ rec.status = "Completed" /\ rec.output # NoOutput
  /\ ~rec.evaluated
  /\ Mutate(c, r, Logged([rec EXCEPT !.evaluated = TRUE],
                         "EvaluationCompleted", now[c], rec.usage.steps), {})
  /\ Done(c)

-----------------------------------------------------------------------------
(* The save, still under the lock: one transaction replaces the rows of    *)
(* the record.                                                             *)
Saved ==
  /\ txn # NoTxn
  /\ Storable(txn[2], store.runs[txn[2]])
  /\ disk' = [disk EXCEPT ![txn[2]] = store.runs[txn[2]]]
  /\ txn' = NoTxn
  /\ previous' = EmptyStore
  /\ UNCHANGED <<mode, store, clock, now, draft, interrupted>>

(* Mutant: the clone is dropped instead of put back.                       *)
SaveFailedKept ==
  /\ txn # NoTxn
  /\ txn' = NoTxn
  /\ previous' = EmptyStore
  /\ UNCHANGED <<mode, store, disk, clock, now, draft, interrupted>>

(* Any failure of the save, refused row or I/O: the clone comes back.      *)
SaveFailed ==
  /\ txn # NoTxn
  /\ store' = previous
  /\ txn' = NoTxn
  /\ previous' = EmptyStore
  /\ UNCHANGED <<mode, disk, clock, now, draft, interrupted>>

-----------------------------------------------------------------------------
(* The process stops at any point and loses everything but the rows; a     *)
(* recovery that fails aborts the setup, which ends the process too.       *)
Crash ==
  /\ mode # "down"
  /\ mode' = "down"
  /\ store' = EmptyStore
  /\ txn' = NoTxn
  /\ previous' = EmptyStore
  /\ now' = [c \in Clients |-> 0]
  /\ draft' = [c \in Clients |-> NoDraft]
  /\ interrupted' = {}
  /\ UNCHANGED <<disk, clock>>

(* with_repository loads the rows; recover_interrupted_runs then collects, *)
(* once, the runs they show as Running.                                    *)
Open ==
  /\ mode = "down"
  /\ mode' = "recovering"
  /\ store' = Loaded(disk)
  /\ interrupted' = {r \in Runs : disk[r].status = "Running"}
  /\ UNCHANGED <<disk, txn, previous, clock, now, draft>>

(* Mutant: a run that cannot be saved is passed over, and setup goes on.   *)
RecoverRunOrPass(r) ==
  LET rec == Ended(store.runs[r], "Failed", NoOutput, clock) IN
  /\ mode = "recovering"
  /\ r \in interrupted
  /\ \/ /\ Storable(r, rec)
        /\ store' = [store EXCEPT !.runs[r] = rec]
        /\ disk' = [disk EXCEPT ![r] = rec]
     \/ UNCHANGED <<store, disk>>
  /\ interrupted' = interrupted \ {r}
  /\ UNCHANGED <<mode, txn, previous, clock, now, draft>>

(* One run of its loop: nobody else runs yet, so the mutation and its save *)
(* are one step. A save that fails aborts the setup: it is a Crash.        *)
RecoverRun(r) ==
  LET rec == Ended(store.runs[r], "Failed", NoOutput, clock) IN
  /\ mode = "recovering"
  /\ r \in interrupted
  /\ Storable(r, rec)
  /\ store' = [store EXCEPT !.runs[r] = rec]
  /\ disk' = [disk EXCEPT ![r] = rec]
  /\ interrupted' = interrupted \ {r}
  /\ UNCHANGED <<mode, txn, previous, clock, now, draft>>

(* The loop is done, whatever the statuses say: calls are served.          *)
FinishRecovery ==
  /\ mode = "recovering"
  /\ interrupted = {}
  /\ mode' = "up"
  /\ UNCHANGED <<store, disk, txn, previous, clock, now, draft, interrupted>>

Tick ==
  /\ clock < MaxClock
  /\ clock' = clock + 1
  /\ UNCHANGED <<mode, store, disk, txn, previous, now, draft, interrupted>>

-----------------------------------------------------------------------------
Init ==
  /\ mode = "down"
  /\ store = EmptyStore
  /\ disk = [r \in Runs |-> Missing]
  /\ txn = NoTxn
  /\ previous = EmptyStore
  /\ clock = 1
  /\ now = [c \in Clients |-> 0]
  /\ draft = [c \in Clients |-> NoDraft]
  /\ interrupted = {}

Reported == [steps : 0 .. MaxSteps, duration : 0 .. MaxSteps]

Call(c) ==
  \/ Stamp(c) \/ Refused(c) \/ CompleteRun(c)
  \/ \E r \in Runs :
       \/ CreateRun(c, r) \/ StartRun(c, r) \/ SetEvaluation(c, r)
       \/ \E ending \in Endings : FinishRun(c, r, ending)
       \/ \E output \in SUBSET EvidenceIds : CheckOutput(c, r, output)
       \/ \E usage \in Reported : UpdateUsage(c, r, usage)
       \/ \E id \in ResultIds : AppendToolResult(c, r, id)
       \/ \E id \in CallIds : AppendModelCall(c, r, id)
       \/ \E id \in EvidenceIds, source \in Sources : AppendEvidence(c, r, id, source)
       \/ \E step \in 0 .. MaxSteps :
            \/ \E id \in ResultIds, usage \in Reported : CommitToolResult(c, r, id, step, usage)
            \/ \E id \in CallIds, usage \in Reported : CommitModelCall(c, r, id, step, usage)
            \/ \E id \in EvidenceIds, source \in Sources : RecordEvidence(c, r, id, source, step)
            \/ \E kind \in EventKinds : AppendEvent(c, r, kind, step)

Next ==
  \/ \E c \in Clients : Call(c)
  \/ Saved \/ SaveFailed
  \/ Crash \/ Open \/ FinishRecovery \/ Tick
  \/ \E r \in Runs : RecoverRun(r)

Spec == Init /\ [][Next]_vars

-----------------------------------------------------------------------------
(* Correctness.                                                            *)

(* Whoever can read the store (no writer holds the lock) sees exactly what *)
(* is committed: "every mutation is persisted transactionally before it is *)
(* exposed" (run_service.rs:170), through failed saves, crashes and        *)
(* restarts.                                                               *)
ExposedIsDurable ==
  mode # "down" /\ txn = NoTxn => store.runs = disk

(* The checks made in memory are as strict as the tables: a mutation they  *)
(* let through is never refused for a duplicate key or a dangling evidence *)
(* source, whatever ran before, in this process or an earlier one.         *)
AcceptedIsStorable ==
  txn # NoTxn => Storable(txn[2], store.runs[txn[2]])

EndsOf(log) == {i \in DOMAIN log : log[i].kind \in EndEvents}

(* The log and the status of a run tell one story, although callers write  *)
(* into it too: an ending has exactly one event, the one of that ending,   *)
(* and nothing is logged after it but one evaluation, of a completed run.  *)
LogFits(rec) ==
  LET log == rec.events IN
  /\ rec.status \in Endings <=> EndsOf(log) # {}
  /\ \A i \in EndsOf(log) :
       /\ log[i].kind = EndEvent[rec.status]
       /\ Len(log) = IF rec.evaluated THEN i + 1 ELSE i
  /\ rec.evaluated => /\ rec.status = "Completed"
                      /\ log[Len(log)].kind = "EvaluationCompleted"

LogTellsStatus == \A r \in Runs : LogFits(disk[r])

(* A completed run answers with evidence it recorded, and every piece of   *)
(* evidence rests on a tool result or model call of that run, although     *)
(* complete_run gives up its lock between the look-up and the ending.      *)
Backed(rec) ==
  /\ rec.status = "Completed" <=> rec.output # NoOutput
  /\ rec.output # NoOutput => rec.output \subseteq EvidenceOf(rec)
  /\ \A e \in rec.evidence : SourceExists(rec, e.source)

OutputIsBacked == \A r \in Runs : Backed(disk[r])

(* "Events must preserve ... timestamp ordering" (run_service.rs:1301),    *)
(* stated of the whole log.                                                *)
TimestampsOrdered ==
  \A r \in Runs :
    LET log == disk[r].events
    IN  \A i, j \in DOMAIN log : i < j => log[i].at <= log[j].at

(* What was committed stays: an ended run keeps its ending and its output; *)
(* events, evidence and counters only grow. No step takes back what a      *)
(* reader may have seen, recovery after a crash included.                  *)
Extends(old, new) ==
  /\ old.status \in Endings =>
       new = [old EXCEPT !.evaluated = new.evaluated, !.events = new.events]
  /\ Len(old.events) <= Len(new.events)
  /\ \A i \in DOMAIN old.events : new.events[i] = old.events[i]
  /\ old.evidence \subseteq new.evidence
  /\ Monotonic(old.usage, new.usage)
  /\ old.evaluated => new.evaluated

HistoryOnlyGrows == [][\A r \in Runs : Extends(disk[r], disk'[r])]_vars

(* The application never serves a call while a run of an earlier process   *)
(* is still Running: what recovery collected when it began is all there    *)
(* is, each of these runs ends by a save of its own, and a recovery that   *)
(* stops half way is taken up again by the next process.                   *)
RecoveredBeforeServing ==
  [][mode # "up" /\ mode' = "up" =>
       \A r \in Runs : disk'[r].status # "Running"]_vars

(* The service implements the ledger: lock, clone, save, rollback, crash   *)
(* and recovery add up to atomic, durable steps of one run each.           *)
Ledger == INSTANCE RunLedger WITH
  status    <- [r \in Runs |-> disk[r].status],
  steps     <- [r \in Runs |-> disk[r].usage.steps],
  evidence  <- [r \in Runs |-> EvidenceOf(disk[r])],
  output    <- [r \in Runs |-> disk[r].output],
  evaluated <- [r \in Runs |-> disk[r].evaluated]

ImplementsLedger == Ledger!Spec
=============================================================================
