-------------------------- MODULE AgentRuntimeProofs --------------------------
(***************************************************************************)
(* Theorems about AgentRuntime, for every number of executions, budget,    *)
(* number of attempts and bound.                                           *)
(*                                                                         *)
(* All of them rest on who may be where: whoever drives the run got it     *)
(* from the one start that the service let through (Started), and once an  *)
(* effect has begun after the end of the run, the only places left to its  *)
(* driver are calls that the service refuses (Lateness).  And since nobody *)
(* else moves the run, the step its iteration computed is the one the run  *)
(* is in when it is written down (InStep).                                 *)
(***************************************************************************)
EXTENDS AgentRuntime, TLAPS

Begun == run.status \notin {"Absent", "Created"}

Started ==
  \A e \in Executors :
    /\ Drives(e) => Begun
    /\ pc[e] # "idle" => run.status # "Absent"

Outcome ==
  /\ run.status = "Completed" <=> run.output # NoOutput
  /\ run.evaluated => run.status = "Completed"
  /\ \A e \in Executors : pc[e] = "evaluate" => run.status = "Completed" /\ ~run.evaluated

(* Where an execution is that has begun an effect after the end.           *)
Refusals == {"commit", "store", "fail"}

Lateness ==
  /\ late <= 1
  /\ late # 0 => Ended /\ \A e \in Executors : Drives(e) => pc[e] \in Refusals

(* The rejections that are tolerated are fewer than those that are not.    *)
Tolerance ==
  \A e \in Executors :
    pc[e] \notin {"fail", "returned"} =>
      local[e].rejections < MAX_CONSECUTIVE_MODEL_REJECTIONS

(* Where an iteration is between the commit of its answer and its end.     *)
Iterating == {"receive", "judge", "reject", "prepare", "prepare_again", "limited", "blocked",
              "block", "announce", "execute", "store", "record", "ingest"}

InStep ==
  \A e \in Executors :
    /\ pc[e] \in Iterating => local[e].step = run.steps
    /\ pc[e] = "commit" => local[e].step = run.steps + 1

IInv ==
  /\ TypeOK
  /\ Tolerance
  /\ OneDriver
  /\ Started
  /\ Outcome
  /\ Lateness
  /\ RunningIsAttended
  /\ InStep
  /\ StepsOrdered

-----------------------------------------------------------------------------
(* Types.                                                                  *)

(* The invariant holds initially: no execution is under way.               *)
LEMMA InitInv == Init => IInv
<1> SUFFICES ASSUME Init PROVE IInv
  OBVIOUS
<1>1. run \in Run
  <2>1. 0 \in Steps
    BY BudgetAssumption DEF Steps
  <2> QED
    BY <2>1 DEF Init, Run
<1>2. Fresh \in Local
  BY DEF Fresh, Local, Answers, Results, MAX_CONSECUTIVE_MODEL_REJECTIONS
<1>3. log \in Seq(Event) /\ DOMAIN log = {}
  BY DEF Init
<1>4. TypeOK
  BY <1>1, <1>2, <1>3 DEF Init, TypeOK, Places
<1>5. Tolerance
  BY DEF Init, Tolerance, Fresh, MAX_CONSECUTIVE_MODEL_REJECTIONS
<1>6. InStep /\ StepsOrdered
  BY <1>3 DEF Init, InStep, Iterating, StepsOrdered
<1> QED
  BY <1>4, <1>5, <1>6 DEF Init, IInv, OneDriver, Drives, Driving, Started, Outcome, Lateness,
     RunningIsAttended

(* An execution goes to a place.                                           *)
LEMMA GotoType ==
  ASSUME TypeOK, NEW e \in Executors, NEW place \in Places, Goto(e, place)
  PROVE  pc' \in [Executors -> Places]
<1> HIDE DEF Places
<1>1. pc \in [Executors -> Places]
  BY DEF TypeOK
<1> QED
  BY <1>1 DEF Goto

(* The log stays a log.                                                    *)
LEMMA LogsType ==
  ASSUME TypeOK, NEW kind \in EventKinds, NEW step \in Nat, Logs(kind, step)
  PROVE  log' \in Seq(Event)
<1>1. [kind |-> kind, step |-> step] \in Event
  BY DEF Event
<1> QED
  BY <1>1 DEF TypeOK, Logs

(* The kinds of events that calls log.                                     *)
LEMMA KindsFacts ==
  /\ {"RunCreated", "RunStarted", "ModelCalled", "ActionReceived", "ActionRejected",
      "RateLimited", "ToolStarted", "ToolCompleted", "EvidenceRecorded",
      "EvaluationCompleted"} \subseteq EventKinds
  /\ \A ending \in Endings : EndEvent[ending] \in EventKinds
  BY DEF EventKinds

(* The places of a driver are places, and so are the others.               *)
LEMMA PlacesFacts ==
  /\ \A place \in Driving : place \in Places
  /\ {"idle", "configure", "misconfigured", "conf_start", "conf_fail", "check",
      "start", "returned"} \subseteq Places
  BY DEF Places

(* The fields of the local variables of an execution, and of the run.      *)
LEMMA LocalFields ==
  ASSUME TypeOK, NEW e \in Executors
  PROVE  /\ local[e].step \in Nat
         /\ local[e].rejections \in 0 .. MAX_CONSECUTIVE_MODEL_REJECTIONS
         /\ local[e].spent \in Nat /\ local[e].answer \in Answers
         /\ local[e].result \in Results /\ local[e].counted \in Nat /\ local[e].called \in Nat
         /\ local[e] \in Local
<1>1. local[e] \in Local
  BY DEF TypeOK
<1> QED
  BY <1>1 DEF Local

(* A local record changed to another one keeps the type of all.            *)
LEMMA LocalType ==
  ASSUME TypeOK, NEW e \in Executors, NEW rec \in Local, local' = [local EXCEPT ![e] = rec]
  PROVE  local' \in [Executors -> Local]
<1>1. local \in [Executors -> Local]
  BY DEF TypeOK
<1> HIDE DEF Local
<1> QED
  BY <1>1

(* An answer of the model is kept.                                         *)
LEMMA WithAnswer ==
  ASSUME NEW rec \in Local, NEW step \in Nat, NEW answer \in Answers, NEW k \in Nat
  PROVE  [rec EXCEPT !.step = step, !.answer = answer, !.spent = k] \in Local
  BY DEF Local

(* A result of a tool is kept.                                             *)
LEMMA WithResult ==
  ASSUME NEW rec \in Local, NEW result \in Results, NEW k \in Nat, NEW m \in Nat
  PROVE  [rec EXCEPT !.result = result, !.counted = k, !.called = m] \in Local
  BY DEF Local

(* A count of rejections within the tolerance is kept.                     *)
LEMMA WithRejections ==
  ASSUME NEW rec \in Local, NEW n \in 0 .. MAX_CONSECUTIVE_MODEL_REJECTIONS
  PROVE  [rec EXCEPT !.rejections = n] \in Local
  BY DEF Local

(* The types of the fields of the run.                                     *)
LEMMA RunFields ==
  ASSUME TypeOK
  PROVE  /\ run.steps \in Steps /\ run.steps \in Nat /\ run.calls \in Nat /\ run.requests \in Nat
         /\ run.evidence \in SUBSET Steps
         /\ run.output \in {NoOutput} \cup SUBSET Steps /\ run.evaluated \in BOOLEAN
         /\ run.status \in {"Absent", "Created", "Running"} \cup Endings
<1>1. run \in Run
  BY DEF TypeOK
<1>2. \A step \in Steps : step \in Nat
  BY BudgetAssumption DEF Steps
<1> QED
  BY <1>1, <1>2 DEF Run

(* What ends a run keeps its type and that of the log.                     *)
LEMMA FinishesType ==
  ASSUME TypeOK, NEW ending \in Endings, Finishes(ending)
  PROVE  run' \in Run /\ log' \in Seq(Event)
<1>1. run' \in Run
  BY DEF Finishes, TypeOK, Run
<1> QED
  BY <1>1, RunFields, KindsFacts, LogsType DEF Finishes

(* The steps before the loop keep the types.                               *)
LEMMA SetupType ==
  ASSUME TypeOK, NEW e \in Executors,
         \/ Execution(e) \/ Configure(e) \/ Misconfigured(e) \/ ConfStart(e) \/ ConfFail(e)
         \/ Check(e) \/ Start(e) \/ Seed(e)
  PROVE  TypeOK'
<1> USE DEF Outside, OnlyMoves, TypeOK
<1>1. CASE Execution(e)
  BY <1>1, PlacesFacts, GotoType DEF Execution
<1>2. CASE Configure(e)
  BY <1>2, PlacesFacts, GotoType DEF Configure
<1>3. CASE Misconfigured(e)
  BY <1>3, PlacesFacts, GotoType DEF Misconfigured
<1>4. CASE ConfStart(e)
  BY <1>4, PlacesFacts, GotoType, KindsFacts, RunFields, LogsType DEF ConfStart, Run
<1>5. CASE ConfFail(e)
  BY <1>5, PlacesFacts, GotoType, FinishesType DEF ConfFail, Endings
<1>6. CASE Check(e)
  BY <1>6, PlacesFacts, GotoType DEF Check
<1>7. CASE Start(e)
  BY <1>7, PlacesFacts, GotoType, KindsFacts, RunFields, LogsType DEF Start, Run, Driving
<1>8. CASE Seed(e)
  <2>1. Fresh \in Local
    BY DEF Fresh, Local, Answers, Results, MAX_CONSECUTIVE_MODEL_REJECTIONS
  <2>2. local' \in [Executors -> Local]
    BY <1>8, <2>1, LocalType DEF Seed
  <2>3. pc' \in [Executors -> Places]
    BY <1>8, PlacesFacts, GotoType DEF Seed, Driving
  <2> QED
    BY <1>8, <2>2, <2>3 DEF Seed
<1> QED
  BY <1>1, <1>2, <1>3, <1>4, <1>5, <1>6, <1>7, <1>8

(* The steps around an answer keep the types: none counts a rejection past *)
(* the tolerance.                                                          *)
LEMMA AnswerType ==
  ASSUME TypeOK, Tolerance, NEW e \in Executors,
         \/ AskNothing(e) \/ Ask(e) \/ Commit(e) \/ Receive(e) \/ Reject(e)
  PROVE  TypeOK'
<1> USE DEF Outside, OnlyMoves
<1>1. CASE AskNothing(e)
  <2> DEFINE rec == [local[e] EXCEPT !.step = run.steps + 1, !.answer = "error", !.spent = 0]
  <2>1. rec \in Local
    <3>1. "error" \in Answers /\ 0 \in Nat /\ run.steps + 1 \in Nat
      BY RunFields DEF Answers
    <3> QED
      BY <3>1, LocalFields, WithAnswer
  <2>2. local' = [local EXCEPT ![e] = rec]
    BY <1>1 DEF AskNothing
  <2> HIDE DEF rec
  <2>3. local' \in [Executors -> Local]
    BY <2>1, <2>2, LocalType
  <2>4. pc' \in [Executors -> Places]
    BY <1>1, PlacesFacts, GotoType DEF AskNothing, Driving
  <2> QED
    BY <1>1, <2>3, <2>4 DEF AskNothing, TypeOK
<1>2. CASE Ask(e)
  <2>1. late' \in Nat
    <3>1. late \in Nat /\ late' = late + (IF Ended THEN 1 ELSE 0)
      BY <1>2 DEF Ask, Begins, TypeOK
    <3> QED
      BY <3>1
  <2>2. PICK k \in 1 .. MaxAttempts, answer \in Answers :
          local' = [local EXCEPT ![e] = [local[e] EXCEPT !.step = run.steps + 1,
                                                         !.answer = answer, !.spent = k]]
    BY <1>2 DEF Ask
  <2> DEFINE rec == [local[e] EXCEPT !.step = run.steps + 1, !.answer = answer, !.spent = k]
  <2>3. k \in Nat /\ run.steps + 1 \in Nat
    BY RunFields, BudgetAssumption
  <2>4. rec \in Local
    BY <2>3, LocalFields, WithAnswer
  <2>5. local' = [local EXCEPT ![e] = rec]
    BY <2>2
  <2> HIDE DEF rec
  <2>6. local' \in [Executors -> Local]
    BY <2>4, <2>5, LocalType
  <2>7. pc' \in [Executors -> Places]
    BY <1>2, PlacesFacts, GotoType DEF Ask, Driving
  <2> QED
    BY <1>2, <2>1, <2>6, <2>7 DEF Ask, TypeOK
<1>3. CASE Commit(e)
  <2>1. local[e].step \in Steps
    BY <1>3, LocalFields, BudgetAssumption DEF Commit, Committed, Steps
  <2>2. run.calls + local[e].spent \in Nat
    BY RunFields, LocalFields
  <2>3. run' \in Run
    BY <1>3, <2>1, <2>2 DEF Commit, Run, TypeOK
  <2>4. pc' \in [Executors -> Places]
    BY <1>3, PlacesFacts, GotoType DEF Commit, Driving
  <2>5. log' \in Seq(Event)
    BY <1>3, LocalFields, KindsFacts, LogsType DEF Commit
  <2> QED
    BY <1>3, <2>3, <2>4, <2>5 DEF Commit, TypeOK
<1>4. CASE Receive(e)
  <2>1. pc' \in [Executors -> Places]
    BY <1>4, PlacesFacts, GotoType DEF Receive, Driving
  <2> QED
    BY <1>4, <2>1, LocalFields, KindsFacts, LogsType DEF Receive, Records, TypeOK
<1>5. CASE Reject(e)
  <2> DEFINE rec == [local[e] EXCEPT !.rejections = local[e].rejections + 1]
  <2>1. local[e].rejections < MAX_CONSECUTIVE_MODEL_REJECTIONS
    BY <1>5 DEF Reject, Records, Calls, Tolerance
  <2>2. local[e].rejections + 1 \in 0 .. MAX_CONSECUTIVE_MODEL_REJECTIONS
    BY <2>1, LocalFields DEF MAX_CONSECUTIVE_MODEL_REJECTIONS
  <2>3. rec \in Local
    BY <2>2, LocalFields, WithRejections
  <2>4. local' = [local EXCEPT ![e] = rec]
    BY <1>5 DEF Reject
  <2> HIDE DEF rec
  <2>5. local' \in [Executors -> Local]
    BY <2>3, <2>4, LocalType
  <2>6. pc' \in [Executors -> Places]
    BY <1>5, PlacesFacts, GotoType DEF Reject, Driving
  <2> QED
    BY <1>5, <2>5, <2>6, LocalFields, KindsFacts, LogsType DEF Reject, Records, TypeOK
<1> QED
  BY <1>1, <1>2, <1>3, <1>4, <1>5

(* A tool keeps the types, whatever it counts.                             *)
LEMMA ExecuteType ==
  ASSUME TypeOK, NEW e \in Executors, Execute(e)
  PROVE  TypeOK'
<1>1. late' \in Nat
  BY DEF Execute, Begins, TypeOK
<1>2. PICK n \in 0 .. MaxRequests :
        /\ sent' = sent + n
        /\ \/ \E result \in Results : Brought(e, result, n, 0)
           \/ n = 1 /\ Brought(e, "success", n, 1)
           \/ Brought(e, "retryable", IF n > 0 THEN 1 ELSE 0, 0)
           \/ n = 0 /\ Goto(e, "fail") /\ UNCHANGED local
  BY DEF Execute
<1>3. n \in Nat /\ sent' \in Nat
  BY <1>2, BudgetAssumption DEF TypeOK
<1>4. ASSUME NEW result \in Results, NEW counted \in Nat, NEW called \in Nat,
             Brought(e, result, counted, called)
      PROVE  local' \in [Executors -> Local] /\ pc' \in [Executors -> Places]
  <2> DEFINE rec == [local[e] EXCEPT !.result = result, !.counted = counted,
                               !.called = called]
  <2>1. rec \in Local
    BY LocalFields, WithResult
  <2>2. local' = [local EXCEPT ![e] = rec]
    BY <1>4 DEF Brought
  <2> HIDE DEF rec
  <2>3. local' \in [Executors -> Local]
    BY <2>1, <2>2, LocalType
  <2>4. pc' \in [Executors -> Places]
    BY <1>4, PlacesFacts, GotoType DEF Brought, Driving
  <2> QED
    BY <2>3, <2>4
<1>5. local' \in [Executors -> Local] /\ pc' \in [Executors -> Places]
  <2>1. CASE \E result \in Results : Brought(e, result, n, 0)
    BY <2>1, <1>3, <1>4
  <2>2. CASE Brought(e, "retryable", IF n > 0 THEN 1 ELSE 0, 0)
    <3>1. "retryable" \in Results /\ (IF n > 0 THEN 1 ELSE 0) \in Nat
      BY DEF Results
    <3> QED
      BY <2>2, <3>1, <1>4
  <2>4. CASE Brought(e, "success", n, 1)
    BY <2>4, <1>3, <1>4 DEF Results
  <2>3. CASE Goto(e, "fail") /\ UNCHANGED local
    BY <2>3, PlacesFacts, GotoType DEF Driving, TypeOK
  <2> QED
    BY <1>2, <2>1, <2>2, <2>3, <2>4
<1> QED
  BY <1>1, <1>3, <1>5 DEF Execute, TypeOK

(* The steps around a tool keep the types.                                 *)
LEMMA ToolType ==
  ASSUME TypeOK, NEW e \in Executors,
         \/ Prepare(e) \/ Limited(e) \/ Blocked(e) \/ BlockScope(e) \/ Announce(e)
         \/ Store(e) \/ Record(e) \/ RecordNothing(e) \/ Ingest(e)
  PROVE  TypeOK'
<1> USE DEF Outside, OnlyMoves
<1>1. CASE Prepare(e)
  BY <1>1, PlacesFacts, GotoType DEF Prepare, Driving, TypeOK
<1>2. CASE Limited(e)
  BY <1>2, PlacesFacts, GotoType, LocalFields, KindsFacts, LogsType
     DEF Limited, Records, Driving, TypeOK
<1>3. CASE Blocked(e)
  BY <1>3, PlacesFacts, GotoType, LocalFields, KindsFacts, LogsType
     DEF Blocked, Records, Driving, TypeOK
<1>4. CASE BlockScope(e)
  BY <1>4, PlacesFacts, GotoType, FinishesType DEF BlockScope, Endings, TypeOK
<1>5. CASE Announce(e)
  BY <1>5, PlacesFacts, GotoType, LocalFields, KindsFacts, LogsType
     DEF Announce, Records, Driving, TypeOK
<1>7. CASE Store(e)
  <2>1. /\ run.requests + local[e].counted \in Nat
        /\ run.calls + local[e].called \in Nat
    BY RunFields, LocalFields
  <2>2. run' \in Run
    BY <1>7, <2>1 DEF Store, Run, TypeOK
  <2> QED
    BY <1>7, <2>2, PlacesFacts, GotoType, LocalFields, KindsFacts, LogsType
       DEF Store, Driving, TypeOK
<1>8. CASE Record(e)
  <2>1. run' \in Run
    BY <1>8 DEF Record, Run, TypeOK
  <2> QED
    BY <1>8, <2>1, PlacesFacts, GotoType, LocalFields, KindsFacts, LogsType
       DEF Record, Driving, TypeOK
<1>9. CASE RecordNothing(e)
  BY <1>9, PlacesFacts, GotoType DEF RecordNothing, Driving, TypeOK
<1>10. CASE Ingest(e)
  <2>1. Fresh \in Local
    BY DEF Fresh, Local, Answers, Results, MAX_CONSECUTIVE_MODEL_REJECTIONS
  <2>2. UNCHANGED local \/ local' = [local EXCEPT ![e] = Fresh]
    BY <1>10 DEF Ingest
  <2>3. local' \in [Executors -> Local]
    BY <2>1, <2>2, LocalType DEF TypeOK
  <2> QED
    BY <1>10, <2>3, PlacesFacts, GotoType DEF Ingest, Driving, TypeOK
<1> QED
  BY <1>1, <1>2, <1>3, <1>4, <1>5, <1>7, <1>8, <1>9, <1>10

(* The steps that end an execution keep the types.                         *)
LEMMA EndType ==
  ASSUME TypeOK, NEW e \in Executors,
         \/ Judge(e) \/ Complete(e) \/ Evaluate(e) \/ Fail(e)
         \/ CallRefused(e) \/ SaveFails(e)
  PROVE  TypeOK'
<1> USE DEF Outside, OnlyMoves, TypeOK
<1>1. CASE Judge(e)
  BY <1>1, PlacesFacts, GotoType DEF Judge, Driving
<1>2. CASE Complete(e)
  <2>1. run' \in Run
    BY <1>2 DEF Complete, Run, Endings
  <2> QED
    BY <1>2, <2>1, PlacesFacts, GotoType, RunFields, KindsFacts, LogsType
       DEF Complete, Driving, Endings
<1>3. CASE Evaluate(e)
  BY <1>3, PlacesFacts, GotoType, RunFields, KindsFacts, LogsType DEF Evaluate, Run
<1>4. CASE Fail(e)
  BY <1>4, PlacesFacts, GotoType, FinishesType DEF Fail, Endings
<1>5. Afterwards(pc[e]) \in Places
  BY PlacesFacts DEF Afterwards, Driving
<1>6. CASE CallRefused(e)
  BY <1>5, <1>6, GotoType DEF CallRefused
<1>7. CASE SaveFails(e)
  BY <1>5, <1>7, GotoType DEF SaveFails
<1> QED
  BY <1>1, <1>2, <1>3, <1>4, <1>6, <1>7

(* The window and a restart keep the types.                                *)
LEMMA WindowType ==
  ASSUME TypeOK, CreateCommand \/ StartCommand \/ CancelCommand \/ Restart \/ UNCHANGED vars
  PROVE  TypeOK'
<1> USE DEF Outside, TypeOK
<1>1. CASE CreateCommand
  BY <1>1, RunFields, KindsFacts, LogsType DEF CreateCommand, Run
<1>2. CASE StartCommand
  BY <1>2, RunFields, KindsFacts, LogsType DEF StartCommand, Run
<1>3. CASE CancelCommand
  BY <1>3, FinishesType DEF CancelCommand, Endings
<1>4. CASE Restart
  <2>1. Fresh \in Local
    BY DEF Fresh, Local, Answers, Results, MAX_CONSECUTIVE_MODEL_REJECTIONS
  <2>2. run' \in Run /\ log' \in Seq(Event)
    BY <1>4, FinishesType DEF Restart, Endings
  <2> QED
    BY <1>4, <2>1, <2>2, PlacesFacts, BudgetAssumption DEF Restart
<1>5. CASE UNCHANGED vars
  BY <1>5 DEF vars
<1> QED
  BY <1>1, <1>2, <1>3, <1>4, <1>5

(* Every step keeps the types, while rejections are within the tolerance.  *)
LEMMA TypeStep == TypeOK /\ Tolerance /\ [Next]_vars => TypeOK'
<1> SUFFICES ASSUME TypeOK, Tolerance, [Next]_vars PROVE TypeOK'
  OBVIOUS
<1>1. ASSUME NEW e \in Executors, Execution(e) \/ Proceeds(e) \/ SaveFails(e)
      PROVE  TypeOK'
  BY <1>1, SetupType, AnswerType, ExecuteType, ToolType, EndType DEF Proceeds
<1> QED
  BY <1>1, WindowType DEF Next

-----------------------------------------------------------------------------
(* Tolerance: a rejection is counted on the way to the head of the loop    *)
(* only while there are few of them.                                       *)

(* The tolerance is kept by whoever goes on only below it.                 *)
LEMMA ToleranceMove ==
  ASSUME TypeOK, Tolerance, NEW e \in Executors, NEW place, Goto(e, place),
         \A f \in Executors \ {e} : local'[f] = local[f],
         place \notin {"fail", "returned"} =>
           local'[e].rejections < MAX_CONSECUTIVE_MODEL_REJECTIONS
  PROVE  Tolerance'
<1> SUFFICES ASSUME NEW f \in Executors, pc'[f] \notin {"fail", "returned"}
             PROVE  local'[f].rejections < MAX_CONSECUTIVE_MODEL_REJECTIONS
  BY DEF Tolerance
<1>1. CASE f = e
  BY <1>1 DEF Goto, TypeOK
<1>2. CASE f # e
  BY <1>2 DEF Goto, TypeOK, Tolerance
<1> QED
  BY <1>1, <1>2

(* A step that leaves the local variables alone.                           *)
LEMMA ToleranceKept ==
  ASSUME TypeOK, Tolerance, NEW e \in Executors, NEW place, Goto(e, place),
         UNCHANGED local,
         pc[e] \in {"fail", "returned"} => place \in {"fail", "returned"}
  PROVE  Tolerance'
  BY ToleranceMove DEF Tolerance

(* Every step keeps the tolerance.                                         *)
LEMMA ToleranceStep == IInv /\ [Next]_vars => Tolerance'
<1> SUFFICES ASSUME IInv, [Next]_vars PROVE Tolerance'
  OBVIOUS
<1>0. TypeOK /\ Tolerance
  BY DEF IInv
<1>1. ASSUME NEW e \in Executors, Execution(e) \/ Proceeds(e) \/ SaveFails(e)
      PROVE  Tolerance'
  <2> USE <1>0
  <2>1. CASE Execution(e) \/ Configure(e) \/ Misconfigured(e) \/ ConfStart(e) \/ ConfFail(e)
             \/ Check(e) \/ Start(e)
    BY <2>1, ToleranceKept
       DEF Execution, Configure, Misconfigured, ConfStart, ConfFail, Check, Start, Calls,
           OnlyMoves
  <2>2. CASE Seed(e)
    <3>1. \A f \in Executors \ {e} : local'[f] = local[f]
      BY <2>2 DEF Seed, TypeOK
    <3>2. local'[e].rejections < MAX_CONSECUTIVE_MODEL_REJECTIONS
      BY <2>2 DEF Seed, Fresh, MAX_CONSECUTIVE_MODEL_REJECTIONS, TypeOK
    <3> QED
      BY <2>2, <3>1, <3>2, ToleranceMove DEF Seed
  <2>3. CASE AskNothing(e) \/ Ask(e)
    <3>1. PICK k, answer :
            local' = [local EXCEPT ![e] = [local[e] EXCEPT !.step = run.steps + 1,
                                                           !.answer = answer, !.spent = k]]
      BY <2>3 DEF AskNothing, Ask
    <3>2. \A f \in Executors \ {e} : local'[f] = local[f]
      BY <3>1 DEF TypeOK
    <3>3. local'[e].rejections = local[e].rejections
      BY <3>1, LocalFields DEF TypeOK, Local
    <3>4. local[e].rejections < MAX_CONSECUTIVE_MODEL_REJECTIONS
      BY <2>3 DEF AskNothing, Ask, Tolerance
    <3> QED
      BY <2>3, <3>2, <3>3, <3>4, ToleranceMove DEF AskNothing, Ask
  <2>4. CASE Commit(e) \/ Limited(e) \/ Blocked(e) \/ BlockScope(e) \/ Announce(e)
             \/ Store(e) \/ Record(e) \/ RecordNothing(e)
    BY <2>4, ToleranceKept
       DEF Commit, Limited, Blocked, BlockScope, Announce, Store, Record, RecordNothing,
           Committed, Records, Calls, OnlyMoves
  <2>5. CASE Receive(e)
    <3>1. PICK place : Goto(e, place)
      BY <2>5 DEF Receive
    <3> QED
      BY <2>5, <3>1, ToleranceKept DEF Receive, Records, Calls
  <2>6. CASE Reject(e)
    <3>1. \A f \in Executors \ {e} : local'[f] = local[f]
      BY <2>6 DEF Reject, TypeOK
    <3>2. local'[e].rejections = local[e].rejections + 1
      BY <2>6, LocalFields DEF Reject, TypeOK, Local
    <3>3. PICK place : /\ Goto(e, place)
                       /\ place = IF local[e].rejections + 1 < MAX_CONSECUTIVE_MODEL_REJECTIONS
                                  THEN "head" ELSE "fail"
      BY <2>6 DEF Reject
    <3> QED
      BY <3>1, <3>2, <3>3, ToleranceMove
  <2>7. CASE Prepare(e)
    <3>1. PICK place : Goto(e, place)
      BY <2>7 DEF Prepare
    <3> QED
      BY <2>7, <3>1, ToleranceKept DEF Prepare, OnlyMoves
  <2>8. CASE Execute(e)
    <3>1. CASE \E result, n, m : Brought(e, result, n, m)
      <4>1. PICK result, n, m : Brought(e, result, n, m)
        BY <3>1
      <4>2. \A f \in Executors \ {e} : local'[f] = local[f]
        BY <4>1 DEF Brought, TypeOK
      <4>3. local'[e].rejections = local[e].rejections
        BY <4>1, LocalFields DEF Brought, TypeOK, Local
      <4>4. local[e].rejections < MAX_CONSECUTIVE_MODEL_REJECTIONS
        BY <2>8 DEF Execute, Tolerance
      <4> QED
        BY <4>1, <4>2, <4>3, <4>4, ToleranceMove DEF Brought
    <3>2. CASE Goto(e, "fail") /\ UNCHANGED local
      BY <3>2, ToleranceKept
    <3> QED
      BY <2>8, <3>1, <3>2 DEF Execute
  <2>9. CASE Ingest(e)
    <3>1. CASE Goto(e, "fail") /\ UNCHANGED local
      BY <3>1, ToleranceKept
    <3>2. CASE Goto(e, "head") /\ local' = [local EXCEPT ![e] = Fresh]
      <4>1. \A f \in Executors \ {e} : local'[f] = local[f]
        BY <3>2 DEF TypeOK
      <4>2. local'[e].rejections = 0
        BY <3>2 DEF TypeOK, Fresh
      <4> QED
        BY <3>2, <4>1, <4>2, ToleranceMove DEF MAX_CONSECUTIVE_MODEL_REJECTIONS
    <3> QED
      BY <2>9, <3>1, <3>2 DEF Ingest
  <2>10. CASE Judge(e) \/ Complete(e) \/ Evaluate(e) \/ Fail(e)
    BY <2>10, ToleranceKept DEF Judge, Complete, Evaluate, Fail, Calls, OnlyMoves
  <2>11. CASE CallRefused(e) \/ SaveFails(e)
    <3>1. Goto(e, Afterwards(pc[e])) /\ UNCHANGED local
      BY <2>11 DEF CallRefused, SaveFails, OnlyMoves
    <3>2. pc[e] \in {"fail", "returned"} => Afterwards(pc[e]) \in {"fail", "returned"}
      BY DEF Afterwards
    <3> QED
      BY <3>1, <3>2, ToleranceKept
  <2> QED
    BY <1>1, <2>1, <2>2, <2>3, <2>4, <2>5, <2>6, <2>7, <2>8, <2>9, <2>10, <2>11
       DEF Proceeds
<1>2. CASE CreateCommand \/ StartCommand \/ CancelCommand \/ UNCHANGED vars
  BY <1>0, <1>2 DEF CreateCommand, StartCommand, CancelCommand, vars, Tolerance
<1>3. CASE Restart
  BY <1>3 DEF Restart, Tolerance, Fresh, MAX_CONSECUTIVE_MODEL_REJECTIONS
<1> QED
  BY <1>1, <1>2, <1>3 DEF Next

-----------------------------------------------------------------------------
(* The other parts: what kinds of steps there are, and what each keeps.    *)

Rest ==
  /\ OneDriver
  /\ Started
  /\ Outcome
  /\ Lateness
  /\ RunningIsAttended

(* The run looks as before.                                                *)
SameRun ==
  /\ run'.status = run.status
  /\ run'.output = run.output
  /\ run'.evaluated = run.evaluated
  /\ byWindow' = byWindow

(* Where everybody is after one execution has moved.                       *)
LEMMA PlacesAfter ==
  ASSUME TypeOK, NEW e \in Executors, NEW place, Goto(e, place)
  PROVE  \A f \in Executors : pc'[f] = IF f = e THEN place ELSE pc[f]
  BY DEF TypeOK, Goto

(* The driver makes a call, which is answered.                             *)
LEMMA DriverGoesOn ==
  ASSUME IInv, NEW e \in Executors, NEW place \in Driving, Goto(e, place),
         pc[e] \in Driving, place # "evaluate", SameRun, late' = late,
         faults' = faults \/ faults' # 0,
         pc[e] \in Refusals => place \in Refusals \/ run.status = "Running"
  PROVE  Rest'
<1>1. \A f \in Executors : pc'[f] = IF f = e THEN place ELSE pc[f]
  BY PlacesAfter DEF IInv
<1>2. OneDriver'
  BY <1>1 DEF IInv, OneDriver, Drives
<1>3. Started'
  BY <1>1 DEF IInv, Started, Drives, Begun, SameRun, Driving
<1>4. Outcome'
  BY <1>1 DEF IInv, Outcome, SameRun
<1>5. Lateness'
  BY <1>1 DEF IInv, Lateness, Drives, SameRun, Ended, Endings
<1>6. RunningIsAttended'
  BY <1>1 DEF IInv, RunningIsAttended, Drives, SameRun
<1> QED
  BY <1>2, <1>3, <1>4, <1>5, <1>6 DEF Rest

(* The driver reaches out: to the model or through a tool.                 *)
LEMMA DriverReachesOut ==
  ASSUME IInv, NEW e \in Executors, NEW place \in Refusals, Goto(e, place),
         pc[e] \in Driving \ Refusals, SameRun, faults' = faults, Begins
  PROVE  Rest'
<1>1. \A f \in Executors : pc'[f] = IF f = e THEN place ELSE pc[f]
  BY PlacesAfter DEF IInv
<1>2. place \in Driving /\ place # "evaluate"
  BY DEF Refusals, Driving
<1>3. OneDriver'
  BY <1>1, <1>2 DEF IInv, OneDriver, Drives
<1>4. Started'
  BY <1>1, <1>2 DEF IInv, Started, Drives, Begun, SameRun, Driving
<1>5. Outcome'
  BY <1>1, <1>2 DEF IInv, Outcome, SameRun
<1>6. late = 0
  BY DEF IInv, Lateness, Drives
<1>7. late' = IF Ended THEN 1 ELSE 0
  BY <1>6 DEF Begins
<1>8. \A f \in Executors : Drives(f)' => pc'[f] \in Refusals
  BY <1>1 DEF IInv, OneDriver, Drives
<1>9. Lateness'
  BY <1>7, <1>8 DEF Lateness, SameRun, Ended
<1>10. RunningIsAttended'
  BY <1>1, <1>2 DEF IInv, RunningIsAttended, Drives, SameRun
<1> QED
  BY <1>3, <1>4, <1>5, <1>9, <1>10 DEF Rest

(* The driver gives up, because a call was refused or a save failed.       *)
LEMMA DriverLeaves ==
  ASSUME IInv, NEW e \in Executors, Goto(e, "returned"), SameRun, late' = late,
         run.status # "Running" \/ faults' # 0 \/ pc[e] \notin Driving \cup {"conf_fail"},
         faults' = faults \/ faults' # 0,
         pc[e] # "idle"
  PROVE  Rest'
<1>1. \A f \in Executors : pc'[f] = IF f = e THEN "returned" ELSE pc[f]
  BY PlacesAfter DEF IInv
<1>2. OneDriver'
  BY <1>1 DEF IInv, OneDriver, Drives, Driving
<1>3. Started'
  BY <1>1 DEF IInv, Started, Drives, Begun, SameRun, Driving
<1>4. Outcome'
  BY <1>1 DEF IInv, Outcome, SameRun
<1>5. Lateness'
  BY <1>1 DEF IInv, Lateness, Drives, SameRun, Ended, Driving
<1>6. RunningIsAttended'
  BY <1>1 DEF IInv, RunningIsAttended, Drives, SameRun, Driving
<1> QED
  BY <1>2, <1>3, <1>4, <1>5, <1>6 DEF Rest

(* An execution that does not drive the run, before or after.              *)
LEMMA OnlookerMoves ==
  ASSUME IInv, NEW e \in Executors, NEW place, Goto(e, place), SameRun, late' = late,
         pc[e] \notin Driving \cup {"conf_fail"}, place \notin Driving \cup {"idle"},
         faults' = faults \/ faults' # 0,
         run.status # "Absent"
  PROVE  Rest'
<1>1. \A f \in Executors : pc'[f] = IF f = e THEN place ELSE pc[f]
  BY PlacesAfter DEF IInv
<1>2. OneDriver'
  BY <1>1 DEF IInv, OneDriver, Drives
<1>3. Started'
  BY <1>1 DEF IInv, Started, Drives, Begun, SameRun
<1>4. "evaluate" \in Driving
  BY DEF Driving
<1>5. Outcome'
  BY <1>1, <1>4 DEF IInv, Outcome, SameRun
<1>6. Lateness'
  BY <1>1 DEF IInv, Lateness, Drives, SameRun, Ended
<1>7. RunningIsAttended'
  BY <1>1 DEF IInv, RunningIsAttended, Drives, SameRun
<1> QED
  BY <1>2, <1>3, <1>5, <1>6, <1>7 DEF Rest

(* The run ends otherwise than by a completion.                            *)
LEMMA RunEnds ==
  ASSUME IInv, NEW e \in Executors, Goto(e, "returned"), run.status = "Running",
         NEW ending \in Endings \ {"Completed"}, run' = [run EXCEPT !.status = ending],
         late' = late
  PROVE  Rest'
<1>1. \A f \in Executors : pc'[f] = IF f = e THEN "returned" ELSE pc[f]
  BY PlacesAfter DEF IInv
<1>2. run'.status = ending /\ run'.output = run.output /\ run'.evaluated = run.evaluated
  BY DEF IInv, TypeOK, Run
<1>3. OneDriver'
  BY <1>1 DEF IInv, OneDriver, Drives, Driving
<1>4. Started'
  BY <1>1, <1>2 DEF IInv, Started, Drives, Begun, Endings, Driving
<1>5. Outcome'
  BY <1>1, <1>2 DEF IInv, Outcome
<1>6. Lateness'
  BY <1>1, <1>2 DEF IInv, Lateness, Drives, Ended, Endings
<1>7. RunningIsAttended'
  BY <1>2 DEF RunningIsAttended, Endings
<1> QED
  BY <1>3, <1>4, <1>5, <1>6, <1>7 DEF Rest

(* The run starts: a driver appears, or the execution that will fail it,   *)
(* or neither if the window started it.                                    *)
LEMMA RunStarts ==
  ASSUME IInv, run.status = "Created", run' = [run EXCEPT !.status = "Running"],
         late' = late,
         \/ \E e \in Executors, place \in {"seed", "conf_fail"} :
              pc[e] # "idle" /\ Goto(e, place)
         \/ UNCHANGED pc /\ byWindow'
  PROVE  Rest'
<1>1. run'.status = "Running" /\ run'.output = run.output /\ run'.evaluated = run.evaluated
  BY DEF IInv, TypeOK, Run
<1>2. \A f \in Executors : ~Drives(f)
  BY DEF IInv, Started, Begun
<1>3. late = 0
  BY DEF IInv, Lateness, Ended, Endings, TypeOK
<1>4. CASE UNCHANGED pc /\ byWindow'
  BY <1>1, <1>2, <1>3, <1>4
     DEF Rest, IInv, OneDriver, Started, Outcome, Lateness, RunningIsAttended, Drives, Begun
<1>5. ASSUME NEW e \in Executors, NEW place \in {"seed", "conf_fail"}, pc[e] # "idle",
             Goto(e, place)
      PROVE  Rest'
  <2>1. \A f \in Executors : pc'[f] = IF f = e THEN place ELSE pc[f]
    BY <1>5, PlacesAfter DEF IInv
  <2>2. OneDriver'
    BY <1>2, <2>1 DEF OneDriver, Drives
  <2>3. Started'
    BY <1>1, <1>2, <2>1 DEF Started, Begun
  <2>4. Outcome'
    BY <1>1, <2>1 DEF IInv, Outcome
  <2>5. Lateness'
    BY <1>3 DEF Lateness
  <2>6. RunningIsAttended'
    BY <2>1 DEF RunningIsAttended, Drives, Driving
  <2> QED
    BY <2>2, <2>3, <2>4, <2>5, <2>6 DEF Rest
<1> QED
  BY <1>4, <1>5

(* complete_run keeps the rest: the driver goes on to the evaluation.      *)
LEMMA RunCompletes ==
  ASSUME IInv, NEW e \in Executors, Complete(e)
  PROVE  Rest'
<1>1. \A f \in Executors : pc'[f] = IF f = e THEN "evaluate" ELSE pc[f]
  BY PlacesAfter DEF IInv, Complete
<1>2. PICK cited \in SUBSET run.evidence :
        run' = [run EXCEPT !.status = "Completed", !.output = cited]
  BY DEF Complete
<1>3. run'.status = "Completed" /\ run'.output = cited /\ run'.evaluated = run.evaluated
  BY <1>2 DEF IInv, TypeOK, Run
<1>4. run.status = "Running" /\ pc[e] = "complete"
  BY DEF Complete, Calls
<1>5. OneDriver'
  BY <1>1, <1>4 DEF IInv, OneDriver, Drives, Driving
<1>6. Started'
  BY <1>1, <1>3 DEF IInv, Started, Drives, Begun
<1>7. cited # NoOutput
  BY OutputAssumption, RunFields DEF IInv
<1>8. Outcome'
  BY <1>1, <1>3, <1>4, <1>7, RunFields DEF IInv, Outcome
<1>9. late = 0
  BY <1>4 DEF IInv, Lateness, Ended, Endings, TypeOK
<1>10. Lateness'
  BY <1>9 DEF Complete, Outside, Lateness
<1>11. RunningIsAttended'
  BY <1>3 DEF RunningIsAttended
<1> QED
  BY <1>5, <1>6, <1>8, <1>10, <1>11 DEF Rest

(* set_evaluation_result keeps the rest: nobody drives any more.           *)
LEMMA RunIsEvaluated ==
  ASSUME IInv, NEW e \in Executors, Evaluate(e)
  PROVE  Rest'
<1>1. \A f \in Executors : pc'[f] = IF f = e THEN "returned" ELSE pc[f]
  BY PlacesAfter DEF IInv, Evaluate
<1>2. run.status = "Completed" /\ Drives(e)
  BY DEF Evaluate, IInv, Outcome, Drives, Driving
<1>3. run'.status = run.status /\ run'.output = run.output /\ run'.evaluated = TRUE
  BY DEF Evaluate, IInv, TypeOK, Run
<1>4. OneDriver'
  BY <1>1 DEF IInv, OneDriver, Drives, Driving
<1>5. Started'
  BY <1>1, <1>3 DEF IInv, Started, Drives, Begun, Driving, Evaluate
<1>6. Outcome'
  BY <1>1, <1>2, <1>3 DEF IInv, Outcome, OneDriver, Drives, Driving
<1>7. Lateness'
  BY <1>1, <1>3 DEF IInv, Lateness, Drives, Ended, Driving, Evaluate, Outside
<1>8. RunningIsAttended'
  BY <1>2, <1>3 DEF RunningIsAttended
<1> QED
  BY <1>4, <1>5, <1>6, <1>7, <1>8 DEF Rest

(* What every action of an execution amounts to.                           *)
LEMMA SetupRest ==
  ASSUME IInv, NEW e \in Executors,
         \/ Execution(e) \/ Configure(e) \/ Misconfigured(e) \/ ConfStart(e) \/ ConfFail(e)
         \/ Check(e) \/ Start(e) \/ Seed(e)
  PROVE  Rest'
<1>0. pc[e] # "idle" => run.status # "Absent"
  BY DEF IInv, Started
<1>1. CASE Execution(e) \/ Configure(e) \/ Misconfigured(e)
  <2>1. SameRun /\ late' = late /\ faults' = faults
    BY <1>1 DEF Execution, Configure, Misconfigured, OnlyMoves, SameRun
  <2>2. PICK place \in {"configure", "check", "misconfigured", "conf_start", "returned"} :
          Goto(e, place)
    BY <1>1 DEF Execution, Configure, Misconfigured
  <2>3. run.status # "Absent" /\ pc[e] \in {"idle", "configure", "misconfigured"}
    BY <1>0, <1>1 DEF Execution, Configure, Misconfigured
  <2> QED
    BY <2>1, <2>2, <2>3, OnlookerMoves DEF Driving
<1>2. CASE ConfStart(e)
  BY <1>2, RunStarts DEF ConfStart, Outside
<1>3. CASE ConfFail(e)
  BY <1>3, RunEnds DEF ConfFail, Calls, Finishes, Outside, Endings
<1>4. CASE Check(e)
  <2>1. SameRun /\ late' = late /\ faults' = faults
    BY <1>4 DEF Check, OnlyMoves, SameRun
  <2>2. PICK place \in {"start", "returned"} : Goto(e, place)
    BY <1>4 DEF Check
  <2> QED
    BY <1>0, <1>4, <2>1, <2>2, OnlookerMoves DEF Check, Driving
<1>5. CASE Start(e)
  BY <1>5, RunStarts DEF Start, Outside
<1>6. CASE Seed(e)
  <2>1. SameRun /\ late' = late /\ faults' = faults
    BY <1>6 DEF Seed, Outside, SameRun
  <2> QED
    BY <1>6, <2>1, DriverGoesOn DEF Seed, Driving, Refusals
<1> QED
  BY <1>1, <1>2, <1>3, <1>4, <1>5, <1>6

(* The steps around an answer keep the rest.                               *)
LEMMA AnswerRest ==
  ASSUME IInv, NEW e \in Executors,
         \/ AskNothing(e) \/ Ask(e) \/ Commit(e) \/ Receive(e) \/ Reject(e)
  PROVE  Rest'
<1>1. CASE AskNothing(e)
  <2>1. SameRun /\ late' = late /\ faults' = faults
    BY <1>1 DEF AskNothing, Outside, SameRun
  <2> QED
    BY <1>1, <2>1, DriverGoesOn DEF AskNothing, Driving, Refusals
<1>2. CASE Ask(e)
  <2>1. SameRun /\ faults' = faults
    BY <1>2 DEF Ask, SameRun
  <2> QED
    BY <1>2, <2>1, DriverReachesOut DEF Ask, Driving, Refusals
<1>3. CASE Commit(e)
  <2>1. SameRun /\ late' = late /\ faults' = faults
    BY <1>3 DEF Commit, Outside, SameRun, IInv, TypeOK, Run
  <2>2. PICK place \in {"fail", "receive"} : Goto(e, place)
    BY <1>3 DEF Commit
  <2> QED
    BY <1>3, <2>1, <2>2, DriverGoesOn DEF Commit, Committed, Calls, Driving, Refusals
<1>4. CASE Receive(e)
  <2>1. SameRun /\ late' = late /\ faults' = faults
    BY <1>4 DEF Receive, Outside, SameRun
  <2>2. PICK place \in {"prepare", "judge", "reject"} : Goto(e, place)
    BY <1>4 DEF Receive
  <2> QED
    BY <1>4, <2>1, <2>2, DriverGoesOn DEF Receive, Records, Calls, Driving, Refusals
<1>5. CASE Reject(e)
  <2>1. SameRun /\ late' = late /\ faults' = faults
    BY <1>5 DEF Reject, Outside, SameRun
  <2>2. PICK place \in {"head", "fail"} : Goto(e, place)
    BY <1>5 DEF Reject
  <2> QED
    BY <1>5, <2>1, <2>2, DriverGoesOn DEF Reject, Records, Calls, Driving, Refusals
<1> QED
  BY <1>1, <1>2, <1>3, <1>4, <1>5

(* The steps around a tool keep the rest.                                  *)
LEMMA ToolRest ==
  ASSUME IInv, NEW e \in Executors,
         \/ Prepare(e) \/ Limited(e) \/ Blocked(e) \/ BlockScope(e) \/ Announce(e)
         \/ Execute(e) \/ Store(e) \/ Record(e) \/ RecordNothing(e) \/ Ingest(e)
  PROVE  Rest'
<1>1. CASE Prepare(e)
  <2>1. SameRun /\ late' = late /\ faults' = faults
    BY <1>1 DEF Prepare, OnlyMoves, SameRun
  <2>2. PICK place \in {"announce", "reject", "blocked", "prepare_again", "limited"} :
          Goto(e, place)
    BY <1>1 DEF Prepare
  <2>3. pc[e] \in {"prepare", "prepare_again"}
    BY <1>1 DEF Prepare
  <2> QED
    BY <2>1, <2>2, <2>3, DriverGoesOn DEF Driving, Refusals
<1>2. CASE Limited(e) \/ Blocked(e) \/ Announce(e)
  <2>1. SameRun /\ late' = late /\ faults' = faults
    BY <1>2 DEF Limited, Blocked, Announce, Outside, SameRun
  <2>2. PICK place \in {"head", "block", "execute"} : Goto(e, place)
    BY <1>2 DEF Limited, Blocked, Announce
  <2>3. pc[e] \in {"limited", "blocked", "announce"}
    BY <1>2 DEF Limited, Blocked, Announce, Records, Calls
  <2> QED
    BY <2>1, <2>2, <2>3, DriverGoesOn DEF Driving, Refusals
<1>3. CASE BlockScope(e)
  BY <1>3, RunEnds DEF BlockScope, Calls, Finishes, Outside, Endings
<1>4. CASE Execute(e)
  <2>1. SameRun /\ faults' = faults /\ Begins
    BY <1>4 DEF Execute, SameRun
  <2>2. PICK place \in {"store", "fail"} : Goto(e, place)
    BY <1>4 DEF Execute, Brought
  <2>3. pc[e] = "execute"
    BY <1>4 DEF Execute
  <2> QED
    BY <2>1, <2>2, <2>3, DriverReachesOut DEF Driving, Refusals
<1>5. CASE Store(e) \/ Record(e) \/ RecordNothing(e)
  <2>1. SameRun /\ late' = late /\ faults' = faults
    BY <1>5 DEF Store, Record, RecordNothing, Outside, OnlyMoves, SameRun, IInv, TypeOK, Run
  <2>2. PICK place \in {"record", "ingest"} : Goto(e, place)
    BY <1>5 DEF Store, Record, RecordNothing
  <2>3. pc[e] \in {"store", "record"} /\ (pc[e] = "store" => run.status = "Running")
    BY <1>5 DEF Store, Record, RecordNothing, Calls
  <2> QED
    BY <2>1, <2>2, <2>3, DriverGoesOn DEF Driving, Refusals
<1>6. CASE Ingest(e)
  <2>1. SameRun /\ late' = late /\ faults' = faults
    BY <1>6 DEF Ingest, Outside, SameRun
  <2>2. PICK place \in {"fail", "head"} : Goto(e, place)
    BY <1>6 DEF Ingest
  <2>3. pc[e] = "ingest"
    BY <1>6 DEF Ingest
  <2> QED
    BY <2>1, <2>2, <2>3, DriverGoesOn DEF Driving, Refusals
<1> QED
  BY <1>1, <1>2, <1>3, <1>4, <1>5, <1>6

(* The steps that end a run keep the rest.                                 *)
LEMMA EndRest ==
  ASSUME IInv, NEW e \in Executors, Judge(e) \/ Complete(e) \/ Evaluate(e) \/ Fail(e)
  PROVE  Rest'
<1>1. CASE Judge(e)
  <2>1. SameRun /\ late' = late /\ faults' = faults
    BY <1>1 DEF Judge, OnlyMoves, SameRun
  <2>2. PICK place \in {"complete", "reject"} : Goto(e, place)
    BY <1>1 DEF Judge
  <2>3. pc[e] = "judge"
    BY <1>1 DEF Judge
  <2> QED
    BY <2>1, <2>2, <2>3, DriverGoesOn DEF Driving, Refusals
<1>2. CASE Complete(e)
  BY <1>2, RunCompletes
<1>3. CASE Evaluate(e)
  BY <1>3, RunIsEvaluated
<1>4. CASE Fail(e)
  BY <1>4, RunEnds DEF Fail, Calls, Finishes, Outside, Endings
<1> QED
  BY <1>1, <1>2, <1>3, <1>4

(* A step no smaller than the run's is one that record_event takes, if it  *)
(* is the run's.                                                           *)
LEMMA InOrder ==
  ASSUME IInv, NEW e \in Executors
  PROVE  /\ pc[e] \in Recording => KeepsOrder(local[e].step)
         /\ pc[e] = "commit" => ~(local[e].step < run.steps)
<1>1. run.steps \in Nat /\ local[e].step \in Nat /\ log \in Seq(Event)
  BY RunFields, LocalFields DEF IInv, TypeOK
<1>2. ASSUME pc[e] \in Recording
      PROVE  KeepsOrder(local[e].step)
  <2>1. local[e].step = run.steps
    BY <1>2 DEF IInv, InStep, Recording, Iterating
  <2>2. log # <<>> => Len(log) \in DOMAIN log
    BY <1>1
  <2> QED
    BY <1>1, <2>1, <2>2 DEF IInv, StepsOrdered, KeepsOrder
<1>3. ASSUME pc[e] = "commit"
      PROVE  ~(local[e].step < run.steps)
  <2>1. local[e].step = run.steps + 1
    BY <1>3 DEF IInv, InStep
  <2> QED
    BY <1>1, <2>1
<1> QED
  BY <1>2, <1>3

(* A call that is refused, or whose save fails, keeps the rest.            *)
LEMMA ErrorRest ==
  ASSUME IInv, NEW e \in Executors, CallRefused(e) \/ SaveFails(e)
  PROVE  Rest'
<1>0. pc[e] # "idle" => run.status # "Absent"
  BY DEF IInv, Started
<1>1. SameRun /\ late' = late /\ Goto(e, Afterwards(pc[e]))
  BY DEF CallRefused, SaveFails, OnlyMoves, SameRun
<1>2. pc[e] \in CallsForCreated \cup CallsForRunning \cup {"evaluate"}
  BY DEF CallRefused, Refused, SaveFails, CallsForRunning, Recording
<1>4. faults' = faults \/ faults' # 0
  BY DEF CallRefused, SaveFails, OnlyMoves, IInv, TypeOK
<1>5. pc[e] # "idle" /\ pc[e] # "returned"
  BY <1>2 DEF CallsForCreated, CallsForRunning
<1>6. CASE pc[e] = "conf_start"
  <2>1. Goto(e, "conf_fail")
    BY <1>1, <1>6 DEF Afterwards
  <2> QED
    BY <1>0, <1>1, <1>4, <1>6, <2>1, OnlookerMoves DEF Driving
<1>7. CASE pc[e] \in {"store", "record", "ingest"}
  <2>1. Goto(e, "fail")
    BY <1>1, <1>7 DEF Afterwards
  <2> QED
    BY <1>1, <1>4, <1>7, <2>1, DriverGoesOn DEF Driving, Refusals
<1>8. CASE pc[e] \notin {"conf_start", "store", "record", "ingest"}
  <2>1. Goto(e, "returned")
    BY <1>1, <1>8 DEF Afterwards
  <2>2. \/ run.status # "Running" \/ faults' # 0 \/ pc[e] = "start"
    BY <1>2, <1>8, InOrder
       DEF CallRefused, SaveFails, Refused, CallsForCreated, IInv, TypeOK
  <2> QED
    BY <1>1, <1>4, <1>5, <2>1, <2>2, DriverLeaves DEF Driving
<1> QED
  BY <1>6, <1>7, <1>8

(* The window and a restart keep the rest.                                 *)
LEMMA WindowRest ==
  ASSUME IInv, CreateCommand \/ StartCommand \/ CancelCommand \/ Restart \/ UNCHANGED vars
  PROVE  Rest'
<1>1. CASE CreateCommand
  <2>1. run'.status = "Created" /\ run'.output = run.output /\ run'.evaluated = run.evaluated
    BY <1>1 DEF CreateCommand, IInv, TypeOK, Run
  <2>2. \A e \in Executors : pc[e] = "idle"
    BY <1>1 DEF CreateCommand, IInv, Started
  <2>3. late = 0
    BY <1>1 DEF CreateCommand, IInv, Lateness, Ended, Endings, TypeOK
  <2> QED
    BY <1>1, <2>1, <2>2, <2>3
       DEF CreateCommand, Outside, IInv, Rest, OneDriver, Started, Outcome, Lateness,
           RunningIsAttended, Drives, Driving
<1>2. CASE StartCommand
  BY <1>2, RunStarts DEF StartCommand
<1>3. CASE CancelCommand
  <2>1. run'.status = "Cancelled" /\ run'.output = run.output /\ run'.evaluated = run.evaluated
    BY <1>3 DEF CancelCommand, Finishes, IInv, TypeOK, Run
  <2>2. late = 0
    BY <1>3 DEF CancelCommand, IInv, Lateness, Ended, Endings, TypeOK
  <2> QED
    BY <1>3, <2>1, <2>2
       DEF CancelCommand, Outside, IInv, Rest, OneDriver, Started, Outcome, Lateness,
           RunningIsAttended, Drives, Begun
<1>4. CASE Restart
  <2>1. /\ run'.status = IF run.status = "Running" THEN "Failed" ELSE run.status
        /\ run'.output = run.output /\ run'.evaluated = run.evaluated
    BY <1>4 DEF Restart, Finishes, IInv, TypeOK, Run
  <2>2. \A e \in Executors : pc'[e] = "idle"
    BY <1>4 DEF Restart
  <2>3. late' = late
    BY <1>4 DEF Restart
  <2> QED
    BY <2>1, <2>2, <2>3
       DEF IInv, Rest, OneDriver, Started, Outcome, Lateness, RunningIsAttended, Drives,
           Driving, Ended, Endings
<1>5. CASE UNCHANGED vars
  BY <1>5
     DEF vars, IInv, Rest, OneDriver, Started, Outcome, Lateness, RunningIsAttended, Drives,
         Begun, Ended
<1> QED
  BY <1>1, <1>2, <1>3, <1>4, <1>5

-----------------------------------------------------------------------------
(* Steps: what is written down carries the step the run is in.             *)

(* An event of the step the run is in, or comes to, keeps the log ordered. *)
LEMMA LogGrows ==
  ASSUME IInv, NEW kind, NEW step \in Nat, Logs(kind, step),
         run.steps <= step, step <= run'.steps, run'.steps \in Nat
  PROVE  StepsOrdered'
<1> DEFINE n == Len(log)
           e == [kind |-> kind, step |-> step]
<1>1. /\ log \in Seq(Event) /\ run.steps \in Nat
      /\ \A i \in DOMAIN log : log[i].step <= run.steps
      /\ \A i, j \in DOMAIN log : i < j => log[i].step <= log[j].step
  BY RunFields DEF IInv, TypeOK, StepsOrdered
<1>2. /\ n \in Nat /\ DOMAIN log = 1 .. n /\ DOMAIN log' = 1 .. (n + 1)
      /\ \A i \in 1 .. n : log'[i] = log[i]
      /\ log'[n + 1] = e
  BY <1>1 DEF Logs
<1>3. \A i \in 1 .. n : log[i].step \in Nat
  <2>1. \A i \in 1 .. n : log[i] \in Event
    BY <1>1
  <2> QED
    BY <2>1 DEF Event
<1>4. e.step = step
  OBVIOUS
<1> HIDE DEF n, e
<1>5. \A i \in DOMAIN log' : i \in 1 .. n \/ i = n + 1
  BY <1>2
<1>6. \A i \in DOMAIN log' : log'[i].step \in Nat /\ log'[i].step <= step
  BY <1>1, <1>2, <1>3, <1>4, <1>5
<1>7. ASSUME NEW i \in DOMAIN log', NEW j \in DOMAIN log', i < j
      PROVE  log'[i].step <= log'[j].step
  <2>1. i \in 1 .. n
    BY <1>2, <1>7
  <2> QED
    BY <1>1, <1>2, <1>4, <1>5, <1>6, <1>7, <2>1
<1> QED
  BY <1>6, <1>7 DEF StepsOrdered

(* An event of the step the run is in and stays in.                        *)
LEMMA LogGoesOn ==
  ASSUME IInv, NEW kind, Logs(kind, run.steps), run'.steps = run.steps
  PROVE  StepsOrdered'
  BY RunFields, LogGrows DEF IInv

(* Nothing is logged.                                                      *)
LEMMA LogKept ==
  ASSUME IInv, log' = log, run'.steps = run.steps
  PROVE  StepsOrdered'
  BY DEF IInv, StepsOrdered

(* An execution moves, and its step is right where it comes to.            *)
LEMMA InStepMove ==
  ASSUME IInv, NEW e \in Executors, NEW place, Goto(e, place), run'.steps = run.steps,
         \A f \in Executors \ {e} : local'[f] = local[f],
         place \in Iterating => local'[e].step = run.steps,
         place = "commit" => local'[e].step = run.steps + 1
  PROVE  InStep'
<1>1. \A f \in Executors : pc'[f] = IF f = e THEN place ELSE pc[f]
  BY PlacesAfter DEF IInv
<1> QED
  BY <1>1 DEF IInv, InStep

(* It moves within its iteration, or out of it.                            *)
LEMMA InStepKept ==
  ASSUME IInv, NEW e \in Executors, NEW place, Goto(e, place), run'.steps = run.steps,
         UNCHANGED local, place # "commit", place \in Iterating => pc[e] \in Iterating
  PROVE  InStep'
<1>1. pc[e] \in Iterating => local[e].step = run.steps
  BY DEF IInv, InStep
<1> QED
  BY <1>1, InStepMove

Ordered == InStep /\ StepsOrdered

(* The steps that write nothing down keep it.                              *)
LEMMA SilentOrder ==
  ASSUME IInv, NEW e \in Executors,
         \/ Execution(e) \/ Configure(e) \/ Misconfigured(e) \/ Check(e) \/ Seed(e)
         \/ AskNothing(e) \/ Ask(e) \/ Prepare(e) \/ Execute(e) \/ RecordNothing(e)
         \/ Ingest(e) \/ Judge(e) \/ CallRefused(e) \/ SaveFails(e)
  PROVE  Ordered'
<1>0. TypeOK /\ (pc[e] \in Iterating => local[e].step = run.steps)
  BY DEF IInv, InStep
<1>1. log' = log /\ run' = run
  BY DEF Execution, Configure, Misconfigured, Check, Seed, AskNothing, Ask, Prepare, Execute,
         RecordNothing, Ingest, Judge, CallRefused, SaveFails, OnlyMoves
<1>2. StepsOrdered'
  BY <1>1, LogKept
<1>3. CASE Execution(e) \/ Configure(e) \/ Misconfigured(e) \/ Check(e)
  <2>1. PICK place : Goto(e, place) /\ place \notin Iterating \cup {"commit"}
    BY <1>3 DEF Execution, Configure, Misconfigured, Check, Iterating
  <2>2. UNCHANGED local
    BY <1>3 DEF Execution, Configure, Misconfigured, Check, OnlyMoves
  <2>3. InStep'
    BY <1>1, <2>1, <2>2, InStepKept
  <2> QED
    BY <1>2, <2>3 DEF Ordered
<1>4. CASE Seed(e) \/ Ingest(e)
  <2>1. PICK place : Goto(e, place) /\ place \notin Iterating \cup {"commit"}
    BY <1>4 DEF Seed, Ingest, Iterating
  <2>2. \A f \in Executors \ {e} : local'[f] = local[f]
    BY <1>0, <1>4 DEF Seed, Ingest, TypeOK
  <2>3. InStep'
    BY <1>1, <2>1, <2>2, InStepMove
  <2> QED
    BY <1>2, <2>3 DEF Ordered
<1>5. CASE AskNothing(e) \/ Ask(e)
  <2>1. PICK k, answer :
          local' = [local EXCEPT ![e] = [local[e] EXCEPT !.step = run.steps + 1,
                                                         !.answer = answer, !.spent = k]]
    BY <1>5 DEF AskNothing, Ask
  <2>2. \A f \in Executors \ {e} : local'[f] = local[f]
    BY <1>0, <2>1 DEF TypeOK
  <2>3. local'[e].step = run.steps + 1
    BY <1>0, <2>1, LocalFields DEF TypeOK, Local
  <2>4. Goto(e, "commit") /\ "commit" \notin Iterating
    BY <1>5 DEF AskNothing, Ask, Iterating
  <2>5. InStep'
    BY <1>1, <2>2, <2>3, <2>4, InStepMove
  <2> QED
    BY <1>2, <2>5 DEF Ordered
<1>6. CASE Prepare(e) \/ RecordNothing(e) \/ Judge(e)
  <2>1. PICK place : Goto(e, place) /\ place # "commit"
    BY <1>6 DEF Prepare, RecordNothing, Judge
  <2>2. UNCHANGED local /\ pc[e] \in Iterating
    BY <1>6 DEF Prepare, RecordNothing, Judge, OnlyMoves, Iterating
  <2>3. InStep'
    BY <1>1, <2>1, <2>2, InStepKept
  <2> QED
    BY <1>2, <2>3 DEF Ordered
<1>7. CASE Execute(e)
  <2>1. pc[e] \in Iterating
    BY <1>7 DEF Execute, Iterating
  <2>2. CASE \E result, n, m : Brought(e, result, n, m)
    <3>1. PICK result, n, m : Brought(e, result, n, m)
      BY <2>2
    <3>2. \A f \in Executors \ {e} : local'[f] = local[f]
      BY <1>0, <3>1 DEF Brought, TypeOK
    <3>3. local'[e].step = local[e].step
      BY <1>0, <3>1, LocalFields DEF Brought, TypeOK, Local
    <3>4. Goto(e, "store")
      BY <3>1 DEF Brought
    <3>5. InStep'
      BY <1>0, <1>1, <2>1, <3>2, <3>3, <3>4, InStepMove
    <3> QED
      BY <1>2, <3>5 DEF Ordered
  <2>3. CASE Goto(e, "fail") /\ UNCHANGED local
    <3>1. "fail" \notin Iterating \cup {"commit"}
      BY DEF Iterating
    <3>2. InStep'
      BY <1>1, <2>3, <3>1, InStepKept
    <3> QED
      BY <1>2, <3>2 DEF Ordered
  <2> QED
    BY <1>7, <2>2, <2>3 DEF Execute
<1>8. CASE CallRefused(e) \/ SaveFails(e)
  <2>1. Goto(e, Afterwards(pc[e])) /\ UNCHANGED local
    BY <1>8 DEF CallRefused, SaveFails, OnlyMoves
  <2>2. Afterwards(pc[e]) \notin Iterating \cup {"commit"}
    BY DEF Afterwards, Iterating
  <2>3. InStep'
    BY <1>1, <2>1, <2>2, InStepKept
  <2> QED
    BY <1>2, <2>3 DEF Ordered
<1> QED
  BY <1>3, <1>4, <1>5, <1>6, <1>7, <1>8

(* Where the run starts or ends, the service logs the step it is in.       *)
LEMMA StatusOrder ==
  ASSUME IInv, NEW e \in Executors,
         \/ ConfStart(e) \/ ConfFail(e) \/ Start(e) \/ BlockScope(e) \/ Complete(e)
         \/ Evaluate(e) \/ Fail(e)
  PROVE  Ordered'
<1>1. \E kind : Logs(kind, run.steps)
  BY DEF ConfStart, ConfFail, Start, BlockScope, Complete, Evaluate, Fail, Finishes
<1>2. run'.steps = run.steps
  BY DEF ConfStart, ConfFail, Start, BlockScope, Complete, Evaluate, Fail, Finishes, IInv,
         TypeOK, Run
<1>3. StepsOrdered'
  BY <1>1, <1>2, LogGoesOn
<1>4. PICK place \in {"conf_fail", "seed", "evaluate", "returned"} : Goto(e, place)
  BY DEF ConfStart, ConfFail, Start, BlockScope, Complete, Evaluate, Fail
<1>. place \notin Iterating \cup {"commit"}
  BY DEF Iterating
<1>5. UNCHANGED local
  BY DEF ConfStart, ConfFail, Start, BlockScope, Complete, Evaluate, Fail
<1> QED
  BY <1>2, <1>3, <1>4, <1>5, InStepKept DEF Ordered

(* Within an iteration its step is logged, which is the run's.             *)
LEMMA IterationOrder ==
  ASSUME IInv, NEW e \in Executors,
         \/ Receive(e) \/ Reject(e) \/ Limited(e) \/ Blocked(e) \/ Announce(e)
         \/ Store(e) \/ Record(e)
  PROVE  Ordered'
<1>0. TypeOK
  BY DEF IInv
<1>1. pc[e] \in Iterating
  BY DEF Receive, Reject, Limited, Blocked, Announce, Store, Record, Records, Calls, Iterating
<1>2. local[e].step = run.steps
  BY <1>1 DEF IInv, InStep
<1>3. \E kind : Logs(kind, run.steps)
  BY <1>2 DEF Receive, Reject, Limited, Blocked, Announce, Store, Record, Records
<1>4. run'.steps = run.steps
  BY DEF Receive, Reject, Limited, Blocked, Announce, Store, Record, IInv, TypeOK, Run
<1>5. StepsOrdered'
  BY <1>3, <1>4, LogGoesOn
<1>6. PICK place : Goto(e, place) /\ place # "commit"
  BY DEF Receive, Reject, Limited, Blocked, Announce, Store, Record
<1>7. CASE Reject(e)
  <2>1. \A f \in Executors \ {e} : local'[f] = local[f]
    BY <1>0, <1>7 DEF Reject, TypeOK
  <2>2. local'[e].step = local[e].step
    BY <1>0, <1>7, LocalFields DEF Reject, TypeOK, Local
  <2> QED
    BY <1>2, <1>4, <1>5, <1>6, <2>1, <2>2, InStepMove DEF Ordered
<1>8. CASE ~Reject(e)
  <2>1. UNCHANGED local
    BY <1>8 DEF Receive, Limited, Blocked, Announce, Store, Record
  <2> QED
    BY <1>1, <1>4, <1>5, <1>6, <2>1, InStepKept DEF Ordered
<1> QED
  BY <1>7, <1>8

(* The commit of an answer takes the run to the step it was asked in, and  *)
(* nobody else is in an iteration.                                         *)
LEMMA CommitOrder ==
  ASSUME IInv, NEW e \in Executors, Commit(e)
  PROVE  Ordered'
<1>1. /\ pc[e] = "commit" /\ run.steps \in Nat /\ local[e].step = run.steps + 1
      /\ run'.steps = local[e].step /\ Logs("ModelCalled", local[e].step) /\ UNCHANGED local
  BY RunFields DEF Commit, Committed, Calls, IInv, InStep, TypeOK, Run
<1>2. local[e].step \in Nat /\ run.steps <= local[e].step
  BY <1>1
<1>3. StepsOrdered'
  BY <1>1, <1>2, LogGrows
<1>4. PICK place \in {"fail", "receive"} : Goto(e, place)
  BY DEF Commit
<1>5. \A f \in Executors : pc'[f] = IF f = e THEN place ELSE pc[f]
  BY <1>4, PlacesAfter DEF IInv
<1>6. \A f \in Executors \ {e} : pc[f] \notin Iterating \cup {"commit"}
  BY <1>1 DEF IInv, OneDriver, Drives, Driving, Iterating
<1>7. InStep'
  BY <1>1, <1>5, <1>6 DEF InStep
<1> QED
  BY <1>3, <1>7 DEF Ordered

(* The window and a restart log the step the run is in.                    *)
LEMMA WindowOrder ==
  ASSUME IInv, CreateCommand \/ StartCommand \/ CancelCommand \/ Restart \/ UNCHANGED vars
  PROVE  Ordered'
<1>1. run'.steps = run.steps
  BY DEF CreateCommand, StartCommand, CancelCommand, Restart, Finishes, vars, IInv, TypeOK, Run
<1>2. (\E kind : Logs(kind, run.steps)) \/ log' = log
  BY DEF CreateCommand, StartCommand, CancelCommand, Restart, Finishes, vars
<1>3. StepsOrdered'
  BY <1>1, <1>2, LogGoesOn, LogKept
<1>4. CASE Restart
  <2>1. InStep'
    BY <1>4 DEF Restart, InStep, Iterating
  <2> QED
    BY <1>3, <2>1 DEF Ordered
<1>5. CASE CreateCommand \/ StartCommand \/ CancelCommand \/ UNCHANGED vars
  <2>1. UNCHANGED <<pc, local>>
    BY <1>5 DEF CreateCommand, StartCommand, CancelCommand, vars
  <2>2. InStep'
    BY <1>1, <2>1 DEF IInv, InStep
  <2> QED
    BY <1>3, <2>2 DEF Ordered
<1> QED
  BY <1>4, <1>5

(* Every step keeps the invariant.                                         *)
LEMMA StepInv == IInv /\ [Next]_vars => IInv'
<1> SUFFICES ASSUME IInv, [Next]_vars PROVE IInv'
  OBVIOUS
<1>1. TypeOK' /\ Tolerance'
  BY TypeStep, ToleranceStep DEF IInv
<1>2. ASSUME NEW e \in Executors, Execution(e) \/ Proceeds(e) \/ SaveFails(e)
      PROVE  Rest'
  BY <1>2, SetupRest, AnswerRest, ToolRest, EndRest, ErrorRest DEF Proceeds
<1>3. Rest'
  BY <1>2, WindowRest DEF Next
<1>4. ASSUME NEW e \in Executors, Execution(e) \/ Proceeds(e) \/ SaveFails(e)
      PROVE  Ordered'
  BY <1>4, SilentOrder, StatusOrder, IterationOrder, CommitOrder DEF Proceeds
<1>5. Ordered'
  BY <1>4, WindowOrder DEF Next
<1> QED
  BY <1>1, <1>3, <1>5 DEF IInv, Rest, Ordered

-----------------------------------------------------------------------------
(* The results.                                                            *)

(* The invariant of the runtime: types, tolerance, who drives the run,     *)
(* what has begun late, and who attends to it.                             *)
THEOREM Invariance == Spec => []IInv
  BY InitInv, StepInv, PTL DEF Spec

(* The variables keep their types: in particular, no execution counts more *)
(* rejections than MAX_CONSECUTIVE_MODEL_REJECTIONS.                       *)
THEOREM TypeCorrect == Spec => []TypeOK
<1>1. IInv => TypeOK
  BY DEF IInv
<1> QED
  BY <1>1, Invariance, PTL

(* However many threads execute the run, one drives it.                    *)
THEOREM OneDriverAtATime == Spec => []OneDriver
<1>1. IInv => OneDriver
  BY DEF IInv
<1> QED
  BY <1>1, Invariance, PTL

(* After the run has ended, at most one model call or tool is begun.       *)
THEOREM LateEffectsBounded == Spec => []OneLateEffect
<1>1. IInv => OneLateEffect
  BY DEF IInv, Lateness, OneLateEffect
<1> QED
  BY <1>1, Invariance, PTL

(* No path through execute_internal leaves a Running run behind, but for   *)
(* a failed save.                                                          *)
THEOREM NobodyWalksAway == Spec => []RunningIsAttended
<1>1. IInv => RunningIsAttended
  BY DEF IInv
<1> QED
  BY <1>1, Invariance, PTL

(* Although the commits and the recorder write a step that nothing checks, *)
(* the log of the run is ordered by step and within its usage.             *)
THEOREM StepOrder == Spec => []StepsOrdered
<1>1. IInv => StepsOrdered
  BY DEF IInv
<1> QED
  BY <1>1, Invariance, PTL

-----------------------------------------------------------------------------
(* The runtime uses the service as the ledger allows.                      *)

(* The initial state of the runtime is one of the ledger.                  *)
LEMMA LedgerInit == Init => Ledger!Init
  BY DEF Init, Ledger!Init, It


(* A function of the one run, changed.                                     *)
LEMMA ViewChanged ==
  ASSUME NEW old, NEW new
  PROVE  [r \in It |-> new] = [[r \in It |-> old] EXCEPT !["it"] = new]
  BY DEF It

(* create_run is a step of the ledger.                                     *)
LEMMA LedgerCreates ==
  ASSUME IInv, CreateCommand PROVE Ledger!Next
<1>1. /\ run'.status = "Created" /\ run'.steps = run.steps
      /\ run'.evidence = run.evidence /\ run'.output = run.output
      /\ run'.evaluated = run.evaluated
  BY DEF CreateCommand, IInv, TypeOK, Run
<1>2. Ledger!Create("it")
  BY <1>1, ViewChanged DEF CreateCommand, Ledger!Create, It
<1> QED
  BY <1>2 DEF Ledger!Next, Ledger!Step, It

(* start_run, by the window or an execution, is a step of the ledger.      *)
LEMMA LedgerStarts ==
  ASSUME IInv, run.status = "Created", run' = [run EXCEPT !.status = "Running"]
  PROVE  Ledger!Next
<1>1. /\ run'.status = "Running" /\ run'.steps = run.steps
      /\ run'.evidence = run.evidence /\ run'.output = run.output
      /\ run'.evaluated = run.evaluated
  BY DEF IInv, TypeOK, Run
<1>2. Ledger!Start("it")
  BY <1>1, ViewChanged DEF Ledger!Start, It
<1> QED
  BY <1>2 DEF Ledger!Next, Ledger!Step, It

(* What only adds to a Running run is work in the ledger.                  *)
LEMMA LedgerWorks ==
  ASSUME IInv, run.status = "Running", run'.status = run.status,
         run'.output = run.output, run'.evaluated = run.evaluated,
         run.steps <= run'.steps, run.evidence \subseteq run'.evidence
  PROVE  Ledger!Next
<1>1. Ledger!Work("it")
  BY ViewChanged DEF Ledger!Work, It
<1> QED
  BY <1>1 DEF Ledger!Next, Ledger!Step, It

(* An ending by a listed transition is a step of the ledger.               *)
LEMMA LedgerEnds ==
  ASSUME IInv, <<run.status, run'.status>> \in Ledger!Transitions,
         run'.status \in Ledger!Endings,
         run'.steps = run.steps, run'.evidence = run.evidence,
         run'.evaluated = run.evaluated,
         run'.status = "Completed" => run'.output # NoOutput /\ run'.output \subseteq run.evidence,
         run'.status # "Completed" => run'.output = NoOutput
  PROVE  Ledger!Next
<1>1. Ledger!Finish("it", run'.status)
  BY ViewChanged DEF Ledger!Finish, It
<1> QED
  BY <1>1 DEF Ledger!Next, Ledger!Step, It

(* An ending without an output is a step of the ledger.                    *)
LEMMA LedgerFails ==
  ASSUME IInv, NEW ending \in Endings \ {"Completed"},
         run.status = "Running" \/ (run.status = "Created" /\ ending = "Cancelled"),
         run' = [run EXCEPT !.status = ending]
  PROVE  Ledger!Next
<1>1. /\ run'.status = ending /\ run'.steps = run.steps
      /\ run'.evidence = run.evidence /\ run'.output = run.output
      /\ run'.evaluated = run.evaluated
  BY DEF IInv, TypeOK, Run
<1>2. ending \in Ledger!Endings /\ <<run.status, ending>> \in Ledger!Transitions
  BY DEF Endings, Ledger!Endings, Ledger!Transitions
<1>3. run.output = NoOutput
  BY DEF IInv, Outcome
<1> QED
  BY <1>1, <1>2, <1>3, LedgerEnds

(* A completion, with evidence of the run, is a step of the ledger.        *)
LEMMA LedgerCompletes ==
  ASSUME IInv, NEW e \in Executors, Complete(e) PROVE Ledger!Next
<1>1. PICK cited \in SUBSET run.evidence :
        run' = [run EXCEPT !.status = "Completed", !.output = cited]
  BY DEF Complete
<1>2. /\ run'.status = "Completed" /\ run'.steps = run.steps
      /\ run'.evidence = run.evidence /\ run'.output = cited
      /\ run'.evaluated = run.evaluated
  BY <1>1 DEF IInv, TypeOK, Run
<1>3. "Completed" \in Ledger!Endings /\ <<run.status, "Completed">> \in Ledger!Transitions
  BY DEF Complete, Calls, Ledger!Endings, Ledger!Transitions
<1>4. cited # NoOutput
  BY OutputAssumption, RunFields DEF IInv
<1> QED
  BY <1>2, <1>3, <1>4, LedgerEnds

(* The evaluation finds a completed run that has none yet.                 *)
LEMMA LedgerEvaluates ==
  ASSUME IInv, NEW e \in Executors, Evaluate(e) PROVE Ledger!Next
<1>1. /\ run'.status = run.status /\ run'.steps = run.steps
      /\ run'.evidence = run.evidence /\ run'.output = run.output
      /\ run'.evaluated = TRUE
  BY DEF Evaluate, IInv, TypeOK, Run
<1>2. run.status = "Completed" /\ run.evaluated = FALSE
  BY RunFields DEF IInv, Outcome, Evaluate
<1>3. Ledger!Evaluate("it")
  BY <1>1, <1>2, ViewChanged DEF Ledger!Evaluate, It
<1> QED
  BY <1>3 DEF Ledger!Next, Ledger!Step, It

(* What leaves these fields of the run alone is a stutter of the ledger.   *)
LEMMA LedgerIdles ==
  ASSUME run'.status = run.status, run'.steps = run.steps, run'.evidence = run.evidence,
         run'.output = run.output, run'.evaluated = run.evaluated
  PROVE  UNCHANGED Ledger!vars
  BY DEF Ledger!vars

(* Every step of the runtime is a step of the ledger or a stutter.         *)
LEMMA LedgerStep == IInv /\ [Next]_vars => [Ledger!Next]_Ledger!vars
<1> SUFFICES ASSUME IInv, [Next]_vars PROVE Ledger!Next \/ UNCHANGED Ledger!vars
  OBVIOUS
<1>1. CASE UNCHANGED run
  BY <1>1, LedgerIdles
<1>2. ASSUME NEW e \in Executors, Execution(e) \/ Proceeds(e) \/ SaveFails(e)
      PROVE  Ledger!Next \/ UNCHANGED Ledger!vars
  <2>1. CASE ConfStart(e) \/ Start(e)
    BY <2>1, LedgerStarts DEF ConfStart, Start
  <2>2. CASE ConfFail(e) \/ BlockScope(e) \/ Fail(e)
    BY <2>2, LedgerFails DEF ConfFail, BlockScope, Fail, Calls, Finishes, Endings
  <2>3. CASE Commit(e)
    <3>1. /\ run'.status = run.status /\ run'.steps = local[e].step
          /\ run'.evidence = run.evidence /\ run'.output = run.output
          /\ run'.evaluated = run.evaluated
      BY <2>3 DEF Commit, IInv, TypeOK, Run
    <3>2. run.steps <= run'.steps
      BY <2>3, <3>1 DEF Commit, Committed
    <3> QED
      BY <2>3, <3>1, <3>2, LedgerWorks DEF Commit, Committed, Calls
  <2>4. CASE Store(e)
    <3>1. /\ run'.status = run.status /\ run'.steps = run.steps
          /\ run'.evidence = run.evidence /\ run'.output = run.output
          /\ run'.evaluated = run.evaluated
      BY <2>4 DEF Store, IInv, TypeOK, Run
    <3> QED
      BY <3>1, LedgerIdles
  <2>5. CASE Record(e)
    <3>1. /\ run'.status = run.status /\ run'.steps = run.steps
          /\ run'.evidence = run.evidence \cup {run.steps} /\ run'.output = run.output
          /\ run'.evaluated = run.evaluated
      BY <2>5 DEF Record, IInv, TypeOK, Run
    <3>2. run.steps <= run'.steps
      BY <3>1, RunFields, BudgetAssumption DEF IInv, Steps
    <3> QED
      BY <2>5, <3>1, <3>2, LedgerWorks DEF Record, Calls
  <2>6. CASE Complete(e) \/ Evaluate(e)
    BY <2>6, LedgerCompletes, LedgerEvaluates
  <2>7. CASE \/ Execution(e) \/ Configure(e) \/ Misconfigured(e) \/ Check(e) \/ Seed(e)
             \/ AskNothing(e) \/ Ask(e) \/ Receive(e) \/ Reject(e)
    BY <1>1, <2>7
       DEF Execution, Configure, Misconfigured, Check, Seed, AskNothing, Ask, Receive, Reject,
           OnlyMoves
  <2>8. CASE \/ Prepare(e) \/ Limited(e) \/ Blocked(e) \/ Announce(e) \/ Execute(e)
             \/ RecordNothing(e) \/ Ingest(e) \/ Judge(e) \/ CallRefused(e) \/ SaveFails(e)
    BY <1>1, <2>8
       DEF Prepare, Limited, Blocked, Announce, Execute, RecordNothing, Ingest, Judge,
           CallRefused, SaveFails, OnlyMoves
  <2> QED
    BY <1>2, <2>1, <2>2, <2>3, <2>4, <2>5, <2>6, <2>7, <2>8 DEF Proceeds
<1>3. CASE CreateCommand
  BY <1>3, LedgerCreates
<1>4. CASE StartCommand
  BY <1>4, LedgerStarts DEF StartCommand
<1>5. CASE CancelCommand
  BY <1>5, LedgerFails DEF CancelCommand, Finishes, Endings
<1>6. CASE Restart
  <2>1. CASE run.status = "Running"
    <3>1. run' = [run EXCEPT !.status = "Failed"]
      BY <1>6, <2>1 DEF Restart, Finishes
    <3> QED
      BY <2>1, <3>1, LedgerFails DEF Endings
  <2>2. CASE run.status # "Running"
    <3>1. /\ run'.status = run.status /\ run'.steps = run.steps
          /\ run'.evidence = run.evidence /\ run'.output = run.output
          /\ run'.evaluated = run.evaluated
      BY <1>6, <2>2 DEF Restart, IInv, TypeOK, Run
    <3> QED
      BY <3>1, LedgerIdles
  <2> QED
    BY <2>1, <2>2
<1> QED
  BY <1>1, <1>2, <1>3, <1>4, <1>5, <1>6 DEF Next, vars

(* Whatever executions, window and restarts do, no call that the service   *)
(* lets through takes the run where the ledger does not allow it.          *)
THEOREM Refinement == Spec => KeepsLedger
  BY LedgerInit, LedgerStep, Invariance, PTL DEF Spec, KeepsLedger, Ledger!Spec
=============================================================================
