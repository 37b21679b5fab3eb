------------------------------- MODULE ReconLoop -------------------------------
(***************************************************************************)
(* The steps of a run as recon goes: a plan is made of the graph, the      *)
(* hypotheses, what was selected before and what earlier runs did; the     *)
(* agent asks for a tool or finishes; the selection is recorded; the tool  *)
(* is refused, fails or answers; the answer is ingested and the hypotheses *)
(* are drawn anew.                                                         *)
(*                                                                         *)
(* What the agent runtime does around this (budgets, saves, events) is in  *)
(* AgentRuntime, the steps of an ingestion are in ReconIngestion.          *)
(***************************************************************************)
EXTENDS ReconPlanner, ReconIngestor

CONSTANTS
  World(_),        (* the results a call may bring                          *)
  EarlierRuns,     (* the runs that may have ended before, or end meanwhile *)
  Policy,          (* memory_policy: mode, sources and maxRuns              *)
  MaxRejections,   (* MAX_CONSECUTIVE_MODEL_REJECTIONS                      *)
  MaxFailures,     (* bound: failed and refused calls of the run            *)
  MaxDeviations    (* bound: times the agent does not follow the plan       *)

(* Lists are sequences.                                                    *)
ASSUME InputsAssumption ==
  /\ IsSequence(Primary) /\ IsSequence(Ports)
  /\ Policy.maxRuns \in Nat
  /\ \A earlier \in EarlierRuns : IsSequence(earlier.actions)

VARIABLES
  status,          (* "Running", "Completed", "Failed" or "Cancelled"       *)
  graph,
  hypotheses,      (* in the order in which they were first stored          *)
  selections,      (* the selected actions of the decisions, in their order *)
  ended,           (* the other runs that have ended, the latest first      *)
  plan,            (* the plan of this step                                 *)
  asked,           (* the calls the agent has asked for                     *)
  phase,           (* "plan", or "call" when a call was asked for           *)
  rejections,      (* consecutive ones                                      *)
  failures, deviations

vars == <<status, graph, hypotheses, selections, ended, plan, asked, phase, rejections,
          failures, deviations>>

run == <<graph, hypotheses, selections>>

-----------------------------------------------------------------------------
(* build_recon_memory: the actions that runs of the same scope selected.   *)
(* The age limit is left out; by default there is none.                    *)

Source(earlier) ==
  /\ earlier.sameScope
  /\ CASE Policy.mode = "Fresh" -> FALSE
       [] Policy.mode = "Continue" -> earlier.id \in Policy.sources
       [] Policy.mode = "AutoAssisted" -> earlier.completed

Memory ==
  LET sources == Those(ended, Source)
      limit == IF Policy.maxRuns < 1 THEN 1 ELSE IF Policy.maxRuns > 20 THEN 20 ELSE Policy.maxRuns
  IN  Take(FlattenSeq([n \in DOMAIN Take(sources, limit) |-> sources[n].actions]), 2000)

-----------------------------------------------------------------------------
(* Steps.                                                                  *)

PlanNow == Plan(graph, hypotheses, selections, Memory)

Call(action) == [capability |-> action.capability, arguments |-> action.arguments, more |-> FALSE]

(* A known hypothesis is replaced, the others follow, the urgent first;    *)
(* there are never so many that some are dropped (ReconIngestion!Best).    *)
Refreshed(g) ==
  LET drawn == Derived(g)
      Latest(h) ==
        LET again == {d \in drawn : SameHypothesis(d, h)}
        IN  IF again = {} THEN h ELSE CHOOSE d \in again : TRUE
      new == {d \in drawn : \A n \in DOMAIN hypotheses : ~SameHypothesis(hypotheses[n], d)}
  IN  [n \in DOMAIN hypotheses |-> Latest(hypotheses[n])]
      \o FlattenSeq([n \in 1 .. 4 |-> SetToSeq({d \in new : d.priority = 5 - n})])

(* A graph after all these steps.                                          *)
Built(g, steps) ==
  LET after[n \in 0 .. Len(steps)] ==
        IF n = 0 THEN g ELSE Applied(after[n - 1], steps[n], {})
  IN  after[Len(steps)]

Ingested(result) == Built(graph, IngestionSteps(result, graph))

Reject ==
  /\ rejections' = rejections + 1
  /\ status' = IF rejections + 1 < MaxRejections THEN status ELSE "Failed"

(* What the agent may ask for: the recommended action, another candidate,  *)
(* one of these with more arguments, or what it has asked for before.      *)
Following(p) == {Call(action) : action \in p.recommended}

Deviating(p) ==
  {Call(action) : action \in p.candidates}
  \cup {[Call(action) EXCEPT !.more = TRUE] : action \in p.candidates}
  \cup {asked[n].call : n \in DOMAIN asked}

(* record_selection and append_recon_decision, before the call is checked. *)
Ask(p, call) ==
  /\ deviations' = IF call \in Following(p) THEN deviations ELSE deviations + 1
  /\ plan' = p
  /\ LET selected == SelectionOf(p.candidates, call)
     IN  /\ selections' = IF selected = {} THEN selections
                          ELSE Append(selections, CHOOSE action \in selected : TRUE)
         /\ asked' = Append(asked, [call |-> call, recorded |-> selected # {},
                                   outcome |-> "none"])
  /\ IF Rejected(selections, call) THEN Reject /\ phase' = "plan"
     ELSE phase' = "call" /\ UNCHANGED <<rejections, status>>
  /\ UNCHANGED <<graph, hypotheses, ended, failures>>

(* The call is not valid or is not prepared. (A call out of scope would    *)
(* end the run; that is in AgentRuntime.)                                  *)
Refuse ==
  /\ status = "Running" /\ phase = "call" /\ failures < MaxFailures
  /\ failures' = failures + 1 /\ phase' = "plan" /\ Reject
  /\ UNCHANGED <<run, ended, plan, asked, deviations>>

(* A second refusal for the rate does not count as a rejection.            *)
RefuseForRate ==
  /\ status = "Running" /\ phase = "call" /\ failures < MaxFailures
  /\ failures' = failures + 1 /\ phase' = "plan"
  /\ UNCHANGED <<status, run, ended, plan, asked, rejections, deviations>>

(* A failure that may be retried leaves the run going.                     *)
Answer(result) ==
  /\ status = "Running" /\ phase = "call"
  /\ result.success \/ failures < MaxFailures
  /\ failures' = IF result.success THEN failures ELSE failures + 1
  /\ asked' = [asked EXCEPT ![Len(asked)].outcome =
                              IF result.success THEN "succeeded" ELSE "failed"]
  /\ graph' = Ingested(result)
  /\ hypotheses' = IF result.success THEN Refreshed(graph') ELSE hypotheses
  /\ status' = IF result.success \/ result.retryable THEN status ELSE "Failed"
  /\ rejections' = 0 /\ phase' = "plan"
  /\ UNCHANGED <<selections, ended, plan, deviations>>

(* Mutant: finishing is premature as long as a gap is open.                *)
FinishComplete(p) ==
  /\ deviations' = IF p.recommended = {} THEN deviations ELSE deviations + 1
  /\ plan' = p
  /\ IF p.gaps # {} THEN Reject ELSE status' = "Completed" /\ UNCHANGED rejections
  /\ UNCHANGED <<run, ended, asked, phase, failures>>

(* Finishing is premature while a candidate is recommended.                *)
Finish(p) ==
  /\ deviations' = IF p.recommended = {} THEN deviations ELSE deviations + 1
  /\ plan' = p
  /\ IF p.recommended # {} THEN Reject ELSE status' = "Completed" /\ UNCHANGED rejections
  /\ UNCHANGED <<run, ended, asked, phase, failures>>

(* A plan is made, and the agent follows it, or does not.                  *)
Decide(p) ==
  \/ \E call \in Following(p) : Ask(p, call)
  \/ deviations < MaxDeviations /\ \E call \in Deviating(p) \ Following(p) : Ask(p, call)
  \/ (p.recommended = {} \/ deviations < MaxDeviations) /\ Finish(p)

Cancel ==
  /\ status = "Running" /\ status' = "Cancelled"
  /\ UNCHANGED <<run, ended, plan, asked, phase, rejections, failures, deviations>>

OtherRunEnds(earlier) ==
  /\ status = "Running" /\ earlier \notin ToSet(ended)
  /\ ended' = <<earlier>> \o ended
  /\ UNCHANGED <<status, run, plan, asked, phase, rejections, failures, deviations>>

-----------------------------------------------------------------------------

NoPlan ==
  [gaps |-> {}, candidates |-> {}, scores |-> <<>>, recommended |-> {}, stop |-> "None"]

Init ==
  /\ status = "Running"
  /\ graph = Built(EmptyGraph, SeedSteps(Primary))
  /\ hypotheses = <<>> /\ selections = <<>> /\ ended = <<>> /\ plan = NoPlan /\ asked = <<>>
  /\ phase = "plan" /\ rejections = 0 /\ failures = 0 /\ deviations = 0

Step ==
  \/ status = "Running" /\ phase = "plan" /\ \E p \in {PlanNow} : Decide(p)
  \/ Refuse \/ RefuseForRate
  \/ phase = "call" /\ \E result \in World(asked[Len(asked)].call) : Answer(result)

Next ==
  \/ Step \/ Cancel
  \/ \E earlier \in EarlierRuns : OtherRunEnds(earlier)

(* The thread of the run goes on; no one has to cancel. This is weak       *)
(* fairness of Step, which can be taken for as long as the run is running. *)
Fairness == []<>(status # "Running") \/ []<><<Step>>_vars

Spec == Init /\ [][Next]_vars /\ Fairness

-----------------------------------------------------------------------------
(* Correctness.                                                            *)

(* An agent that does what is recommended, and finishes when nothing is,   *)
(* is never told that it repeats itself or finishes too early: the         *)
(* planner, which compares normalized arguments, never offers what the     *)
(* runtime, which compares them as they are, would reject                  *)
(* (recon_planner.rs:627, agent_runtime.rs:697).                           *)
FollowingIsAccepted == deviations = 0 => rejections <= failures

(* The run of such an agent comes to an end by itself, and is completed    *)
(* unless a tool breaks it: what failed is not recommended for ever.       *)
FollowingCompletes ==
  <>(\/ status \in {"Completed", "Cancelled"} \/ deviations > 0
     \/ status = "Failed" /\ failures > 0)

(* A selection is recorded before the call is checked (agent_runtime.rs:   *)
(* 681), and the scores and the memory of later runs take it for done. It  *)
(* was: every selection but those whose call was refused or failed has     *)
(* brought a result, and no call the runtime turns down as a repetition    *)
(* leaves one.                                                             *)
SelectedWasDone ==
  Len(selections)
    <= Cardinality({n \in DOMAIN asked : asked[n].outcome = "succeeded"}) + failures
         + (IF phase = "call" THEN 1 ELSE 0)

(* A call that was selected is not executed a second time with the same    *)
(* arguments, whatever was asked for in between (recon_planner.rs:627).    *)
NotRepeated ==
  \A m, n \in DOMAIN asked :
    (/\ m < n /\ asked[m].recorded /\ ~asked[n].call.more
     /\ asked[n].call = [asked[m].call EXCEPT !.more = FALSE]) => asked[n].outcome = "none"

(* No two selections are the same action in another spelling, even if they *)
(* were proposed for different assets (recon_planner.rs:1081).             *)
SelectedOnce ==
  \A m, n \in DOMAIN selections :
    m # n => ~Equivalent(selections[m], selections[n])

(* What was done four times in this and earlier runs is recommended only   *)
(* for the sake of a hypothesis (score_action, recon_planner.rs:862).      *)
WornOut ==
  status = "Running" =>
    \A action \in PlanNow.recommended :
      Similar(selections, Memory, action) >= 4 => Bonus(hypotheses, action) > 0

(* "Knowledge gaps remain, but none can be acted on with the authorized    *)
(* tools." (recon_planner.rs:540)                                          *)
NoneCanBeActedOn ==
  status = "Running" /\ PlanNow.stop = "RequiredCapabilityUnavailable" =>
    \A i \in DOMAIN graph.assets :
      \A n \in DOMAIN AssetActions(graph, i) : Blocked(selections, AssetActions(graph, i)[n])

(* "discovered_web_page_is_analyzed_once_before_the_agent_moves_on": a     *)
(* page that was found by its link is proposed until it has been asked for *)
(* (the test at recon_planner.rs:1762).                                    *)
DiscoveredPageIsAnalyzed ==
  status = "Running" =>
    \A i \in DOMAIN graph.assets :
      LET asset == graph.assets[i]
          page == Active("AnalyzeWebPage", i, asset.value, 75)
      IN  (/\ asset.kind = "Url" /\ asset.scope = "InScope"
           /\ <<"web", "discovered_link">> \in asset.tags) =>
            \/ \E action \in PlanNow.gaps : Equivalent(action, page)
            \/ \E n \in DOMAIN asked : Equivalent(asked[n].call, page)

=============================================================================
