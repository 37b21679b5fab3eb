------------------------------ MODULE RunLedger ------------------------------
(***************************************************************************)
(* What the run service promises its callers: a ledger of runs in which    *)
(* each run moves through the lifecycle of RunStatus once, gathers work    *)
(* and evidence only while it is Running, ends with an output that cites   *)
(* evidence of that run, and is evaluated at most once, after it           *)
(* Completed.  Every step concerns one run and is atomic and durable: the  *)
(* ledger knows no lock, no cache, no save and no crash.                   *)
(*                                                                         *)
(* RunService implements it (RunService!Ledger).                           *)
(***************************************************************************)
EXTENDS Naturals

CONSTANTS
  Runs,          (* run identifiers                                         *)
  EvidenceIds,   (* identifiers of evidence items                           *)
  NoOutput       (* the None of Run::final_output                           *)

VARIABLES status, steps, evidence, output, evaluated

vars == <<status, steps, evidence, output, evaluated>>

(* The statuses from which ensure_transition lets nothing out.             *)
Endings == {"Completed", "Failed", "Cancelled", "BudgetExhausted", "ScopeBlocked"}

(* The transitions ensure_transition lists; creation inserts the run.      *)
Transitions == ({"Created"} \X {"Running", "Cancelled"}) \cup ({"Running"} \X Endings)

-----------------------------------------------------------------------------
Init ==
  /\ status = [r \in Runs |-> "Absent"]
  /\ steps = [r \in Runs |-> 0]
  /\ evidence = [r \in Runs |-> {}]
  /\ output = [r \in Runs |-> NoOutput]
  /\ evaluated = [r \in Runs |-> FALSE]

Create(r) ==
  /\ status[r] = "Absent"
  /\ status' = [status EXCEPT ![r] = "Created"]
  /\ UNCHANGED <<steps, evidence, output, evaluated>>

Start(r) ==
  /\ status[r] = "Created"
  /\ status' = [status EXCEPT ![r] = "Running"]
  /\ UNCHANGED <<steps, evidence, output, evaluated>>

(* A commit of a model call, a tool result, evidence or usage: steps and   *)
(* evidence only grow, and only while the run is Running.                  *)
Work(r) ==
  /\ status[r] = "Running"
  /\ steps[r] <= steps'[r] /\ evidence[r] \subseteq evidence'[r]
  /\ steps' = [steps EXCEPT ![r] = steps'[r]]
  /\ evidence' = [evidence EXCEPT ![r] = evidence'[r]]
  /\ UNCHANGED <<status, output, evaluated>>

(* Only a completion carries an output, and the output cites recorded      *)
(* evidence.                                                               *)
Finish(r, ending) ==
  /\ <<status[r], ending>> \in Transitions
  /\ status' = [status EXCEPT ![r] = ending]
  /\ ending = "Completed" => output'[r] # NoOutput /\ output'[r] \subseteq evidence[r]
  /\ ending # "Completed" => output'[r] = NoOutput
  /\ output' = [output EXCEPT ![r] = output'[r]]
  /\ UNCHANGED <<steps, evidence, evaluated>>

Evaluate(r) ==
  /\ status[r] = "Completed"
  /\ ~evaluated[r]
  /\ evaluated' = [evaluated EXCEPT ![r] = TRUE]
  /\ UNCHANGED <<status, steps, evidence, output>>

Step(r) ==
  \/ Create(r) \/ Start(r) \/ Work(r) \/ Evaluate(r)
  \/ \E ending \in Endings : Finish(r, ending)

Next == \E r \in Runs : Step(r)

Spec == Init /\ [][Next]_vars
=============================================================================
