--------------------------- MODULE RunServiceProofs ---------------------------
(***************************************************************************)
(* Theorems about RunService, for every set of runs, threads, identifiers  *)
(* and every bound.                                                        *)
(*                                                                         *)
(* The calls are many, but all have one effect: nothing, or one accepted   *)
(* mutation under the lock (CallEffect).  The inductive invariant IInv     *)
(* says what the lock protects: while it is free the store is exactly what *)
(* the rows load to; while it is held the clone is, and the store differs  *)
(* from the rows in one record, by an accepted mutation.                   *)
(*                                                                         *)
(* The first half is about one record: what each call writes into it is a  *)
(* mutation that keeps the invariants of the record, extends what was      *)
(* there and is a step of the ledger (Accepted).                           *)
(***************************************************************************)
EXTENDS RunService, TLAPS

-----------------------------------------------------------------------------
(* Types.                                                                  *)

StoreType == [runs : [Runs -> Record], ids : SUBSET Ids]

(* A run that does not exist is a record.                                  *)
LEMMA MissingType == Missing \in Record
  BY DEF Missing, Record, Statuses, Usage

(* The empty store is a store.                                             *)
LEMMA EmptyStoreType == EmptyStore \in StoreType
  BY MissingType DEF EmptyStore, StoreType

(* Adding an event keeps a record a record and touches nothing but events. *)
LEMMA LoggedType ==
  ASSUME NEW rec \in Record, NEW kind \in EventKinds, NEW at \in Nat, NEW step \in Nat
  PROVE  /\ Logged(rec, kind, at, step) \in Record
         /\ Logged(rec, kind, at, step) =
              [rec EXCEPT !.events = Logged(rec, kind, at, step).events]
<1>1. rec.events \in Seq(Event)
  BY DEF Record
<1>2. Append(rec.events, [kind |-> kind, at |-> at, step |-> step]) \in Seq(Event)
  BY <1>1 DEF Event
<1>3. QED
  BY <1>2 DEF Logged, Record

(* A duration never shrinks.                                               *)
LEMMA LastedType ==
  ASSUME NEW rec \in Record, NEW at \in Nat
  PROVE  Lasted(rec, at) \in Nat /\ rec.usage.duration <= Lasted(rec, at)
  BY DEF Lasted, Record, Usage

(* The event of an ending is an event.                                     *)
LEMMA EndEventType ==
  ASSUME NEW ending \in Endings
  PROVE  EndEvent[ending] \in EventKinds
  BY DEF EventKinds, ServiceManaged, EndEvents

(* What ending a run writes.                                               *)
LEMMA EndedType ==
  ASSUME NEW rec \in Record, NEW ending \in Endings, NEW at \in Nat,
         NEW output \in {NoOutput} \cup SUBSET EvidenceIds
  PROVE  LET new == Ended(rec, ending, output, at)
         IN  /\ new \in Record
             /\ new.status = ending /\ new.output = output
             /\ new.usage.steps = rec.usage.steps
             /\ new.results = rec.results /\ new.calls = rec.calls
             /\ new.evidence = rec.evidence /\ new.evaluated = rec.evaluated
             /\ new.usage.duration = Lasted(rec, at)
             /\ new.events = Append(rec.events, [kind |-> EndEvent[ending], at |-> at,
                                                 step |-> rec.usage.steps])
<1> DEFINE base == [rec EXCEPT !.status = ending, !.output = output,
                               !.usage.duration = Lasted(rec, at)]
<1>1. base \in Record
  BY LastedType DEF Record, Usage, Statuses
<1>2. rec.usage.steps \in Nat
  BY DEF Record, Usage
<1>3. Logged(base, EndEvent[ending], at, rec.usage.steps) \in Record
  BY <1>1, <1>2, EndEventType, LoggedType
<1>4. QED
  BY <1>3 DEF Ended, Logged, Record, Usage

-----------------------------------------------------------------------------
(* One record.                                                             *)

(* What holds of every committed record.                                   *)
RecordInv(rec) ==
  /\ rec \in Record
  /\ rec.status = "Absent" => rec = Missing
  /\ LogFits(rec)
  /\ Backed(rec)

(* What the ledger sees of a mutation.                                     *)
SameBut(old, new, fields) ==
  /\ "status" \notin fields => new.status = old.status
  /\ "work" \notin fields => new.usage.steps = old.usage.steps
                            /\ EvidenceOf(new) = EvidenceOf(old)
  /\ "output" \notin fields => new.output = old.output
  /\ "evaluated" \notin fields => new.evaluated = old.evaluated

LedgerStep(old, new) ==
  \/ /\ old.status = "Absent" /\ new.status = "Created"
     /\ SameBut(old, new, {"status"})
  \/ /\ old.status = "Created" /\ new.status = "Running"
     /\ SameBut(old, new, {"status"})
  \/ /\ old.status = "Running"
     /\ old.usage.steps <= new.usage.steps
     /\ EvidenceOf(old) \subseteq EvidenceOf(new)
     /\ SameBut(old, new, {"work"})
  \/ /\ <<old.status, new.status>> \in Transitions
     /\ new.status \in Endings
     /\ new.status = "Completed" => new.output # NoOutput
                                    /\ new.output \subseteq EvidenceOf(old)
     /\ new.status # "Completed" => new.output = NoOutput
     /\ SameBut(old, new, {"status", "output"})
  \/ /\ old.status = "Completed"
     /\ ~old.evaluated /\ new.evaluated
     /\ SameBut(old, new, {"evaluated"})

(* A mutation the checks of a call let through.                            *)
Accepted(old, new) ==
  /\ RecordInv(new)
  /\ Extends(old, new)
  /\ LedgerStep(old, new)

(* The log of a record and one event more: what the proofs need to know    *)
(* of Append.                                                              *)
LEMMA Appended ==
  ASSUME NEW log \in Seq(Event), NEW e \in Event
  PROVE  LET longer == Append(log, e)
         IN  /\ longer \in Seq(Event)
             /\ Len(longer) = Len(log) + 1 /\ Len(log) \in Nat
             /\ DOMAIN longer = 1 .. (Len(log) + 1) /\ DOMAIN log = 1 .. Len(log)
             /\ \A i \in 1 .. Len(log) : longer[i] = log[i]
             /\ longer[Len(log) + 1] = e
  OBVIOUS

(* Where the endings are found in the longer log.                          *)
LEMMA EndsAppended ==
  ASSUME NEW log \in Seq(Event), NEW e \in Event
  PROVE  EndsOf(Append(log, e)) =
           EndsOf(log) \cup (IF e.kind \in EndEvents THEN {Len(log) + 1} ELSE {})
<1> DEFINE longer == Append(log, e)
           n      == Len(log)
<1>1. /\ n \in Nat /\ DOMAIN longer = 1 .. (n + 1) /\ DOMAIN log = 1 .. n
      /\ \A i \in 1 .. n : longer[i] = log[i]
      /\ longer[n + 1] = e
  BY Appended
<1> HIDE DEF longer, n
<1>2. DOMAIN longer = DOMAIN log \cup {n + 1} /\ \A i \in DOMAIN log : longer[i] = log[i]
  BY <1>1
<1>3. EndsOf(longer) = EndsOf(log) \cup (IF e.kind \in EndEvents THEN {n + 1} ELSE {})
  BY <1>1, <1>2 DEF EndsOf
<1> QED
  BY <1>3 DEF longer, n

(* The events that end nothing, those a caller may log among them.         *)
PlainEvents == EventKinds \ EndEvents

(* Endings and the events of the calls differ.                             *)
LEMMA EventKindsDiffer ==
  /\ {"RunCreated", "RunStarted", "ModelCalled", "ToolCompleted", "EvidenceRecorded",
      "EvaluationCompleted"} \subseteq PlainEvents
  /\ EventKinds \ ServiceManaged \subseteq PlainEvents
  BY DEF PlainEvents, EventKinds, ServiceManaged, EndEvents, EndEvent, Endings

(* An event that ends nothing, logged of a run that has not ended and does *)
(* not end now, whatever its kind and its step.                            *)
LEMMA PlainLogged ==
  ASSUME NEW old, RecordInv(old), old.status \notin Endings,
         NEW base \in Record, base.events = old.events,
         base.status \in {"Created", "Running"}, base.output = old.output,
         base.evaluated = old.evaluated,
         NEW kind \in PlainEvents, NEW at \in Nat, NEW step \in Nat,
         Monotonic(old.usage, base.usage),
         old.evidence \subseteq base.evidence,
         \A e \in base.evidence : SourceExists(base, e.source)
  PROVE  LET new == Logged(base, kind, at, step)
         IN  /\ RecordInv(new) /\ Extends(old, new)
             /\ new.status = base.status /\ new.output = old.output
             /\ new.evaluated = old.evaluated /\ new.usage = base.usage
             /\ new.evidence = base.evidence /\ new.results = base.results
             /\ new.calls = base.calls
<1> DEFINE e   == [kind |-> kind, at |-> at, step |-> step]
           new == Logged(base, kind, at, step)
           log == old.events
           n   == Len(log)
<1>1. log \in Seq(Event) /\ e \in Event /\ kind \in EventKinds /\ kind \notin EndEvents
  BY DEF RecordInv, Record, Event, PlainEvents
<1>2. new \in Record /\ new.events = Append(log, e)
  BY <1>1, LoggedType DEF Logged, Record
<1>3. /\ new.status = base.status /\ new.output = old.output /\ new.evaluated = old.evaluated
      /\ new.usage = base.usage /\ new.evidence = base.evidence
      /\ new.results = base.results /\ new.calls = base.calls
  BY DEF Logged, Record
<1> HIDE DEF e, new
<1>4. /\ n \in Nat /\ DOMAIN new.events = 1 .. (n + 1) /\ DOMAIN log = 1 .. n
      /\ \A i \in 1 .. n : new.events[i] = log[i]
      /\ new.events[n + 1] = e /\ Len(new.events) = n + 1
  BY <1>1, <1>2, Appended
<1>5. EndsOf(log) = {} /\ ~old.evaluated /\ old.output = NoOutput
  BY DEF RecordInv, LogFits, Backed, Endings
<1>6. EndsOf(new.events) = {}
  <2>1. e.kind = kind
    BY DEF e
  <2> QED
    BY <1>1, <1>2, <1>5, <2>1, EndsAppended
<1>7. LogFits(new)
  BY <1>3, <1>5, <1>6 DEF LogFits, Endings
<1>8. Backed(new)
  BY <1>3, <1>5 DEF Backed, SourceExists, RecordInv, EvidenceOf
<1>9. RecordInv(new)
  BY <1>2, <1>3, <1>7, <1>8 DEF RecordInv
<1>10. Extends(old, new)
  BY <1>3, <1>4, <1>5 DEF Extends, Endings
<1> QED
  BY <1>3, <1>9, <1>10 DEF new

(* Work on a running record, whatever it adds.                             *)
LEMMA WorkAccepted ==
  ASSUME NEW old, RecordInv(old), old.status = "Running",
         NEW base \in Record, base.events = old.events, base.status = old.status,
         base.output = old.output, base.evaluated = old.evaluated,
         NEW kind \in PlainEvents, NEW at \in Nat, NEW step \in Nat,
         Monotonic(old.usage, base.usage),
         old.evidence \subseteq base.evidence,
         \A e \in base.evidence : SourceExists(base, e.source)
  PROVE  LET new == Logged(base, kind, at, step)
         IN  Accepted(old, new) /\ IdsOf(new) = IdsOf(base)
<1> DEFINE new == Logged(base, kind, at, step)
<1>0. old.status \notin Endings /\ base.status \in {"Created", "Running"}
  BY DEF Endings
<1>1. /\ RecordInv(new) /\ Extends(old, new)
      /\ new.status = base.status /\ new.output = old.output
      /\ new.evaluated = old.evaluated /\ new.usage = base.usage
      /\ new.evidence = base.evidence /\ new.results = base.results
      /\ new.calls = base.calls
  BY <1>0, PlainLogged
<1> HIDE DEF new
<1>2. old.usage.steps <= base.usage.steps
  BY DEF Monotonic
<1>3. EvidenceOf(old) \subseteq EvidenceOf(new)
  BY <1>1 DEF EvidenceOf
<1>4. SameBut(old, new, {"work"})
  BY <1>1 DEF SameBut
<1>5. LedgerStep(old, new)
  BY <1>1, <1>2, <1>3, <1>4 DEF LedgerStep
<1>6. IdsOf(new) = IdsOf(base)
  BY <1>1 DEF IdsOf, EvidenceOf
<1> QED
  BY <1>1, <1>5, <1>6 DEF Accepted, new

(* Work that logs nothing is accepted as well.                             *)
LEMMA SilentAccepted ==
  ASSUME NEW old, RecordInv(old), old.status = "Running",
         NEW new \in Record, new.events = old.events, new.status = old.status,
         new.output = old.output, new.evaluated = old.evaluated, new.usage = old.usage,
         old.evidence \subseteq new.evidence,
         \A e \in new.evidence : SourceExists(new, e.source)
  PROVE  Accepted(old, new)
<1>1. /\ Len(old.events) \in Nat /\ old.usage.steps \in Nat /\ old.usage.duration \in Nat
  BY DEF RecordInv, Record, Usage
<1>2. EvidenceOf(old) \subseteq EvidenceOf(new)
  BY DEF EvidenceOf
<1>3. LogFits(new) /\ Backed(new)
  BY <1>2 DEF RecordInv, LogFits, Backed
<1>4. RecordInv(new)
  BY <1>3 DEF RecordInv
<1>5. Extends(old, new)
  BY <1>1 DEF Extends, Endings, Monotonic
<1>6. LedgerStep(old, new)
  BY <1>1, <1>2 DEF LedgerStep, SameBut
<1> QED
  BY <1>4, <1>5, <1>6 DEF Accepted

(* What create_run writes is accepted.                                     *)
LEMMA CreateAccepted ==
  ASSUME NEW old, RecordInv(old), old.status = "Absent", NEW at \in Nat
  PROVE  LET new == Logged([Missing EXCEPT !.status = "Created"], "RunCreated", at, 0)
         IN  Accepted(old, new) /\ IdsOf(new) = IdsOf(old)
<1> DEFINE base == [Missing EXCEPT !.status = "Created"]
           new  == Logged(base, "RunCreated", at, 0)
<1>1. old = Missing
  BY DEF RecordInv
<1>2. /\ base \in Record /\ base.status = "Created" /\ base.events = old.events
      /\ base.output = old.output /\ base.evaluated = old.evaluated
      /\ base.usage = old.usage /\ base.evidence = {} /\ old.evidence = {}
      /\ base.results = old.results /\ base.calls = old.calls
      /\ old.usage.steps = 0 /\ old.usage.duration = 0 /\ DOMAIN old.events = {}
  <2>1. base \in Record
    BY MissingType DEF Record, Statuses
  <2>2. DOMAIN Missing.events = {}
    BY DEF Missing
  <2> QED
    BY <1>1, <2>1, <2>2 DEF Missing
<1> HIDE DEF base
<1>3. Monotonic(old.usage, base.usage)
  BY <1>2 DEF Monotonic
<1>4. /\ RecordInv(new) /\ Extends(old, new)
      /\ new.status = base.status /\ new.output = old.output
      /\ new.evaluated = old.evaluated /\ new.usage = base.usage
      /\ new.evidence = base.evidence /\ new.results = base.results
      /\ new.calls = base.calls
  BY <1>2, <1>3, EventKindsDiffer, PlainLogged DEF Endings
<1> HIDE DEF new
<1>5. LedgerStep(old, new)
  BY <1>2, <1>4 DEF LedgerStep, SameBut, EvidenceOf
<1>6. IdsOf(new) = IdsOf(old)
  BY <1>2, <1>4 DEF IdsOf, EvidenceOf
<1> QED
  BY <1>4, <1>5, <1>6 DEF Accepted, new, base

(* What start_run writes is accepted.                                      *)
LEMMA StartAccepted ==
  ASSUME NEW old, RecordInv(old), old.status = "Created", NEW at \in Nat
  PROVE  LET new == Logged([old EXCEPT !.status = "Running", !.started = at],
                           "RunStarted", at, old.usage.steps)
         IN  Accepted(old, new) /\ IdsOf(new) = IdsOf(old)
<1> DEFINE base == [old EXCEPT !.status = "Running", !.started = at]
           new  == Logged(base, "RunStarted", at, old.usage.steps)
<1>1. /\ base \in Record /\ base.status = "Running" /\ base.events = old.events
      /\ base.output = old.output /\ base.evaluated = old.evaluated
      /\ base.usage = old.usage /\ base.evidence = old.evidence
      /\ base.results = old.results /\ base.calls = old.calls
  BY DEF RecordInv, Record, Statuses
<1>2. old.usage.steps \in Nat /\ old.usage.duration \in Nat
  BY DEF RecordInv, Record, Usage
<1> HIDE DEF base
<1>3. Monotonic(old.usage, base.usage)
  BY <1>1, <1>2 DEF Monotonic
<1>4. \A e \in base.evidence : SourceExists(base, e.source)
  BY <1>1 DEF RecordInv, Backed, SourceExists
<1>5. /\ RecordInv(new) /\ Extends(old, new)
      /\ new.status = base.status /\ new.output = old.output
      /\ new.evaluated = old.evaluated /\ new.usage = base.usage
      /\ new.evidence = base.evidence /\ new.results = base.results
      /\ new.calls = base.calls
  BY <1>1, <1>2, <1>3, <1>4, EventKindsDiffer, PlainLogged DEF Endings
<1> HIDE DEF new
<1>6. LedgerStep(old, new)
  BY <1>1, <1>5 DEF LedgerStep, SameBut, EvidenceOf
<1>7. IdsOf(new) = IdsOf(old)
  BY <1>1, <1>5 DEF IdsOf, EvidenceOf
<1> QED
  BY <1>5, <1>6, <1>7 DEF Accepted, new, base

(* An ending a transition allows, with the output that goes with it.       *)
LEMMA EndAccepted ==
  ASSUME NEW old, RecordInv(old), NEW ending \in Endings, MayTransition(old.status, ending),
         NEW at \in Nat, NEW output \in {NoOutput} \cup SUBSET EvidenceIds,
         ending = "Completed" => output # NoOutput /\ output \subseteq EvidenceOf(old),
         ending # "Completed" => output = NoOutput
  PROVE  LET new == Ended(old, ending, output, at)
         IN  Accepted(old, new) /\ IdsOf(new) = IdsOf(old)
<1> DEFINE new == Ended(old, ending, output, at)
           e   == [kind |-> EndEvent[ending], at |-> at, step |-> old.usage.steps]
           log == old.events
           n   == Len(log)
<1>1. /\ new \in Record /\ new.status = ending /\ new.output = output
      /\ new.usage.steps = old.usage.steps
      /\ new.results = old.results /\ new.calls = old.calls
      /\ new.evidence = old.evidence /\ new.evaluated = old.evaluated
      /\ new.usage.duration = Lasted(old, at) /\ new.events = Append(log, e)
  BY EndedType DEF RecordInv
<1>2. /\ old \in Record /\ log \in Seq(Event) /\ old.usage.steps \in Nat
      /\ old.usage.duration \in Nat
  BY DEF RecordInv, Record, Usage
<1>3. /\ e \in Event /\ e.kind = EndEvent[ending] /\ e.step = old.usage.steps
      /\ e.kind \in EndEvents
  BY <1>2, EndEventType DEF Event, EndEvents
<1> HIDE DEF e, new
<1>4. /\ n \in Nat /\ DOMAIN new.events = 1 .. (n + 1) /\ DOMAIN log = 1 .. n
      /\ \A i \in 1 .. n : new.events[i] = log[i]
      /\ new.events[n + 1] = e /\ Len(new.events) = n + 1
  BY <1>1, <1>2, <1>3, Appended
<1>5. /\ old.status \in {"Created", "Running"} /\ old.status \notin Endings
      /\ old.status # "Completed"
  BY DEF MayTransition, Transitions, Endings
<1>6. EndsOf(log) = {} /\ ~old.evaluated
  BY <1>2, <1>5 DEF RecordInv, LogFits, Record
<1>7. EndsOf(new.events) = {n + 1}
  BY <1>1, <1>2, <1>3, <1>6, EndsAppended
<1>8. LogFits(new)
  BY <1>1, <1>3, <1>4, <1>6, <1>7 DEF LogFits
<1>9. Backed(new)
  BY <1>1 DEF RecordInv, Backed, SourceExists, EvidenceOf
<1>10. RecordInv(new)
  BY <1>1, <1>8, <1>9 DEF RecordInv, Endings
<1>11. Monotonic(old.usage, new.usage)
  <2>1. old.usage.duration <= Lasted(old, at)
    BY <1>2, LastedType
  <2> QED
    BY <1>1, <1>2, <2>1 DEF Monotonic
<1>12. Extends(old, new)
  BY <1>1, <1>4, <1>5, <1>6, <1>11 DEF Extends
<1>13. EvidenceOf(new) = EvidenceOf(old) /\ IdsOf(new) = IdsOf(old)
  BY <1>1 DEF EvidenceOf, IdsOf
<1>14. LedgerStep(old, new)
  BY <1>1, <1>13 DEF LedgerStep, SameBut, MayTransition
<1> QED
  BY <1>10, <1>12, <1>13, <1>14 DEF Accepted, new

(* The evaluation of a completed run: the one event after the ending.      *)
LEMMA EvaluateAccepted ==
  ASSUME NEW old, RecordInv(old), old.status = "Completed", ~old.evaluated, NEW at \in Nat
  PROVE  LET new == Logged([old EXCEPT !.evaluated = TRUE], "EvaluationCompleted", at,
                           old.usage.steps)
         IN  Accepted(old, new) /\ IdsOf(new) = IdsOf(old)
<1> DEFINE base == [old EXCEPT !.evaluated = TRUE]
           e    == [kind |-> "EvaluationCompleted", at |-> at, step |-> old.usage.steps]
           new  == Logged(base, "EvaluationCompleted", at, old.usage.steps)
           log  == old.events
           n    == Len(log)
<1>1. /\ old \in Record /\ log \in Seq(Event) /\ old.usage.steps \in Nat
      /\ old.usage.duration \in Nat
  BY DEF RecordInv, Record, Usage
<1>2. base \in Record /\ base.events = log
  BY <1>1 DEF Record
<1>3. e \in Event /\ e.kind = "EvaluationCompleted" /\ e.kind \notin EndEvents
  BY <1>1, EventKindsDiffer DEF Event, PlainEvents
<1>4. new \in Record
  BY <1>1, <1>2, EventKindsDiffer, LoggedType DEF PlainEvents
<1>5. /\ new.status = "Completed" /\ new.output = old.output /\ new.usage = old.usage
      /\ new.results = old.results /\ new.calls = old.calls
      /\ new.evidence = old.evidence /\ new.evaluated /\ new.events = Append(log, e)
      /\ new = [old EXCEPT !.evaluated = new.evaluated, !.events = new.events]
  BY <1>1 DEF Logged, Record
<1> HIDE DEF e, new, base
<1>6. /\ n \in Nat /\ DOMAIN new.events = 1 .. (n + 1) /\ DOMAIN log = 1 .. n
      /\ \A i \in 1 .. n : new.events[i] = log[i]
      /\ new.events[n + 1] = e /\ Len(new.events) = n + 1
  BY <1>1, <1>3, <1>5, Appended
<1>7. EndsOf(new.events) = EndsOf(log) /\ EndsOf(log) # {}
  <2>1. EndsOf(log) # {}
    BY DEF RecordInv, LogFits, Endings
  <2> QED
    BY <1>1, <1>3, <1>5, <2>1, EndsAppended
<1>8. LogFits(new)
  <2>1. ASSUME NEW i \in EndsOf(new.events)
        PROVE  new.events[i].kind = EndEvent[new.status] /\ Len(new.events) = i + 1
    <3>1. i \in EndsOf(log) /\ i \in 1 .. n
      BY <1>6, <1>7, <2>1 DEF EndsOf
    <3>2. log[i].kind = EndEvent[old.status] /\ Len(log) = i
      BY <3>1 DEF RecordInv, LogFits
    <3> QED
      BY <1>5, <1>6, <3>1, <3>2
  <2>2. new.status \in Endings
    BY <1>5 DEF Endings
  <2>3. new.events[Len(new.events)].kind = "EvaluationCompleted"
    BY <1>3, <1>6
  <2> QED
    BY <1>5, <1>7, <2>1, <2>2, <2>3 DEF LogFits
<1>9. Backed(new)
  BY <1>5 DEF RecordInv, Backed, SourceExists, EvidenceOf
<1>10. RecordInv(new)
  BY <1>4, <1>5, <1>8, <1>9 DEF RecordInv
<1>11. Extends(old, new)
  BY <1>1, <1>5, <1>6 DEF Extends, Monotonic
<1>12. EvidenceOf(new) = EvidenceOf(old) /\ IdsOf(new) = IdsOf(old)
  BY <1>5 DEF EvidenceOf, IdsOf
<1>13. LedgerStep(old, new)
  BY <1>5, <1>12 DEF LedgerStep, SameBut
<1> QED
  BY <1>10, <1>11, <1>12, <1>13 DEF Accepted, new, base

(* The calls that work on a running record.                                *)

(* The fields of a record that fits.                                       *)
LEMMA RunningFacts ==
  ASSUME NEW old, RecordInv(old)
  PROVE  /\ old \in Record /\ old.usage \in Usage
         /\ old.usage.steps \in Nat /\ old.usage.duration \in Nat
         /\ \A e \in old.evidence : e.source \in old.results \cup old.calls
         /\ Monotonic(old.usage, old.usage)
<1>1. old \in Record /\ old.usage \in Usage
  BY DEF RecordInv, Record
<1>2. old.usage.steps \in Nat /\ old.usage.duration \in Nat
  BY <1>1 DEF Usage
<1> QED
  BY <1>1, <1>2 DEF RecordInv, Backed, SourceExists, Monotonic

(* What commit_tool_result writes before it logs its event.              *)
LEMMA ToolResultBase ==
  ASSUME NEW old, RecordInv(old), NEW id \in ResultIds, NEW usage \in Usage
  PROVE  LET base == [old EXCEPT !.results = @ \cup {id}, !.usage = usage]
         IN  /\ base \in Record /\ base.status = old.status /\ base.events = old.events
             /\ base.output = old.output /\ base.evaluated = old.evaluated
             /\ base.usage = usage /\ base.evidence = old.evidence
             /\ \A e \in base.evidence : SourceExists(base, e.source)
             /\ IdsOf(base) = IdsOf(old) \cup {id}
<1> DEFINE base == [old EXCEPT !.results = @ \cup {id}, !.usage = usage]
<1>1. /\ base \in Record /\ base.status = old.status /\ base.events = old.events
      /\ base.output = old.output /\ base.evaluated = old.evaluated
      /\ base.usage = usage /\ base.evidence = old.evidence
      /\ base.results = old.results \cup {id} /\ base.calls = old.calls
  <2>1. old \in Record
    BY RunningFacts
  <2>2. old.results \cup {id} \in SUBSET ResultIds
    BY <2>1 DEF Record
  <2> QED
    BY <2>1, <2>2 DEF Record
<1> HIDE DEF base
<1>2. \A e \in base.evidence : SourceExists(base, e.source)
  BY <1>1, RunningFacts DEF SourceExists
<1>3. IdsOf(base) = IdsOf(old) \cup {id}
  BY <1>1 DEF IdsOf, EvidenceOf
<1> QED
  BY <1>1, <1>2, <1>3 DEF base

(* What commit_model_call writes before it logs its event.               *)
LEMMA ModelCallBase ==
  ASSUME NEW old, RecordInv(old), NEW id \in CallIds, NEW usage \in Usage
  PROVE  LET base == [old EXCEPT !.calls = @ \cup {id}, !.usage = usage]
         IN  /\ base \in Record /\ base.status = old.status /\ base.events = old.events
             /\ base.output = old.output /\ base.evaluated = old.evaluated
             /\ base.usage = usage /\ base.evidence = old.evidence
             /\ \A e \in base.evidence : SourceExists(base, e.source)
             /\ IdsOf(base) = IdsOf(old) \cup {id}
<1> DEFINE base == [old EXCEPT !.calls = @ \cup {id}, !.usage = usage]
<1>1. /\ base \in Record /\ base.status = old.status /\ base.events = old.events
      /\ base.output = old.output /\ base.evaluated = old.evaluated
      /\ base.usage = usage /\ base.evidence = old.evidence
      /\ base.calls = old.calls \cup {id} /\ base.results = old.results
  <2>1. old \in Record
    BY RunningFacts
  <2>2. old.calls \cup {id} \in SUBSET CallIds
    BY <2>1 DEF Record
  <2> QED
    BY <2>1, <2>2 DEF Record
<1> HIDE DEF base
<1>2. \A e \in base.evidence : SourceExists(base, e.source)
  BY <1>1, RunningFacts DEF SourceExists
<1>3. IdsOf(base) = IdsOf(old) \cup {id}
  BY <1>1 DEF IdsOf, EvidenceOf
<1> QED
  BY <1>1, <1>2, <1>3 DEF base

(* What append_evidence_recorded writes is accepted.                       *)
LEMMA EvidenceAccepted ==
  ASSUME NEW old, RecordInv(old), old.status = "Running", NEW id \in EvidenceIds,
         NEW source \in Sources, SourceExists(old, source), NEW at \in Nat, NEW step \in Nat
  PROVE  LET new == Logged([old EXCEPT !.evidence = @ \cup {[id |-> id, source |-> source]}],
                           "EvidenceRecorded", at, step)
         IN  Accepted(old, new) /\ IdsOf(new) = IdsOf(old) \cup {id}
<1> DEFINE base == [old EXCEPT !.evidence = @ \cup {[id |-> id, source |-> source]}]
           item == [id |-> id, source |-> source]
<1>0. item \in Evidence /\ item.id = id /\ item.source = source
  BY DEF Evidence
<1>1. /\ base \in Record /\ base.status = old.status /\ base.events = old.events
      /\ base.output = old.output /\ base.evaluated = old.evaluated
      /\ base.usage = old.usage /\ base.evidence = old.evidence \cup {item}
      /\ base.results = old.results /\ base.calls = old.calls
  BY <1>0, RunningFacts DEF Record
<1>2. Monotonic(old.usage, base.usage)
  BY <1>1, RunningFacts
<1> HIDE DEF base, item
<1>3. \A e \in base.evidence : SourceExists(base, e.source)
  BY <1>0, <1>1, RunningFacts DEF SourceExists
<1>4. "EvidenceRecorded" \in PlainEvents /\ old.evidence \subseteq base.evidence
  BY <1>1, EventKindsDiffer
<1>5. LET new == Logged(base, "EvidenceRecorded", at, step)
      IN  Accepted(old, new) /\ IdsOf(new) = IdsOf(base)
  BY <1>1, <1>2, <1>3, <1>4, WorkAccepted
<1>6. EvidenceOf(base) = EvidenceOf(old) \cup {id}
  BY <1>0, <1>1 DEF EvidenceOf
<1>7. IdsOf(base) = IdsOf(old) \cup {id}
  BY <1>1, <1>6 DEF IdsOf
<1> QED
  BY <1>5, <1>7 DEF base, item

(* What append_event writes is accepted, the kinds of the commits and of   *)
(* the evaluation included.                                                *)
LEMMA EventAccepted ==
  ASSUME NEW old, RecordInv(old), old.status = "Running", NEW step \in Nat, NEW at \in Nat,
         NEW kind \in EventKinds \ ServiceManaged
  PROVE  LET new == Logged(old, kind, at, step)
         IN  Accepted(old, new) /\ IdsOf(new) = IdsOf(old)
<1>1. old \in Record /\ Monotonic(old.usage, old.usage)
      /\ \A e \in old.evidence : SourceExists(old, e.source)
  BY RunningFacts DEF SourceExists
<1>2. kind \in PlainEvents
  BY EventKindsDiffer
<1> QED
  BY <1>1, <1>2, WorkAccepted

(* What update_usage writes is accepted.                                   *)
LEMMA UsageAccepted ==
  ASSUME NEW old, RecordInv(old), old.status = "Running",
         NEW usage \in Usage, Monotonic(old.usage, usage)
  PROVE  LET new == [old EXCEPT !.usage = usage]
         IN  Accepted(old, new) /\ IdsOf(new) = IdsOf(old)
<1> DEFINE new == [old EXCEPT !.usage = usage]
<1>1. /\ new \in Record /\ new.status = old.status /\ new.events = old.events
      /\ new.output = old.output /\ new.evaluated = old.evaluated
      /\ new.usage = usage /\ new.evidence = old.evidence
      /\ new.results = old.results /\ new.calls = old.calls
  BY RunningFacts DEF Record
<1>2. usage.steps \in Nat /\ old.usage.steps <= usage.steps
  BY DEF Usage, Monotonic
<1>3. old.events \in Seq(Event) /\ Len(old.events) \in Nat
  BY DEF RecordInv, Record
<1> HIDE DEF new
<1>4. LogFits(new) /\ Backed(new)
  BY <1>1 DEF RecordInv, LogFits, Backed, SourceExists, EvidenceOf
<1>5. RecordInv(new)
  BY <1>1, <1>4 DEF RecordInv
<1>6. Extends(old, new)
  BY <1>1, <1>3 DEF Extends, Endings
<1>7. LedgerStep(old, new)
  BY <1>1, <1>2 DEF LedgerStep, SameBut, EvidenceOf
<1>8. IdsOf(new) = IdsOf(old)
  BY <1>1 DEF IdsOf, EvidenceOf
<1> QED
  BY <1>5, <1>6, <1>7, <1>8 DEF Accepted, new

-----------------------------------------------------------------------------
(* The store and the rows.                                                 *)

(* No identifier belongs to two runs.                                      *)
Apart(rows) == \A q, r \in Runs : q # r => IdsOf(rows[q]) \cap IdsOf(rows[r]) = {}

RowsFit == \A r \in Runs : RecordInv(disk[r])

Quiet == mode # "up" => txn = NoTxn

Clean == mode # "down" /\ txn = NoTxn => store = Loaded(disk)

(* The lock is held between the mutation and its save.                     *)
Dirty ==
  txn # NoTxn =>
    LET r == txn[2] IN
    /\ previous = Loaded(disk)
    /\ store = Loaded(store.runs)
    /\ store.runs = [disk EXCEPT ![r] = store.runs[r]]
    /\ Accepted(disk[r], store.runs[r])
    /\ Apart(store.runs)

(* What complete_run looked up stays true after it gave up its read lock:  *)
(* evidence is never removed.                                              *)
DraftsBacked ==
  \A c \in Clients :
    draft[c] # NoDraft => draft[c].output \subseteq EvidenceOf(disk[draft[c].run])

(* Recovery still has to fail exactly the runs that are Running.           *)
Recovering ==
  mode = "recovering" => interrupted = {r \in Runs : disk[r].status = "Running"}

IInv ==
  /\ TypeOK
  /\ RowsFit
  /\ Apart(disk)
  /\ Quiet
  /\ Clean
  /\ Dirty
  /\ DraftsBacked
  /\ Recovering

-----------------------------------------------------------------------------
(* Calls.                                                                  *)

Drafts == {NoDraft} \cup [run : Runs, output : SUBSET EvidenceIds]

(* The call changes nothing but what its own thread remembers.             *)
Bookkeeping ==
  /\ UNCHANGED <<mode, store, disk, txn, previous, clock, interrupted>>
  /\ now' \in [Clients -> Nat] /\ draft' \in [Clients -> Drafts]
  /\ DraftsBacked'

(* The call takes the lock with one accepted mutation.                     *)
Mutation(c) ==
  /\ mode = "up" /\ txn = NoTxn
  /\ UNCHANGED <<mode, disk, clock, interrupted>>
  /\ now' \in [Clients -> Nat] /\ draft' \in [Clients -> Drafts]
  /\ DraftsBacked'
  /\ \E r \in Runs, rec \in Record, ids \in SUBSET Ids :
       /\ Mutate(c, r, rec, ids)
       /\ Accepted(store.runs[r], rec)
       /\ ids \cap store.ids = {}
       /\ IdsOf(rec) = IdsOf(store.runs[r]) \cup ids

(* While the lock is free the records in memory are the committed ones.    *)
LEMMA FreeStore ==
  ASSUME IInv, mode = "up", txn = NoTxn
  PROVE  /\ store.runs = disk
         /\ \A r \in Runs : RecordInv(store.runs[r])
         /\ \A r \in Runs : store.runs[r].status = "Absent" => store.runs[r] = Missing
  BY DEF IInv, Clean, RowsFit, RecordInv, Loaded

(* A mutation of a record that is accepted leads to a state that waits for *)
(* its save.                                                               *)
LEMMA Mutated ==
  ASSUME IInv, NEW c \in Clients, NEW r \in Runs, NEW rec, NEW ids \in SUBSET Ids,
         mode = "up", txn = NoTxn, UNCHANGED <<mode, disk, clock, interrupted>>,
         now' = [now EXCEPT ![c] = 0],
         draft' = draft \/ draft' = [draft EXCEPT ![c] = NoDraft],
         Mutate(c, r, rec, ids), Accepted(store.runs[r], rec),
         ids \cap store.ids = {}, IdsOf(rec) = IdsOf(store.runs[r]) \cup ids
  PROVE  Mutation(c)
<1>1. rec \in Record
  BY DEF Accepted, RecordInv
<1>2. now \in [Clients -> Nat] /\ draft \in [Clients -> Drafts]
  BY DEF IInv, TypeOK, Drafts
<1>3. now' \in [Clients -> Nat] /\ draft' \in [Clients -> Drafts]
  BY <1>2 DEF Drafts
<1>4. \A d \in Clients : draft'[d] = draft[d] \/ draft'[d] = NoDraft
  BY <1>2
<1>5. DraftsBacked'
  BY <1>4 DEF IInv, DraftsBacked
<1> QED
  BY <1>1, <1>3, <1>5 DEF Mutation

(* The same for a mutation that brings no identifier.                      *)
LEMMA MutatedPlain ==
  ASSUME IInv, NEW c \in Clients, NEW r \in Runs, NEW rec,
         mode = "up", txn = NoTxn, UNCHANGED <<mode, disk, clock, interrupted>>,
         now' = [now EXCEPT ![c] = 0],
         draft' = draft \/ draft' = [draft EXCEPT ![c] = NoDraft],
         Mutate(c, r, rec, {}), Accepted(store.runs[r], rec),
         IdsOf(rec) = IdsOf(store.runs[r])
  PROVE  Mutation(c)
<1> DEFINE none == {}
<1>1. /\ none \in SUBSET Ids /\ none \cap store.ids = {}
      /\ IdsOf(rec) = IdsOf(store.runs[r]) \cup none
      /\ Mutate(c, r, rec, none)
  OBVIOUS
<1> HIDE DEF none
<1> QED
  BY <1>1, Mutated

(* create_run is a mutation.                                               *)
LEMMA CreateRunMutates ==
  ASSUME IInv, NEW c \in Clients, NEW r \in Runs, CreateRun(c, r)
  PROVE  Mutation(c)
<1> DEFINE new == Logged([Missing EXCEPT !.status = "Created"], "RunCreated", now[c], 0)
<1>1. now[c] \in Nat /\ mode = "up" /\ txn = NoTxn /\ RecordInv(store.runs[r])
  BY FreeStore DEF CreateRun, Stamped, IInv, TypeOK
<1>2. Accepted(store.runs[r], new) /\ IdsOf(new) = IdsOf(store.runs[r])
  BY <1>1, CreateAccepted DEF CreateRun
<1>3. Mutate(c, r, new, {})
  BY DEF CreateRun
<1> HIDE DEF new
<1> QED
  BY <1>1, <1>2, <1>3, MutatedPlain DEF CreateRun, Done

(* start_run is a mutation.                                                *)
LEMMA StartRunMutates ==
  ASSUME IInv, NEW c \in Clients, NEW r \in Runs, StartRun(c, r)
  PROVE  Mutation(c)
<1> DEFINE rec == store.runs[r]
           new == Logged([rec EXCEPT !.status = "Running", !.started = now[c]],
                         "RunStarted", now[c], rec.usage.steps)
<1>1. now[c] \in Nat /\ mode = "up" /\ txn = NoTxn /\ RecordInv(rec)
  BY FreeStore DEF StartRun, Addressed, Stamped, IInv, TypeOK
<1>2. rec.status = "Created"
  BY DEF StartRun, MayTransition, Transitions, Endings
<1>3. Accepted(rec, new) /\ IdsOf(new) = IdsOf(rec)
  BY <1>1, <1>2, StartAccepted
<1>4. Mutate(c, r, new, {})
  BY DEF StartRun
<1> HIDE DEF new
<1> QED
  BY <1>1, <1>3, <1>4, MutatedPlain DEF StartRun, Done

(* An ending other than a completion is a mutation.                        *)
LEMMA FinishRunMutates ==
  ASSUME IInv, NEW c \in Clients, NEW r \in Runs, NEW ending \in Endings,
         FinishRun(c, r, ending)
  PROVE  Mutation(c)
<1> DEFINE rec == store.runs[r]
           new == Ended(rec, ending, NoOutput, now[c])
<1>1. now[c] \in Nat /\ mode = "up" /\ txn = NoTxn /\ RecordInv(rec)
  BY FreeStore DEF FinishRun, Addressed, Stamped, IInv, TypeOK
<1>2. MayTransition(rec.status, ending) /\ ending # "Completed"
  BY DEF FinishRun
<1>3. Accepted(rec, new) /\ IdsOf(new) = IdsOf(rec)
  BY <1>1, <1>2, EndAccepted
<1>4. Mutate(c, r, new, {})
  BY DEF FinishRun
<1> HIDE DEF new
<1> QED
  BY <1>1, <1>3, <1>4, MutatedPlain DEF FinishRun, Done

(* A completion is a mutation: the evidence looked up before is still      *)
(* there.                                                                  *)
LEMMA CompleteRunMutates ==
  ASSUME IInv, NEW c \in Clients, CompleteRun(c)
  PROVE  Mutation(c)
<1> DEFINE r      == draft[c].run
           rec    == store.runs[r]
           output == draft[c].output
           new    == Ended(rec, "Completed", output, now[c])
<1>1. /\ now[c] \in Nat /\ mode = "up" /\ txn = NoTxn /\ r \in Runs
      /\ output \in SUBSET EvidenceIds
  BY DEF CompleteRun, IInv, TypeOK
<1>2. RecordInv(rec) /\ output \subseteq EvidenceOf(rec)
  BY <1>1, FreeStore DEF CompleteRun, IInv, DraftsBacked
<1>3. MayTransition(rec.status, "Completed")
  BY DEF CompleteRun
<1>4. output # NoOutput /\ "Completed" \in Endings
  BY <1>1, SentinelAssumption DEF Endings
<1>5. Accepted(rec, new) /\ IdsOf(new) = IdsOf(rec)
  BY <1>1, <1>2, <1>3, <1>4, EndAccepted
<1>6. Mutate(c, r, new, {})
  BY DEF CompleteRun
<1> HIDE DEF new, r
<1> QED
  BY <1>1, <1>5, <1>6, MutatedPlain DEF CompleteRun

(* commit_tool_result is a mutation.                                       *)
LEMMA CommitToolResultMutates ==
  ASSUME IInv, NEW c \in Clients, NEW r \in Runs, NEW id \in ResultIds,
         NEW step \in Nat, NEW usage \in Usage, CommitToolResult(c, r, id, step, usage)
  PROVE  Mutation(c)
<1> DEFINE rec  == store.runs[r]
           base == [rec EXCEPT !.results = @ \cup {id}, !.usage = usage]
           at   == now[c]
           new  == Logged(base, "ToolCompleted", at, step)
<1>1. at \in Nat /\ mode = "up" /\ txn = NoTxn /\ RecordInv(rec)
  BY FreeStore DEF CommitToolResult, Addressed, Stamped, IInv, TypeOK
<1>2. rec.status = "Running" /\ Monotonic(rec.usage, usage)
  BY DEF CommitToolResult, AcceptsUpdates
<1>3. Mutate(c, r, new, {id}) /\ {id} \cap store.ids = {} /\ {id} \in SUBSET Ids
  BY DEF CommitToolResult, Ids
<1>4. /\ base \in Record /\ base.status = rec.status /\ base.events = rec.events
      /\ base.output = rec.output /\ base.evaluated = rec.evaluated
      /\ base.usage = usage /\ base.evidence = rec.evidence
      /\ \A e \in base.evidence : SourceExists(base, e.source)
      /\ IdsOf(base) = IdsOf(rec) \cup {id}
  BY <1>1, ToolResultBase
<1> HIDE DEF base, rec, at
<1>5. Accepted(rec, new) /\ IdsOf(new) = IdsOf(base)
  BY <1>1, <1>2, <1>4, EventKindsDiffer, WorkAccepted
<1> HIDE DEF new
<1> QED
  BY <1>1, <1>3, <1>4, <1>5, Mutated DEF CommitToolResult, Done, rec

(* commit_model_call is a mutation.                                        *)
LEMMA CommitModelCallMutates ==
  ASSUME IInv, NEW c \in Clients, NEW r \in Runs, NEW id \in CallIds,
         NEW step \in Nat, NEW usage \in Usage, CommitModelCall(c, r, id, step, usage)
  PROVE  Mutation(c)
<1> DEFINE rec  == store.runs[r]
           base == [rec EXCEPT !.calls = @ \cup {id}, !.usage = usage]
           at   == now[c]
           new  == Logged(base, "ModelCalled", at, step)
<1>1. at \in Nat /\ mode = "up" /\ txn = NoTxn /\ RecordInv(rec)
  BY FreeStore DEF CommitModelCall, Addressed, Stamped, IInv, TypeOK
<1>2. rec.status = "Running" /\ Monotonic(rec.usage, usage)
  BY DEF CommitModelCall, AcceptsUpdates
<1>3. Mutate(c, r, new, {id}) /\ {id} \cap store.ids = {} /\ {id} \in SUBSET Ids
  BY DEF CommitModelCall, Ids
<1>4. /\ base \in Record /\ base.status = rec.status /\ base.events = rec.events
      /\ base.output = rec.output /\ base.evaluated = rec.evaluated
      /\ base.usage = usage /\ base.evidence = rec.evidence
      /\ \A e \in base.evidence : SourceExists(base, e.source)
      /\ IdsOf(base) = IdsOf(rec) \cup {id}
  BY <1>1, ModelCallBase
<1> HIDE DEF base, rec, at
<1>5. Accepted(rec, new) /\ IdsOf(new) = IdsOf(base)
  BY <1>1, <1>2, <1>4, EventKindsDiffer, WorkAccepted
<1> HIDE DEF new
<1> QED
  BY <1>1, <1>3, <1>4, <1>5, Mutated DEF CommitModelCall, Done, rec

(* append_evidence_recorded is a mutation.                                 *)
LEMMA RecordEvidenceMutates ==
  ASSUME IInv, NEW c \in Clients, NEW r \in Runs, NEW id \in EvidenceIds,
         NEW source \in Sources, NEW step \in Nat, RecordEvidence(c, r, id, source, step)
  PROVE  Mutation(c)
<1> DEFINE rec == store.runs[r]
           new == Logged([rec EXCEPT !.evidence = @ \cup {[id |-> id, source |-> source]}],
                         "EvidenceRecorded", now[c], step)
<1>1. now[c] \in Nat /\ mode = "up" /\ txn = NoTxn /\ RecordInv(rec)
  BY FreeStore DEF RecordEvidence, Addressed, Stamped, IInv, TypeOK
<1>2. rec.status = "Running" /\ SourceExists(rec, source)
  BY DEF RecordEvidence, AcceptsUpdates
<1>3. Accepted(rec, new) /\ IdsOf(new) = IdsOf(rec) \cup {id}
  BY <1>1, <1>2, EvidenceAccepted
<1>4. Mutate(c, r, new, {id}) /\ {id} \cap store.ids = {} /\ {id} \in SUBSET Ids
  BY DEF RecordEvidence, Ids
<1> HIDE DEF new
<1> QED
  BY <1>1, <1>3, <1>4, Mutated DEF RecordEvidence, Done

(* record_event is a mutation.                                             *)
LEMMA AppendEventMutates ==
  ASSUME IInv, NEW c \in Clients, NEW r \in Runs, NEW kind \in EventKinds, NEW step \in Nat,
         AppendEvent(c, r, kind, step)
  PROVE  Mutation(c)
<1> DEFINE rec == store.runs[r]
           new == Logged(rec, kind, now[c], step)
<1>1. now[c] \in Nat /\ mode = "up" /\ txn = NoTxn /\ RecordInv(rec)
  BY FreeStore DEF AppendEvent, Addressed, Stamped, IInv, TypeOK
<1>2. rec.status = "Running" /\ kind \in EventKinds \ ServiceManaged
  BY DEF AppendEvent, AcceptsUpdates
<1>3. Accepted(rec, new) /\ IdsOf(new) = IdsOf(rec)
  BY <1>1, <1>2, EventAccepted
<1>4. Mutate(c, r, new, {})
  BY DEF AppendEvent
<1> HIDE DEF new
<1> QED
  BY <1>1, <1>3, <1>4, MutatedPlain DEF AppendEvent, Done

(* append_tool_result is a mutation.                                       *)
LEMMA AppendToolResultMutates ==
  ASSUME IInv, NEW c \in Clients, NEW r \in Runs, NEW id \in ResultIds,
         AppendToolResult(c, r, id)
  PROVE  Mutation(c)
<1> DEFINE rec == store.runs[r]
           new == [rec EXCEPT !.results = @ \cup {id}]
<1>1. mode = "up" /\ txn = NoTxn /\ RecordInv(rec) /\ now[c] = 0
  BY FreeStore DEF AppendToolResult, Idle
<1>2. rec.status = "Running" /\ rec \in Record
  BY <1>1, RunningFacts DEF AppendToolResult, AcceptsUpdates
<1>3. Mutate(c, r, new, {id}) /\ {id} \cap store.ids = {} /\ {id} \in SUBSET Ids
  BY DEF AppendToolResult, Ids
<1>4. /\ new \in Record /\ new.status = rec.status /\ new.events = rec.events
      /\ new.output = rec.output /\ new.evaluated = rec.evaluated
      /\ new.usage = rec.usage /\ new.evidence = rec.evidence
      /\ new.results = rec.results \cup {id} /\ new.calls = rec.calls
  <2>1. rec.results \cup {id} \in SUBSET ResultIds
    BY <1>2 DEF Record
  <2> QED
    BY <1>2, <2>1 DEF Record
<1>5. now' = [now EXCEPT ![c] = 0]
  BY <1>1 DEF AppendToolResult, IInv, TypeOK
<1> HIDE DEF new, rec
<1>6. \A e \in new.evidence : SourceExists(new, e.source)
  BY <1>1, <1>4, RunningFacts DEF SourceExists
<1>7. Accepted(rec, new) /\ IdsOf(new) = IdsOf(rec) \cup {id}
  BY <1>1, <1>2, <1>4, <1>6, SilentAccepted DEF IdsOf, EvidenceOf
<1> QED
  BY <1>1, <1>3, <1>5, <1>7, Mutated DEF AppendToolResult, rec

(* append_model_call is a mutation.                                        *)
LEMMA AppendModelCallMutates ==
  ASSUME IInv, NEW c \in Clients, NEW r \in Runs, NEW id \in CallIds,
         AppendModelCall(c, r, id)
  PROVE  Mutation(c)
<1> DEFINE rec == store.runs[r]
           new == [rec EXCEPT !.calls = @ \cup {id}]
<1>1. mode = "up" /\ txn = NoTxn /\ RecordInv(rec) /\ now[c] = 0
  BY FreeStore DEF AppendModelCall, Idle
<1>2. rec.status = "Running" /\ rec \in Record
  BY <1>1, RunningFacts DEF AppendModelCall, AcceptsUpdates
<1>3. Mutate(c, r, new, {id}) /\ {id} \cap store.ids = {} /\ {id} \in SUBSET Ids
  BY DEF AppendModelCall, Ids
<1>4. /\ new \in Record /\ new.status = rec.status /\ new.events = rec.events
      /\ new.output = rec.output /\ new.evaluated = rec.evaluated
      /\ new.usage = rec.usage /\ new.evidence = rec.evidence
      /\ new.calls = rec.calls \cup {id} /\ new.results = rec.results
  <2>1. rec.calls \cup {id} \in SUBSET CallIds
    BY <1>2 DEF Record
  <2> QED
    BY <1>2, <2>1 DEF Record
<1>5. now' = [now EXCEPT ![c] = 0]
  BY <1>1 DEF AppendModelCall, IInv, TypeOK
<1> HIDE DEF new, rec
<1>6. \A e \in new.evidence : SourceExists(new, e.source)
  BY <1>1, <1>4, RunningFacts DEF SourceExists
<1>7. Accepted(rec, new) /\ IdsOf(new) = IdsOf(rec) \cup {id}
  BY <1>1, <1>2, <1>4, <1>6, SilentAccepted DEF IdsOf, EvidenceOf
<1> QED
  BY <1>1, <1>3, <1>5, <1>7, Mutated DEF AppendModelCall, rec

(* append_evidence is a mutation.                                          *)
LEMMA AppendEvidenceMutates ==
  ASSUME IInv, NEW c \in Clients, NEW r \in Runs, NEW id \in EvidenceIds,
         NEW source \in Sources, AppendEvidence(c, r, id, source)
  PROVE  Mutation(c)
<1> DEFINE rec == store.runs[r]
           item == [id |-> id, source |-> source]
           new == [rec EXCEPT !.evidence = @ \cup {item}]
<1>1. mode = "up" /\ txn = NoTxn /\ RecordInv(rec) /\ now[c] = 0
  BY FreeStore DEF AppendEvidence, Idle
<1>2. rec.status = "Running" /\ rec \in Record /\ SourceExists(rec, source)
  BY <1>1, RunningFacts DEF AppendEvidence, AcceptsUpdates
<1>3. Mutate(c, r, new, {id}) /\ {id} \cap store.ids = {} /\ {id} \in SUBSET Ids
  BY DEF AppendEvidence, Ids
<1>4. item \in Evidence /\ item.id = id /\ item.source = source
  BY DEF Evidence
<1>5. /\ new \in Record /\ new.status = rec.status /\ new.events = rec.events
      /\ new.output = rec.output /\ new.evaluated = rec.evaluated
      /\ new.usage = rec.usage /\ new.evidence = rec.evidence \cup {item}
      /\ new.calls = rec.calls /\ new.results = rec.results
  BY <1>2, <1>4 DEF Record
<1>6. now' = [now EXCEPT ![c] = 0]
  BY <1>1 DEF AppendEvidence, IInv, TypeOK
<1> HIDE DEF new, rec, item
<1>7. \A e \in new.evidence : SourceExists(new, e.source)
  BY <1>1, <1>2, <1>4, <1>5, RunningFacts DEF SourceExists
<1>8. EvidenceOf(new) = EvidenceOf(rec) \cup {id}
  BY <1>4, <1>5 DEF EvidenceOf
<1>9. Accepted(rec, new) /\ IdsOf(new) = IdsOf(rec) \cup {id}
  BY <1>1, <1>2, <1>5, <1>7, <1>8, SilentAccepted DEF IdsOf
<1> QED
  BY <1>1, <1>3, <1>6, <1>9, Mutated DEF AppendEvidence, rec

(* update_usage is a mutation.                                             *)
LEMMA UpdateUsageMutates ==
  ASSUME IInv, NEW c \in Clients, NEW r \in Runs, NEW usage \in Usage,
         UpdateUsage(c, r, usage)
  PROVE  Mutation(c)
<1> DEFINE rec == store.runs[r]
           new == [rec EXCEPT !.usage = usage]
<1>1. mode = "up" /\ txn = NoTxn /\ RecordInv(rec) /\ now[c] = 0
  BY FreeStore DEF UpdateUsage, Idle
<1>2. rec.status = "Running" /\ Monotonic(rec.usage, usage)
  BY DEF UpdateUsage, AcceptsUpdates
<1>3. Accepted(rec, new) /\ IdsOf(new) = IdsOf(rec)
  BY <1>1, <1>2, UsageAccepted
<1>4. Mutate(c, r, new, {})
  BY DEF UpdateUsage
<1> HIDE DEF new
<1>5. now' = [now EXCEPT ![c] = 0]
  BY <1>1 DEF UpdateUsage, IInv, TypeOK
<1> QED
  BY <1>1, <1>3, <1>4, <1>5, MutatedPlain DEF UpdateUsage

(* set_evaluation_result is a mutation.                                    *)
LEMMA SetEvaluationMutates ==
  ASSUME IInv, NEW c \in Clients, NEW r \in Runs, SetEvaluation(c, r)
  PROVE  Mutation(c)
<1> DEFINE rec == store.runs[r]
           new == Logged([rec EXCEPT !.evaluated = TRUE], "EvaluationCompleted", now[c],
                         rec.usage.steps)
<1>1. now[c] \in Nat /\ mode = "up" /\ txn = NoTxn /\ RecordInv(rec)
  BY FreeStore DEF SetEvaluation, Addressed, Stamped, IInv, TypeOK
<1>2. rec.status = "Completed" /\ ~rec.evaluated
  BY DEF SetEvaluation
<1>3. Accepted(rec, new) /\ IdsOf(new) = IdsOf(rec)
  BY <1>1, <1>2, EvaluateAccepted
<1>4. Mutate(c, r, new, {})
  BY DEF SetEvaluation
<1> HIDE DEF new
<1> QED
  BY <1>1, <1>3, <1>4, MutatedPlain DEF SetEvaluation, Done

(* Whatever a thread calls, that is all it does.                           *)
LEMMA CallEffect ==
  ASSUME IInv, NEW c \in Clients, Call(c)
  PROVE  Bookkeeping \/ Mutation(c)
<1>1. /\ now \in [Clients -> Nat] /\ draft \in [Clients -> Drafts] /\ clock \in Nat
      /\ DraftsBacked
  BY DEF IInv, TypeOK, Drafts
<1>2. ASSUME Stamp(c)
      PROVE  Bookkeeping
  BY <1>1, <1>2 DEF Stamp, Bookkeeping, DraftsBacked
<1>3. ASSUME Refused(c)
      PROVE  Bookkeeping
  <2>1. now' \in [Clients -> Nat] /\ draft' \in [Clients -> Drafts]
    BY <1>1, <1>3 DEF Refused, Drafts
  <2>2. \A d \in Clients : draft'[d] = draft[d] \/ draft'[d] = NoDraft
    BY <1>1, <1>3 DEF Refused
  <2> QED
    BY <1>1, <1>3, <2>1, <2>2 DEF Refused, Bookkeeping, DraftsBacked
<1>4. ASSUME NEW r \in Runs, NEW output \in SUBSET EvidenceIds, CheckOutput(c, r, output)
      PROVE  Bookkeeping
  <2> DEFINE d == [run |-> r, output |-> output]
  <2>1. d \in Drafts /\ d.run = r /\ d.output = output
    BY DEF Drafts
  <2>2. output \subseteq EvidenceOf(disk[r])
    BY <1>4, FreeStore DEF CheckOutput, Idle
  <2>3. draft' = [draft EXCEPT ![c] = d]
    BY <1>4 DEF CheckOutput
  <2> HIDE DEF d
  <2>4. draft' \in [Clients -> Drafts]
    BY <1>1, <2>1, <2>3
  <2>5. DraftsBacked'
    BY <1>1, <1>4, <2>1, <2>2, <2>3 DEF DraftsBacked, CheckOutput
  <2> QED
    BY <1>1, <1>4, <2>4, <2>5 DEF CheckOutput, Bookkeeping
<1>5. Reported \subseteq Usage /\ 0 .. MaxSteps \subseteq Nat
  BY BoundsAssumption DEF Reported, Usage
<1> QED
  BY <1>2, <1>3, <1>4, <1>5, CreateRunMutates, StartRunMutates, FinishRunMutates,
     CompleteRunMutates, CommitToolResultMutates, CommitModelCallMutates,
     RecordEvidenceMutates, AppendEventMutates, AppendToolResultMutates,
     AppendModelCallMutates, AppendEvidenceMutates, UpdateUsageMutates, SetEvaluationMutates
  DEF Call

-----------------------------------------------------------------------------
(* Rows and what loads from them.                                          *)

(* The ids of a record are ids.                                            *)
LEMMA IdsType ==
  ASSUME NEW rec \in Record
  PROVE  IdsOf(rec) \in SUBSET Ids
  BY DEF IdsOf, EvidenceOf, Record, Evidence, Ids

(* What is loaded from rows is a store with these rows.                    *)
LEMMA LoadedType ==
  ASSUME NEW rows \in [Runs -> Record]
  PROVE  /\ InUse(rows) \in SUBSET Ids
         /\ Loaded(rows) \in StoreType
         /\ Loaded(rows).runs = rows /\ Loaded(rows).ids = InUse(rows)
<1>1. InUse(rows) \in SUBSET Ids
  BY IdsType DEF InUse
<1> QED
  BY <1>1 DEF Loaded, StoreType

(* What one mutation does to the ids in use.                               *)
LEMMA RowsExcept ==
  ASSUME NEW rows, Apart(rows), NEW r \in Runs, NEW ids, ids \cap InUse(rows) = {},
         NEW new, IdsOf(new[r]) = IdsOf(rows[r]) \cup ids,
         \A q \in Runs \ {r} : new[q] = rows[q]
  PROVE  Apart(new) /\ \A x : x \in InUse(new) <=> x \in InUse(rows) \/ x \in ids
<1>1. \A q \in Runs \ {r} : new[q] = rows[q]
  OBVIOUS
<1>2. (UNION {IdsOf(new[q]) : q \in Runs}) = (UNION {IdsOf(rows[q]) : q \in Runs}) \cup ids
  <2>1. ASSUME NEW x \in UNION {IdsOf(new[q]) : q \in Runs}
        PROVE  x \in (UNION {IdsOf(rows[q]) : q \in Runs}) \cup ids
    <3>1. PICK q \in Runs : x \in IdsOf(new[q])
      BY <2>1
    <3>2. CASE q = r
      <4>1. x \in IdsOf(rows[r]) \/ x \in ids
        BY <1>1, <3>1, <3>2
      <4> QED
        BY <4>1
    <3>3. CASE q # r
      <4>1. x \in IdsOf(rows[q])
        BY <1>1, <3>1, <3>3
      <4> QED
        BY <4>1
    <3> QED
      BY <3>2, <3>3
  <2>2. ASSUME NEW x \in (UNION {IdsOf(rows[q]) : q \in Runs}) \cup ids
        PROVE  x \in UNION {IdsOf(new[q]) : q \in Runs}
    <3>1. CASE x \in ids
      <4>1. x \in IdsOf(new[r])
        BY <1>1, <3>1
      <4> QED
        BY <4>1
    <3>2. CASE x \in UNION {IdsOf(rows[q]) : q \in Runs}
      <4>1. PICK q \in Runs : x \in IdsOf(rows[q])
        BY <3>2
      <4>2. x \in IdsOf(new[q])
        BY <1>1, <4>1
      <4> QED
        BY <4>2
    <3> QED
      BY <2>2, <3>1, <3>2
  <2> QED
    BY <2>1, <2>2
<1>4. \A x : x \in InUse(new) <=> x \in InUse(rows) \/ x \in ids
  BY <1>2 DEF InUse
<1>5. \A q \in Runs : ids \cap IdsOf(rows[q]) = {}
  BY DEF InUse
<1>6. ASSUME NEW q \in Runs, NEW p \in Runs, q # p
      PROVE  IdsOf(new[q]) \cap IdsOf(new[p]) = {}
  <2>1. IdsOf(rows[q]) \cap IdsOf(rows[p]) = {}
    BY <1>6 DEF Apart
  <2>2. CASE q = r
    BY <1>1, <1>5, <1>6, <2>1, <2>2
  <2>3. CASE p = r
    BY <1>1, <1>5, <1>6, <2>1, <2>3
  <2>4. CASE q # r /\ p # r
    BY <1>1, <2>1, <2>4
  <2> QED
    BY <2>2, <2>3, <2>4
<1> QED
  BY <1>4, <1>6 DEF Apart

(* A run that does not exist fits its empty log.                           *)
LEMMA MissingFits == RecordInv(Missing)
<1>1. /\ Missing.events = <<>> /\ Missing.status = "Absent" /\ ~Missing.evaluated
      /\ Missing.evidence = {} /\ Missing.output = NoOutput
  BY DEF Missing
<1>2. EndsOf(<<>>) = {}
  BY DEF EndsOf
<1>3. LogFits(Missing)
  BY <1>1, <1>2 DEF LogFits, Endings
<1>4. Backed(Missing)
  BY <1>1 DEF Backed
<1> QED
  BY <1>3, <1>4, MissingType DEF RecordInv

(* Drafts survive a record that grows.                                     *)
LEMMA DraftsSurvive ==
  ASSUME IInv, NEW r \in Runs, NEW rec, Extends(disk[r], rec),
         disk' = [disk EXCEPT ![r] = rec], UNCHANGED draft
  PROVE  DraftsBacked'
<1>1. EvidenceOf(disk[r]) \subseteq EvidenceOf(rec)
  BY DEF Extends, EvidenceOf
<1>2. \A q \in Runs : EvidenceOf(disk[q]) \subseteq EvidenceOf(disk'[q])
  BY <1>1 DEF IInv, TypeOK
<1>3. ASSUME NEW c \in Clients, draft[c] # NoDraft
      PROVE  draft[c].run \in Runs
  BY <1>3 DEF IInv, TypeOK
<1> QED
  BY <1>2, <1>3 DEF DraftsBacked, IInv

-----------------------------------------------------------------------------
(* IInv is inductive.                                                      *)

(* The invariant holds initially: no row, no store.                        *)
LEMMA InitInv == Init => IInv
<1> SUFFICES ASSUME Init PROVE IInv
  OBVIOUS
<1>1. TypeOK
  BY MissingType, EmptyStoreType DEF Init, TypeOK, StoreType
<1>2. RowsFit
  BY MissingFits DEF Init, RowsFit
<1>3. Apart(disk)
  BY DEF Init, Apart, Missing, IdsOf, EvidenceOf
<1>4. Quiet /\ Clean /\ Dirty /\ DraftsBacked /\ Recovering
  BY DEF Init, Quiet, Clean, Dirty, DraftsBacked, Recovering
<1> QED
  BY <1>1, <1>2, <1>3, <1>4 DEF IInv

(* Stamps, refusals and look-ups keep the invariant.                       *)
LEMMA BookkeepingKeeps == IInv /\ Bookkeeping => IInv'
<1> SUFFICES ASSUME IInv, Bookkeeping PROVE IInv'
  OBVIOUS
<1>1. TypeOK'
  BY DEF IInv, Bookkeeping, TypeOK, Drafts
<1>2. RowsFit' /\ Apart(disk)' /\ Quiet' /\ Clean' /\ Dirty' /\ Recovering'
  BY DEF IInv, Bookkeeping, RowsFit, Apart, Quiet, Clean, Dirty, Recovering
<1> QED
  BY <1>1, <1>2 DEF IInv, Bookkeeping

(* A mutation keeps the invariant.                                         *)
LEMMA MutationKeeps ==
  ASSUME IInv, NEW c \in Clients, Mutation(c)
  PROVE  IInv'
<1>1. PICK r \in Runs, rec \in Record, ids \in SUBSET Ids :
        /\ Mutate(c, r, rec, ids)
        /\ Accepted(store.runs[r], rec)
        /\ ids \cap store.ids = {}
        /\ IdsOf(rec) = IdsOf(store.runs[r]) \cup ids
  BY DEF Mutation
<1>2. /\ mode = "up" /\ txn = NoTxn /\ mode' = mode /\ disk' = disk /\ clock' = clock
      /\ interrupted' = interrupted
      /\ now' \in [Clients -> Nat] /\ draft' \in [Clients -> Drafts] /\ DraftsBacked'
  BY DEF Mutation
<1>3. store = Loaded(disk) /\ disk \in [Runs -> Record] /\ Apart(disk)
  BY <1>2 DEF IInv, Clean, TypeOK
<1>4. /\ store.runs = disk /\ store.ids = InUse(disk)
      /\ IdsOf(rec) = IdsOf(disk[r]) \cup ids /\ ids \cap InUse(disk) = {}
  BY <1>1, <1>3, LoadedType
<1>5. txn' = <<c, r>> /\ previous' = store
      /\ store' = [runs |-> [disk EXCEPT ![r] = rec], ids |-> store.ids \cup ids]
  BY <1>1, <1>4 DEF Mutate
<1>6. store'.runs = [disk EXCEPT ![r] = rec] /\ store'.runs[r] = rec
  BY <1>3, <1>5
<1>7. Apart(store'.runs) /\ InUse(store'.runs) = InUse(disk) \cup ids
  <2> DEFINE new == store'.runs
  <2>1. new[r] = rec /\ \A q \in Runs \ {r} : new[q] = disk[q]
    BY <1>3, <1>6
  <2> HIDE DEF new
  <2>2. IdsOf(new[r]) = IdsOf(disk[r]) \cup ids
    BY <1>4, <2>1
  <2>3. Apart(new)
    BY <1>3, <1>4, <2>1, <2>2, RowsExcept
  <2>4. InUse(new) = InUse(disk) \cup ids
    BY <1>3, <1>4, <2>1, <2>2, RowsExcept
  <2> QED
    BY <2>3, <2>4 DEF new
<1>8. store' = Loaded(store'.runs)
  BY <1>4, <1>5, <1>6, <1>7 DEF Loaded
<1>9. txn' # NoTxn /\ txn'[2] = r /\ txn' \in Clients \X Runs
  BY <1>5, SentinelAssumption
<1>10. TypeOK'
  <2>1. [disk EXCEPT ![r] = rec] \in [Runs -> Record]
    BY <1>3
  <2>2. store' \in StoreType
    BY <1>6, <1>8, <2>1, LoadedType
  <2> QED
    BY <1>2, <1>5, <1>9, <2>2 DEF IInv, TypeOK, StoreType, Drafts
<1>11. Dirty'
  BY <1>1, <1>2, <1>3, <1>4, <1>5, <1>6, <1>7, <1>8, <1>9 DEF Dirty
<1>12. RowsFit' /\ Apart(disk)' /\ Quiet' /\ Clean' /\ Recovering'
  BY <1>2, <1>9 DEF IInv, RowsFit, Apart, Quiet, Clean, Recovering
<1> QED
  BY <1>2, <1>10, <1>11, <1>12 DEF IInv

(* A save that succeeds keeps the invariant: what is exposed is committed. *)
LEMMA SavedKeeps == IInv /\ Saved => IInv'
<1> SUFFICES ASSUME IInv, Saved PROVE IInv'
  OBVIOUS
<1> DEFINE r == txn[2]
           rec == store.runs[r]
<1>1. /\ txn # NoTxn /\ r \in Runs /\ disk \in [Runs -> Record]
      /\ store \in StoreType /\ mode = "up"
  BY DEF IInv, TypeOK, Saved, Quiet, StoreType
<1>2. /\ store = Loaded(store.runs) /\ store.runs = [disk EXCEPT ![r] = rec]
      /\ Accepted(disk[r], rec) /\ Apart(store.runs)
  BY <1>1 DEF IInv, Dirty
<1>3. /\ disk' = [disk EXCEPT ![r] = rec] /\ txn' = NoTxn /\ previous' = EmptyStore
      /\ UNCHANGED <<mode, store, clock, now, draft, interrupted>>
  BY DEF Saved
<1>4. RecordInv(rec) /\ rec \in Record /\ Extends(disk[r], rec)
  BY <1>2 DEF Accepted, RecordInv
<1> HIDE DEF r, rec
<1>5. disk' = store.runs
  BY <1>2, <1>3
<1>6. TypeOK'
  BY <1>1, <1>3, <1>4, EmptyStoreType DEF IInv, TypeOK, StoreType
<1>7. RowsFit'
  BY <1>1, <1>3, <1>4 DEF IInv, RowsFit
<1>8. Apart(disk)'
  BY <1>2, <1>5 DEF Apart
<1>9. Quiet' /\ Clean' /\ Dirty' /\ Recovering'
  BY <1>1, <1>2, <1>3, <1>5 DEF Quiet, Clean, Dirty, Recovering
<1>10. DraftsBacked'
  BY <1>1, <1>3, <1>4, DraftsSurvive
<1> QED
  BY <1>6, <1>7, <1>8, <1>9, <1>10 DEF IInv

(* A save that fails keeps the invariant: the clone is what is committed.  *)
LEMMA SaveFailedKeeps == IInv /\ SaveFailed => IInv'
<1> SUFFICES ASSUME IInv, SaveFailed PROVE IInv'
  OBVIOUS
<1>1. /\ txn # NoTxn /\ store' = previous /\ txn' = NoTxn /\ previous' = EmptyStore
      /\ UNCHANGED <<mode, disk, clock, now, draft, interrupted>>
  BY DEF SaveFailed
<1>2. previous = Loaded(disk)
  BY <1>1 DEF IInv, Dirty
<1>3. TypeOK'
  BY <1>1, EmptyStoreType DEF IInv, TypeOK, StoreType
<1>4. RowsFit' /\ Apart(disk)' /\ Quiet' /\ DraftsBacked' /\ Recovering'
  BY <1>1 DEF IInv, RowsFit, Apart, Quiet, DraftsBacked, Recovering
<1>5. Clean' /\ Dirty'
  BY <1>1, <1>2 DEF Clean, Dirty
<1> QED
  BY <1>3, <1>4, <1>5 DEF IInv

(* A crash keeps the invariant: the rows stay.                             *)
LEMMA CrashKeeps == IInv /\ Crash => IInv'
<1> SUFFICES ASSUME IInv, Crash PROVE IInv'
  OBVIOUS
<1>1. TypeOK'
  BY EmptyStoreType DEF IInv, TypeOK, Crash, StoreType
<1>2. RowsFit' /\ Apart(disk)'
  BY DEF IInv, Crash, RowsFit, Apart
<1>3. Quiet' /\ Clean' /\ Dirty' /\ DraftsBacked' /\ Recovering'
  BY DEF Crash, Quiet, Clean, Dirty, DraftsBacked, Recovering
<1> QED
  BY <1>1, <1>2, <1>3 DEF IInv

(* Opening the repository keeps the invariant: ids in use are those of the *)
(* rows.                                                                   *)
LEMMA OpenKeeps == IInv /\ Open => IInv'
<1> SUFFICES ASSUME IInv, Open PROVE IInv'
  OBVIOUS
<1>1. txn = NoTxn /\ disk \in [Runs -> Record]
  BY DEF IInv, Open, Quiet, TypeOK
<1>2. TypeOK'
  BY <1>1, LoadedType DEF IInv, TypeOK, Open, StoreType
<1>3. RowsFit' /\ Apart(disk)' /\ DraftsBacked'
  BY DEF IInv, Open, RowsFit, Apart, DraftsBacked
<1>4. Quiet' /\ Clean' /\ Dirty' /\ Recovering'
  BY <1>1 DEF Open, Quiet, Clean, Dirty, Recovering
<1> QED
  BY <1>2, <1>3, <1>4 DEF IInv

(* Recovery ends a run the way a call does, with an accepted mutation.     *)
LEMMA RecoverAccepted ==
  ASSUME IInv, NEW r \in Runs, RecoverRun(r)
  PROVE  LET rec == Ended(disk[r], "Failed", NoOutput, clock)
         IN  /\ Accepted(disk[r], rec) /\ IdsOf(rec) = IdsOf(disk[r])
             /\ disk' = [disk EXCEPT ![r] = rec]
             /\ store' = [store EXCEPT !.runs[r] = rec]
<1>1. /\ mode = "recovering" /\ txn = NoTxn /\ clock \in Nat
      /\ store = Loaded(disk) /\ disk \in [Runs -> Record]
  BY DEF RecoverRun, IInv, TypeOK, Quiet, Clean
<1>2. store.runs = disk
  BY <1>1, LoadedType
<1>3. RecordInv(disk[r]) /\ MayTransition(disk[r].status, "Failed") /\ "Failed" \in Endings
  BY <1>1 DEF RecoverRun, Recovering, IInv, RowsFit, MayTransition, Transitions, Endings
<1>4. LET rec == Ended(disk[r], "Failed", NoOutput, clock)
      IN  Accepted(disk[r], rec) /\ IdsOf(rec) = IdsOf(disk[r])
  BY <1>1, <1>3, EndAccepted
<1> QED
  BY <1>2, <1>4 DEF RecoverRun

(* The recovery of one run keeps the invariant.                            *)
LEMMA RecoverRunKeeps ==
  ASSUME IInv, NEW r \in Runs, RecoverRun(r)
  PROVE  IInv'
<1> DEFINE rec == Ended(disk[r], "Failed", NoOutput, clock)
<1>1. /\ Accepted(disk[r], rec) /\ IdsOf(rec) = IdsOf(disk[r])
      /\ disk' = [disk EXCEPT ![r] = rec] /\ store' = [store EXCEPT !.runs[r] = rec]
  BY RecoverAccepted
<1> HIDE DEF rec
<1>2. /\ mode = "recovering" /\ UNCHANGED <<mode, txn, previous, clock, now, draft>>
      /\ txn = NoTxn /\ store = Loaded(disk) /\ disk \in [Runs -> Record]
      /\ store \in StoreType /\ Apart(disk)
  BY DEF RecoverRun, IInv, TypeOK, Quiet, Clean, StoreType
<1>3. RecordInv(rec) /\ rec \in Record /\ Extends(disk[r], rec)
  BY <1>1 DEF Accepted, RecordInv
<1> DEFINE none == {}
<1>4. IdsOf(rec) = IdsOf(disk[r]) \cup none /\ none \cap InUse(disk) = {}
      /\ InUse(disk) \cup none = InUse(disk)
  BY <1>1
<1> HIDE DEF none
<1>5. disk' = [disk EXCEPT ![r] = rec] /\ none \in SUBSET Ids
  BY <1>1 DEF none
<1>6. Apart(disk') /\ InUse(disk') = InUse(disk) \cup none
  <2>1. disk'[r] = rec /\ \A q \in Runs \ {r} : disk'[q] = disk[q]
    BY <1>2, <1>5
  <2>2. IdsOf(disk'[r]) = IdsOf(disk[r]) \cup none
    BY <1>4, <2>1
  <2>3. Apart(disk')
    BY <1>2, <1>4, <2>1, <2>2, RowsExcept
  <2>4. InUse(disk') = InUse(disk) \cup none
    BY <1>2, <1>4, <2>1, <2>2, RowsExcept
  <2> QED
    BY <2>3, <2>4
<1>7. store' = [runs |-> disk', ids |-> InUse(disk)]
  BY <1>1, <1>2 DEF Loaded
<1>8. store' = Loaded(disk')
  BY <1>4, <1>6, <1>7 DEF Loaded
<1>9. TypeOK'
  <2>1. disk' \in [Runs -> Record]
    BY <1>1, <1>2, <1>3
  <2> QED
    BY <1>2, <1>8, <2>1, LoadedType DEF IInv, TypeOK, StoreType, RecoverRun
<1>10. RowsFit'
  BY <1>1, <1>2, <1>3 DEF IInv, RowsFit
<1>11. Apart(disk)' /\ Quiet' /\ Clean' /\ Dirty'
  BY <1>2, <1>6, <1>8 DEF Apart, Quiet, Clean, Dirty
<1>12. DraftsBacked'
  BY <1>1, <1>2, <1>3, DraftsSurvive
<1>13. Recovering'
  <2>1. rec.status = "Failed"
    <3>1. disk[r] \in Record /\ clock \in Nat /\ "Failed" \in Endings
      BY <1>2 DEF IInv, TypeOK, Endings
    <3> QED
      BY <3>1 DEF rec, Ended, Logged, Record
  <2>2. interrupted = {q \in Runs : disk[q].status = "Running"}
    BY <1>2 DEF IInv, Recovering
  <2>3. interrupted' = interrupted \ {r}
    BY DEF RecoverRun
  <2>4. \A q \in Runs : disk'[q].status = IF q = r THEN "Failed" ELSE disk[q].status
    BY <1>1, <1>2, <2>1
  <2>5. interrupted' = {q \in Runs : disk'[q].status = "Running"}
    BY <2>2, <2>3, <2>4
  <2> QED
    BY <2>5 DEF Recovering
<1> QED
  BY <1>9, <1>10, <1>11, <1>12, <1>13 DEF IInv

(* The end of the recovery keeps the invariant.                            *)
LEMMA FinishRecoveryKeeps == IInv /\ FinishRecovery => IInv'
<1> SUFFICES ASSUME IInv, FinishRecovery PROVE IInv'
  OBVIOUS
<1>1. TypeOK' /\ RowsFit' /\ Apart(disk)' /\ DraftsBacked'
  BY DEF IInv, FinishRecovery, TypeOK, RowsFit, Apart, DraftsBacked
<1>2. Quiet' /\ Clean' /\ Dirty' /\ Recovering'
  BY DEF IInv, FinishRecovery, Quiet, Clean, Dirty, Recovering
<1> QED
  BY <1>1, <1>2 DEF IInv

(* Time keeps the invariant.                                               *)
LEMMA TickKeeps == IInv /\ (Tick \/ UNCHANGED vars) => IInv'
<1> SUFFICES ASSUME IInv, Tick \/ UNCHANGED vars PROVE IInv'
  OBVIOUS
<1>1. /\ clock' \in Nat
      /\ UNCHANGED <<mode, store, disk, txn, previous, now, draft, interrupted>>
  BY DEF IInv, TypeOK, Tick, vars
<1>2. TypeOK' /\ RowsFit' /\ Apart(disk)' /\ DraftsBacked'
  BY <1>1 DEF IInv, TypeOK, RowsFit, Apart, DraftsBacked
<1>3. Quiet' /\ Clean' /\ Dirty' /\ Recovering'
  BY <1>1 DEF IInv, Quiet, Clean, Dirty, Recovering
<1> QED
  BY <1>2, <1>3 DEF IInv

(* Every step keeps the invariant.                                         *)
LEMMA StepInv == IInv /\ [Next]_vars => IInv'
<1> SUFFICES ASSUME IInv, [Next]_vars PROVE IInv'
  OBVIOUS
<1>1. ASSUME NEW c \in Clients, Call(c) PROVE IInv'
  BY <1>1, CallEffect, BookkeepingKeeps, MutationKeeps
<1> QED
  BY <1>1, SavedKeeps, SaveFailedKeeps, CrashKeeps, OpenKeeps, FinishRecoveryKeeps,
     TickKeeps, RecoverRunKeeps DEF Next

(* The inductive invariant holds in every reachable state.                 *)
THEOREM Invariance == Spec => []IInv
  BY InitInv, StepInv, PTL DEF Spec

-----------------------------------------------------------------------------
(* Safety.                                                                 *)

(* The variables of the service keep their types.                          *)
THEOREM TypeCorrect == Spec => []TypeOK
<1>1. IInv => TypeOK
  BY DEF IInv
<1> QED
  BY <1>1, Invariance, PTL

(* Nothing that is not committed can be read.                              *)
THEOREM Durability == Spec => []ExposedIsDurable
<1>1. IInv => ExposedIsDurable
  BY LoadedType DEF IInv, TypeOK, Clean, ExposedIsDurable
<1> QED
  BY <1>1, Invariance, PTL

(* No accepted mutation breaks a key of the tables.                        *)
THEOREM Storability == Spec => []AcceptedIsStorable
<1>1. IInv => AcceptedIsStorable
  <2> SUFFICES ASSUME IInv, txn # NoTxn
               PROVE  Storable(txn[2], store.runs[txn[2]])
    BY DEF AcceptedIsStorable
  <2> DEFINE r == txn[2]
             rec == store.runs[r]
  <2>1. r \in Runs /\ disk \in [Runs -> Record]
    BY DEF IInv, TypeOK
  <2>2. /\ store.runs = [disk EXCEPT ![r] = rec] /\ Apart(store.runs)
        /\ Accepted(disk[r], rec)
    BY DEF IInv, Dirty
  <2>3. \A q \in Runs \ {r} : store.runs[q] = disk[q]
    BY <2>1, <2>2
  <2>4. \A q \in Runs \ {r} : IdsOf(rec) \cap IdsOf(disk[q]) = {}
    BY <2>1, <2>2, <2>3 DEF Apart
  <2>5. \A e \in rec.evidence : e.source \in rec.results \cup rec.calls
    BY <2>2 DEF Accepted, RecordInv, Backed, SourceExists
  <2> QED
    BY <2>4, <2>5 DEF Storable
<1> QED
  BY <1>1, Invariance, PTL

(* The log of every run and its status tell one story.                     *)
THEOREM LogCorrect == Spec => []LogTellsStatus
<1>1. IInv => LogTellsStatus
  BY DEF IInv, RowsFit, RecordInv, LogTellsStatus
<1> QED
  BY <1>1, Invariance, PTL

(* Outputs cite evidence, and evidence rests on work, of the same run.     *)
THEOREM OutputCorrect == Spec => []OutputIsBacked
<1>1. IInv => OutputIsBacked
  BY DEF IInv, RowsFit, RecordInv, OutputIsBacked
<1> QED
  BY <1>1, Invariance, PTL

-----------------------------------------------------------------------------
(* Steps.                                                                  *)

(* The rows change by one accepted mutation at a time, or not at all.      *)
LEMMA RowStep ==
  ASSUME IInv, [Next]_vars
  PROVE  \/ UNCHANGED disk
         \/ \E r \in Runs, rec \in Record :
              Accepted(disk[r], rec) /\ disk' = [disk EXCEPT ![r] = rec]
<1>1. ASSUME NEW c \in Clients, Call(c)
      PROVE  UNCHANGED disk
  BY <1>1, CallEffect DEF Bookkeeping, Mutation
<1>2. ASSUME Saved
      PROVE  \E r \in Runs, rec \in Record :
               Accepted(disk[r], rec) /\ disk' = [disk EXCEPT ![r] = rec]
  <2>1. txn[2] \in Runs
    BY <1>2 DEF Saved, IInv, TypeOK
  <2>2. Accepted(disk[txn[2]], store.runs[txn[2]])
    BY <1>2 DEF Saved, IInv, Dirty
  <2>3. store.runs[txn[2]] \in Record
    BY <2>2 DEF Accepted, RecordInv
  <2> QED
    BY <1>2, <2>1, <2>2, <2>3 DEF Saved
<1>3. ASSUME NEW r \in Runs, RecoverRun(r)
      PROVE  \E rec \in Record :
               Accepted(disk[r], rec) /\ disk' = [disk EXCEPT ![r] = rec]
  <2> DEFINE rec == Ended(disk[r], "Failed", NoOutput, clock)
  <2>1. Accepted(disk[r], rec) /\ disk' = [disk EXCEPT ![r] = rec]
    BY <1>3, RecoverAccepted
  <2>2. rec \in Record
    BY <2>1 DEF Accepted, RecordInv
  <2> QED
    BY <2>1, <2>2
<1>4. ASSUME SaveFailed \/ Crash \/ Open \/ FinishRecovery \/ Tick \/ UNCHANGED vars
      PROVE  UNCHANGED disk
  BY <1>4 DEF SaveFailed, Crash, Open, FinishRecovery, Tick, vars
<1> QED
  BY <1>1, <1>2, <1>3, <1>4 DEF Next

(* A record that stays as it is extends itself.                            *)
LEMMA ExtendsItself ==
  ASSUME NEW rec \in Record
  PROVE  Extends(rec, rec)
<1>1. rec = [rec EXCEPT !.evaluated = rec.evaluated, !.events = rec.events]
  BY DEF Record
<1>2. Len(rec.events) \in Nat /\ rec.usage.steps \in Nat /\ rec.usage.duration \in Nat
  BY DEF Record, Usage
<1> QED
  BY <1>1, <1>2 DEF Extends, Monotonic

(* No step takes back what was committed.                                  *)
THEOREM HistoryGrows == Spec => HistoryOnlyGrows
<1>1. IInv /\ [Next]_vars => [\A r \in Runs : Extends(disk[r], disk'[r])]_vars
  <2> SUFFICES ASSUME IInv, [Next]_vars, NEW r \in Runs
               PROVE  Extends(disk[r], disk'[r])
    OBVIOUS
  <2>1. disk \in [Runs -> Record] /\ disk[r] \in Record
    BY DEF IInv, TypeOK
  <2>2. CASE UNCHANGED disk
    BY <2>1, <2>2, ExtendsItself
  <2>3. ASSUME NEW q \in Runs, NEW rec \in Record,
               Accepted(disk[q], rec), disk' = [disk EXCEPT ![q] = rec]
        PROVE  Extends(disk[r], disk'[r])
    BY <2>1, <2>3, ExtendsItself DEF Accepted
  <2> QED
    BY <2>2, <2>3, RowStep
<1> QED
  BY <1>1, Invariance, PTL DEF Spec, HistoryOnlyGrows

(* No call is served before every interrupted run has ended.               *)
THEOREM RecoveryFirst == Spec => RecoveredBeforeServing
<1>1. IInv /\ [Next]_vars =>
        [mode # "up" /\ mode' = "up" =>
           \A r \in Runs : disk'[r].status # "Running"]_vars
  <2> SUFFICES ASSUME IInv, [Next]_vars, mode # "up", mode' = "up", NEW r \in Runs
               PROVE  disk'[r].status # "Running"
    OBVIOUS
  <2>1. FinishRecovery
    <3>1. ~(\E c \in Clients : Call(c))
      BY CallEffect DEF Bookkeeping, Mutation
    <3> QED
      BY <3>1 DEF Next, Saved, SaveFailed, Crash, Open, Tick, RecoverRun, vars
  <2>2. interrupted = {q \in Runs : disk[q].status = "Running"} /\ interrupted = {}
    BY <2>1 DEF FinishRecovery, IInv, Recovering
  <2> QED
    BY <2>1, <2>2 DEF FinishRecovery
<1> QED
  BY <1>1, Invariance, PTL DEF Spec, RecoveredBeforeServing

-----------------------------------------------------------------------------
(* The service implements the ledger.                                      *)

(* The initial state of the service is one of the ledger.                  *)
LEMMA LedgerInit == Init => Ledger!Init
<1>1. \A r \in Runs : Init => /\ disk[r].status = "Absent" /\ disk[r].usage.steps = 0
                             /\ EvidenceOf(disk[r]) = {} /\ disk[r].output = NoOutput
                             /\ disk[r].evaluated = FALSE
  BY DEF Init, Missing, EvidenceOf
<1> QED
  BY <1>1 DEF Ledger!Init

(* A row replaced by an accepted mutation of it is a step of the ledger.   *)
LEMMA LedgerStepOf ==
  ASSUME IInv, NEW r \in Runs, NEW rec \in Record, Accepted(disk[r], rec),
         disk' = [disk EXCEPT ![r] = rec]
  PROVE  Ledger!Step(r)
<1> DEFINE old == disk[r]
<1>1. disk \in [Runs -> Record] /\ LedgerStep(old, rec)
  BY DEF IInv, TypeOK, Accepted
<1>2. disk'[r] = rec /\ \A q \in Runs \ {r} : disk'[q] = disk[q]
  BY <1>1
<1> HIDE DEF old
<1>3. [q \in Runs |-> disk'[q].status] =
        [[q \in Runs |-> disk[q].status] EXCEPT ![r] = rec.status]
  BY ONLY <1>2, r \in Runs
<1>4. [q \in Runs |-> disk'[q].usage.steps] =
        [[q \in Runs |-> disk[q].usage.steps] EXCEPT ![r] = rec.usage.steps]
  BY ONLY <1>2, r \in Runs
<1>5. [q \in Runs |-> EvidenceOf(disk'[q])] =
        [[q \in Runs |-> EvidenceOf(disk[q])] EXCEPT ![r] = EvidenceOf(rec)]
  BY ONLY <1>2, r \in Runs
<1>6. [q \in Runs |-> disk'[q].output] =
        [[q \in Runs |-> disk[q].output] EXCEPT ![r] = rec.output]
  BY ONLY <1>2, r \in Runs
<1>7. [q \in Runs |-> disk'[q].evaluated] =
        [[q \in Runs |-> disk[q].evaluated] EXCEPT ![r] = rec.evaluated]
  BY ONLY <1>2, r \in Runs
<1>8. rec.status = old.status =>
        [q \in Runs |-> disk'[q].status] = [q \in Runs |-> disk[q].status]
  BY <1>2 DEF old
<1>9. rec.usage.steps = old.usage.steps =>
        [q \in Runs |-> disk'[q].usage.steps] = [q \in Runs |-> disk[q].usage.steps]
  BY <1>2 DEF old
<1>10. EvidenceOf(rec) = EvidenceOf(old) =>
        [q \in Runs |-> EvidenceOf(disk'[q])] = [q \in Runs |-> EvidenceOf(disk[q])]
  BY <1>2 DEF old
<1>11. rec.output = old.output =>
        [q \in Runs |-> disk'[q].output] = [q \in Runs |-> disk[q].output]
  BY <1>2 DEF old
<1>12. rec.evaluated = old.evaluated =>
        [q \in Runs |-> disk'[q].evaluated] = [q \in Runs |-> disk[q].evaluated]
  BY <1>2 DEF old
<1>13. CASE /\ old.status = "Absent" /\ rec.status = "Created"
            /\ SameBut(old, rec, {"status"})
  <2>1. Ledger!Create(r)
    BY <1>3, <1>9, <1>10, <1>11, <1>12, <1>13 DEF Ledger!Create, SameBut, old
  <2> QED
    BY <2>1 DEF Ledger!Step
<1>14. CASE /\ old.status = "Created" /\ rec.status = "Running"
            /\ SameBut(old, rec, {"status"})
  <2>1. Ledger!Start(r)
    BY <1>3, <1>9, <1>10, <1>11, <1>12, <1>14 DEF Ledger!Start, SameBut, old
  <2> QED
    BY <2>1 DEF Ledger!Step
<1>15. CASE /\ old.status = "Running" /\ old.usage.steps <= rec.usage.steps
            /\ EvidenceOf(old) \subseteq EvidenceOf(rec)
            /\ SameBut(old, rec, {"work"})
  <2>1. Ledger!Work(r)
    BY <1>2, <1>4, <1>5, <1>8, <1>11, <1>12, <1>15 DEF Ledger!Work, SameBut, old
  <2> QED
    BY <2>1 DEF Ledger!Step
<1>16. CASE /\ <<old.status, rec.status>> \in Transitions
            /\ rec.status \in Endings
            /\ rec.status = "Completed" => rec.output # NoOutput
                                           /\ rec.output \subseteq EvidenceOf(old)
            /\ rec.status # "Completed" => rec.output = NoOutput
            /\ SameBut(old, rec, {"status", "output"})
  <2>1. /\ <<old.status, rec.status>> \in Ledger!Transitions
        /\ rec.status \in Ledger!Endings
    BY <1>16 DEF Ledger!Transitions, Ledger!Endings, Transitions, Endings
  <2>2. Ledger!Finish(r, rec.status)
    BY <1>2, <1>3, <1>6, <1>9, <1>10, <1>12, <1>16, <2>1 DEF Ledger!Finish, SameBut, old
  <2> QED
    BY <2>1, <2>2 DEF Ledger!Step
<1>17. CASE /\ old.status = "Completed" /\ ~old.evaluated /\ rec.evaluated
            /\ SameBut(old, rec, {"evaluated"})
  <2>1. rec.evaluated = TRUE
    BY <1>17 DEF Record
  <2>2. Ledger!Evaluate(r)
    BY <1>7, <1>8, <1>9, <1>10, <1>11, <1>17, <2>1 DEF Ledger!Evaluate, SameBut, old
  <2> QED
    BY <2>2 DEF Ledger!Step
<1> QED
  BY <1>1, <1>13, <1>14, <1>15, <1>16, <1>17 DEF LedgerStep

(* Every behaviour of the service is a behaviour of the ledger.            *)
THEOREM Refinement == Spec => ImplementsLedger
<1>1. IInv /\ [Next]_vars => [Ledger!Next]_Ledger!vars
  <2> SUFFICES ASSUME IInv, [Next]_vars
               PROVE  Ledger!Next \/ UNCHANGED Ledger!vars
    BY DEF Ledger!vars
  <2>1. CASE UNCHANGED disk
    BY <2>1 DEF Ledger!vars
  <2>2. ASSUME NEW r \in Runs, NEW rec \in Record,
               Accepted(disk[r], rec), disk' = [disk EXCEPT ![r] = rec]
        PROVE  Ledger!Next
    BY <2>2, LedgerStepOf DEF Ledger!Next
  <2> QED
    BY <2>1, <2>2, RowStep
<1> QED
  BY <1>1, LedgerInit, Invariance, PTL DEF Spec, ImplementsLedger, Ledger!Spec
=============================================================================
