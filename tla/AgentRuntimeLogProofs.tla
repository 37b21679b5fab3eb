------------------------- MODULE AgentRuntimeLogProofs -------------------------
(***************************************************************************)
(* Theorems about what the log of AgentRuntime adds up to: every tool that *)
(* was started has its result when the run is completed, and there are     *)
(* never more rejections in a row than are tolerated, and the limit on     *)
(* model calls is passed only by the calls that tools make themselves.     *)
(*                                                                         *)
(* All count events, while the code counts in the local variables of one  *)
(* execution. They agree because only one execution drives the run, which  *)
(* AgentRuntimeProofs shows: nobody else logs an action, a rejection or a  *)
(* result, or adds to the usage or to what was sent, while it is between   *)
(* two of its calls.                                                       *)
(***************************************************************************)
EXTENDS AgentRuntimeProofs, FiniteSetTheorems, SequenceTheorems

-----------------------------------------------------------------------------
(* Logs.                                                                   *)

(* The kinds of the events logged.                                         *)
Kinds(events) == [i \in DOMAIN events |-> events[i].kind]

Seen == Kinds(log)

Notes(kind) == Seen' = Append(Seen, kind)

(* Events that are no action, no rejection and about no tool.              *)
Quiet == EventKinds \ {"ActionReceived", "ActionRejected", "ToolStarted", "ToolCompleted"}

Quietly == log' = log \/ \E kind \in Quiet, step \in Nat : Logs(kind, step)

At(l, kinds) == {i \in DOMAIN l : l[i] \in kinds}

(* The rejections and results from i to j, and that all are rejections.    *)
Window(l, i, j) == {k \in At(l, {"ActionRejected", "ToolCompleted"}) : i <= k /\ k <= j}

Pure(l, i, j) == \A k \in Window(l, i, j) : l[k] = "ActionRejected"

(* The rejections after the latest result.                                 *)
Streak(l) ==
  {k \in At(l, {"ActionRejected"}) : \A t \in At(l, {"ToolCompleted"}) : t < k}

(* No streak has reached three.                                            *)
Calm(l) ==
  \A i, j \in At(l, {"ActionRejected"}) : Pure(l, i, j) => Cardinality(Window(l, i, j)) <= 2

Bounded(l) ==
  \A i, j \in At(l, {"ActionRejected"}) :
    Pure(l, i, j) => /\ Cardinality(Window(l, i, j)) <= 3
                     /\ Cardinality(Window(l, i, j)) = 3 =>
                          At(l, {"ActionReceived"}) \cap {k \in DOMAIN l : k > j} = {}

(* As many tools answered as were started, or one less.                    *)
Even(l) == Cardinality(At(l, {"ToolStarted"})) = Cardinality(At(l, {"ToolCompleted"}))

Owed(l) == Cardinality(At(l, {"ToolStarted"})) = Cardinality(At(l, {"ToolCompleted"})) + 1

(* The properties are about the kinds.                                     *)
LEMMA SeenPositions ==
  /\ DOMAIN Seen = DOMAIN log /\ \A i \in DOMAIN log : Seen[i] = log[i].kind
  /\ \A kinds : Positions(kinds) = At(Seen, kinds)
<1>1. DOMAIN Seen = DOMAIN log /\ \A i \in DOMAIN log : Seen[i] = log[i].kind
  BY DEF Seen, Kinds
<1> QED
  BY <1>1 DEF Positions, At

LEMMA BoundedMeans == StreakBounded <=> Bounded(Seen)
<1>1. \A i, j, k : k \in Window(Seen, i, j) => Seen[k] = log[k].kind
  BY SeenPositions DEF Window, At
<1> QED
  BY <1>1, SeenPositions
     DEF StreakBounded, Bounded, Window, Pure, MAX_CONSECUTIVE_MODEL_REJECTIONS

(* The kinds are a sequence, which an event extends by its own.            *)
LEMMA KindsAreSeq ==
  ASSUME NEW events \in Seq(Event)
  PROVE  Kinds(events) \in Seq(EventKinds) /\ Len(Kinds(events)) = Len(events)
<1> DEFINE n == Len(events)
<1>1. n \in Nat /\ DOMAIN events = 1 .. n /\ \A i \in 1 .. n : events[i] \in Event
  OBVIOUS
<1> HIDE DEF n
<1>2. \A i \in 1 .. n : events[i].kind \in EventKinds
  BY <1>1 DEF Event
<1>3. Kinds(events) \in [1 .. n -> EventKinds]
  BY <1>1, <1>2 DEF Kinds
<1>4. Kinds(events) \in Seq(EventKinds)
  BY <1>1, <1>3, SeqDef
<1>5. Len(Kinds(events)) = n
  BY <1>1, <1>3, <1>4
<1> QED
  BY <1>4, <1>5 DEF n

LEMMA SeenFacts ==
  ASSUME TypeOK
  PROVE  Seen \in Seq(EventKinds)
  BY KindsAreSeq DEF TypeOK, Seen

LEMMA Noted ==
  ASSUME TypeOK, NEW kind \in EventKinds, NEW step \in Nat, Logs(kind, step)
  PROVE  Notes(kind)
<1> DEFINE event == [kind |-> kind, step |-> step]
           n == Len(log)
<1>1. log \in Seq(Event) /\ event \in Event /\ event.kind = kind /\ log' = Append(log, event)
  BY DEF TypeOK, Event, Logs
<1> HIDE DEF event, n
<1>2. /\ n \in Nat /\ DOMAIN log = 1 .. n
      /\ log' \in Seq(Event) /\ Len(log') = n + 1 /\ DOMAIN log' = 1 .. n + 1
      /\ log'[n + 1] = event /\ \A i \in 1 .. n : log'[i] = log[i]
  BY <1>1 DEF n
<1>3. /\ Seen \in Seq(EventKinds) /\ Len(Seen) = n
      /\ Seen' \in Seq(EventKinds) /\ Len(Seen') = n + 1
  BY <1>1, <1>2, KindsAreSeq DEF Seen, n
<1>4. /\ \A i \in 1 .. n + 1 : Seen'[i] = log'[i].kind
      /\ \A i \in 1 .. n : Seen[i] = log[i].kind
  BY <1>2 DEF Seen, Kinds
<1> HIDE DEF Seen
<1>5. /\ Append(Seen, kind) \in Seq(EventKinds) /\ Len(Append(Seen, kind)) = n + 1
      /\ Append(Seen, kind)[n + 1] = kind
      /\ \A i \in 1 .. n : Append(Seen, kind)[i] = Seen[i]
  BY <1>2, <1>3
<1>6. \A i \in 1 .. n + 1 : Seen'[i] = Append(Seen, kind)[i]
  <2>1. ASSUME NEW i \in 1 .. n PROVE Seen'[i] = Append(Seen, kind)[i]
    <3>1. i \in 1 .. n + 1
      BY <1>2
    <3> QED
      BY <1>2, <1>4, <1>5, <3>1
  <2>2. Seen'[n + 1] = kind
    BY <1>1, <1>2, <1>4
  <2> QED
    BY <1>2, <1>5, <2>1, <2>2
<1>7. Seen' = Append(Seen, kind)
  BY <1>2, <1>3, <1>5, <1>6, SeqEqual
<1> QED
  BY <1>7 DEF Notes

LEMMA NotedBy ==
  ASSUME IInv, NEW e \in Executors, NEW kind \in EventKinds,
         Logs(kind, local[e].step) \/ Logs(kind, run.steps)
  PROVE  Notes(kind)
<1>1. TypeOK
  BY DEF IInv
<1> QED
  BY <1>1, LocalFields, RunFields, Noted

(* What is where when an event is logged.                                  *)
LEMMA AppendAt ==
  ASSUME NEW l \in Seq(EventKinds), NEW event \in EventKinds
  PROVE  LET n == Len(l) + 1
         IN  /\ n \in Nat /\ DOMAIN l = 1 .. n - 1 /\ DOMAIN Append(l, event) = 1 .. n
             /\ Append(l, event)[n] = event
             /\ \A i \in 1 .. n - 1 : Append(l, event)[i] = l[i]
             /\ \A kinds : /\ At(Append(l, event), kinds) =
                                IF event \in kinds THEN At(l, kinds) \cup {n} ELSE At(l, kinds)
                           /\ At(l, kinds) \in SUBSET (1 .. n - 1)
<1> DEFINE n == Len(l) + 1
<1>1. /\ n \in Nat /\ DOMAIN l = 1 .. n - 1 /\ DOMAIN Append(l, event) = 1 .. n
      /\ Append(l, event)[n] = event
      /\ \A i \in 1 .. n - 1 : Append(l, event)[i] = l[i]
  <2>1. Append(l, event) \in Seq(EventKinds) /\ Len(Append(l, event)) = Len(l) + 1
    OBVIOUS
  <2> QED
    BY <2>1
<1> HIDE DEF n
<1>2. ASSUME NEW kinds
      PROVE  /\ At(Append(l, event), kinds) =
                  IF event \in kinds THEN At(l, kinds) \cup {n} ELSE At(l, kinds)
             /\ At(l, kinds) \in SUBSET (1 .. n - 1)
  BY <1>1 DEF At
<1> QED
  BY <1>1, <1>2 DEF n

(* Sets of positions are finite.                                           *)
LEMMA AtFinite ==
  ASSUME NEW l \in Seq(EventKinds), NEW kinds
  PROVE  IsFiniteSet(At(l, kinds)) /\ Cardinality(At(l, kinds)) \in Nat
         /\ \A T \in SUBSET At(l, kinds) : IsFiniteSet(T) /\ Cardinality(T) \in Nat
<1>1. Len(l) \in Nat /\ DOMAIN l = 1 .. Len(l)
  OBVIOUS
<1>2. IsFiniteSet(1 .. Len(l))
  <2>1. 1 \in Int /\ Len(l) \in Int
    BY <1>1
  <2> QED
    BY <2>1, FS_Interval
<1>3. At(l, kinds) \in SUBSET (1 .. Len(l))
  BY <1>1 DEF At
<1>4. IsFiniteSet(At(l, kinds))
  BY <1>2, <1>3, FS_Subset
<1> QED
  BY <1>4, FS_Subset, FS_CardinalityType

(* An event that starts no tool and is no result leaves both counts alone. *)
LEMMA CountsKept ==
  ASSUME NEW l \in Seq(EventKinds), NEW event \in EventKinds \ {"ToolStarted", "ToolCompleted"}
  PROVE  (Even(Append(l, event)) <=> Even(l)) /\ (Owed(Append(l, event)) <=> Owed(l))
<1>1. /\ At(Append(l, event), {"ToolStarted"}) = At(l, {"ToolStarted"})
      /\ At(Append(l, event), {"ToolCompleted"}) = At(l, {"ToolCompleted"})
  BY AppendAt
<1> QED
  BY <1>1 DEF Even, Owed

(* A started tool is owed until its result is logged.                      *)
LEMMA CountsChange ==
  ASSUME NEW l \in Seq(EventKinds)
  PROVE  /\ Even(l) => Owed(Append(l, "ToolStarted"))
         /\ Owed(l) => Even(Append(l, "ToolCompleted"))
<1> DEFINE n == Len(l) + 1
<1>1. "ToolStarted" \in EventKinds /\ "ToolCompleted" \in EventKinds
  BY DEF EventKinds
<1>2. /\ At(Append(l, "ToolStarted"), {"ToolStarted"}) = At(l, {"ToolStarted"}) \cup {n}
      /\ At(Append(l, "ToolStarted"), {"ToolCompleted"}) = At(l, {"ToolCompleted"})
      /\ At(Append(l, "ToolCompleted"), {"ToolCompleted"}) = At(l, {"ToolCompleted"}) \cup {n}
      /\ At(Append(l, "ToolCompleted"), {"ToolStarted"}) = At(l, {"ToolStarted"})
  BY <1>1, AppendAt
<1>3. \A kinds : n \notin At(l, kinds)
  <2>1. n \in Nat /\ \A kinds : At(l, kinds) \in SUBSET (1 .. n - 1)
    BY <1>1, AppendAt
  <2> HIDE DEF n
  <2> QED
    BY <2>1
<1> HIDE DEF n
<1>4. \A kinds : Cardinality(At(l, kinds) \cup {n}) = Cardinality(At(l, kinds)) + 1
  BY <1>3, AtFinite, FS_AddElement
<1> QED
  BY <1>2, <1>4 DEF Even, Owed

(* Windows that end before the new event are as they were.                 *)
LEMMA WindowKept ==
  ASSUME NEW l \in Seq(EventKinds), NEW event \in EventKinds,
         NEW i \in 1 .. Len(l), NEW j \in 1 .. Len(l)
  PROVE  /\ Window(Append(l, event), i, j) = Window(l, i, j)
         /\ Pure(Append(l, event), i, j) <=> Pure(l, i, j)
<1> DEFINE n == Len(l) + 1
           l2 == Append(l, event)
           Two == {"ActionRejected", "ToolCompleted"}
<1>1. /\ n \in Nat /\ i \in 1 .. n - 1 /\ j \in 1 .. n - 1
      /\ \A k \in 1 .. n - 1 : l2[k] = l[k]
  BY AppendAt
<1>2. /\ At(l2, Two) = IF event \in Two THEN At(l, Two) \cup {n} ELSE At(l, Two)
      /\ At(l, Two) \in SUBSET (1 .. n - 1)
  <2> HIDE DEF Two
  <2> QED
    BY AppendAt
<1> HIDE DEF n, l2, Two
<1>3. {k \in At(l2, Two) : i <= k /\ k <= j} = {k \in At(l, Two) : i <= k /\ k <= j}
  BY <1>1, <1>2
<1>4. Window(l2, i, j) = Window(l, i, j)
  BY <1>3 DEF Window, Two
<1>5. Window(l, i, j) \in SUBSET (1 .. n - 1)
  BY <1>2 DEF Window, Two
<1>6. Pure(l2, i, j) <=> Pure(l, i, j)
  BY <1>1, <1>4, <1>5 DEF Pure
<1> QED
  BY <1>4, <1>6 DEF l2

(* What is neither a rejection nor a result leaves streaks alone.          *)
LEMMA StreaksKept ==
  ASSUME NEW l \in Seq(EventKinds), NEW event \in EventKinds \ {"ActionRejected", "ToolCompleted"}
  PROVE  /\ At(Append(l, event), {"ActionRejected"}) = At(l, {"ActionRejected"})
         /\ Streak(Append(l, event)) = Streak(l)
         /\ Calm(Append(l, event)) <=> Calm(l)
<1>1. /\ At(Append(l, event), {"ActionRejected"}) = At(l, {"ActionRejected"})
      /\ At(Append(l, event), {"ToolCompleted"}) = At(l, {"ToolCompleted"})
      /\ At(l, {"ActionRejected"}) \in SUBSET (1 .. Len(l))
  BY AppendAt
<1> QED
  BY <1>1, WindowKept DEF Streak, Calm

(* An action that is received while no streak has reached three, or any    *)
(* other event of this sort, keeps the bound.                              *)
LEMMA BoundKept ==
  ASSUME NEW l \in Seq(EventKinds), NEW event \in EventKinds \ {"ActionRejected", "ToolCompleted"},
         Bounded(l), event = "ActionReceived" => Calm(l)
  PROVE  Bounded(Append(l, event))
<1> DEFINE n == Len(l) + 1
           l2 == Append(l, event)
<1>1. /\ n \in Nat /\ DOMAIN l = 1 .. n - 1 /\ DOMAIN l2 = 1 .. n
      /\ At(l2, {"ActionRejected"}) = At(l, {"ActionRejected"})
      /\ At(l, {"ActionRejected"}) \in SUBSET (1 .. n - 1)
      /\ event # "ActionReceived" => At(l2, {"ActionReceived"}) = At(l, {"ActionReceived"})
      /\ At(l, {"ActionReceived"}) \in SUBSET (1 .. n - 1)
  BY AppendAt
<1>2. \A i, j \in 1 .. n - 1 : /\ Window(l2, i, j) = Window(l, i, j)
                               /\ Pure(l2, i, j) <=> Pure(l, i, j)
  BY WindowKept
<1> HIDE DEF n, l2
<1>3. ASSUME NEW i \in At(l, {"ActionRejected"}), NEW j \in At(l, {"ActionRejected"}), Pure(l, i, j)
      PROVE  /\ Cardinality(Window(l, i, j)) <= 3
             /\ Cardinality(Window(l, i, j)) = 3 =>
                  At(l2, {"ActionReceived"}) \cap {k \in DOMAIN l2 : k > j} = {}
  <2>1. CASE event = "ActionReceived"
    <3>1. Cardinality(Window(l, i, j)) <= 2
      BY <1>3, <2>1 DEF Calm
    <3>2. Cardinality(Window(l, i, j)) \in Nat
      BY AtFinite DEF Window
    <3> QED
      BY <3>1, <3>2
  <2>2. CASE event # "ActionReceived"
    <3>1. At(l, {"ActionReceived"}) \cap {k \in DOMAIN l2 : k > j}
            = At(l, {"ActionReceived"}) \cap {k \in DOMAIN l : k > j}
      BY <1>1
    <3> QED
      BY <1>1, <1>3, <2>2, <3>1 DEF Bounded
  <2> QED
    BY <2>1, <2>2
<1> QED
  BY <1>1, <1>2, <1>3 DEF Bounded, l2

(* A result ends the streak.                                               *)
LEMMA ResultEndsStreak ==
  ASSUME NEW l \in Seq(EventKinds)
  PROVE  /\ At(Append(l, "ToolCompleted"), {"ActionRejected"}) = At(l, {"ActionRejected"})
         /\ Streak(Append(l, "ToolCompleted")) = {}
         /\ Calm(l) => Calm(Append(l, "ToolCompleted"))
         /\ Bounded(l) => Bounded(Append(l, "ToolCompleted"))
<1> DEFINE n == Len(l) + 1
           l2 == Append(l, "ToolCompleted")
<1>1. /\ n \in Nat /\ DOMAIN l = 1 .. n - 1 /\ DOMAIN l2 = 1 .. n
      /\ At(l2, {"ActionRejected"}) = At(l, {"ActionRejected"})
      /\ At(l2, {"ActionReceived"}) = At(l, {"ActionReceived"})
      /\ At(l2, {"ToolCompleted"}) = At(l, {"ToolCompleted"}) \cup {n}
      /\ At(l, {"ActionRejected"}) \in SUBSET (1 .. n - 1)
      /\ At(l, {"ActionReceived"}) \in SUBSET (1 .. n - 1)
  BY AppendAt DEF EventKinds
<1>2. \A i, j \in 1 .. n - 1 : /\ Window(l2, i, j) = Window(l, i, j)
                               /\ Pure(l2, i, j) <=> Pure(l, i, j)
  BY WindowKept DEF EventKinds
<1> HIDE DEF n, l2
<1>3. Streak(l2) = {}
  <2>1. n \in At(l2, {"ToolCompleted"}) /\ \A k \in At(l2, {"ActionRejected"}) : ~(n < k)
    BY <1>1
  <2> QED
    BY <2>1 DEF Streak
<1>4. Calm(l) => Calm(l2)
  BY <1>1, <1>2 DEF Calm
<1>5. \A j : At(l, {"ActionReceived"}) \cap {k \in DOMAIN l2 : k > j}
               = At(l, {"ActionReceived"}) \cap {k \in DOMAIN l : k > j}
  BY <1>1
<1>6. Bounded(l) => Bounded(l2)
  BY <1>1, <1>2, <1>5 DEF Bounded
<1> QED
  BY <1>1, <1>3, <1>4, <1>6 DEF l2

(* A rejection adds one to the streak, and no other becomes longer.        *)
LEMMA RejectionExtends ==
  ASSUME NEW l \in Seq(EventKinds), NEW limit \in {2, 3}, Calm(l), Bounded(l),
         Cardinality(Streak(l)) + 1 <= limit
  PROVE  /\ Cardinality(Streak(Append(l, "ActionRejected"))) <= Cardinality(Streak(l)) + 1
         /\ limit = 2 => Calm(Append(l, "ActionRejected"))
         /\ Bounded(Append(l, "ActionRejected"))
<1> DEFINE n == Len(l) + 1
           l2 == Append(l, "ActionRejected")
           Both == {"ActionRejected", "ToolCompleted"}
<1>1. /\ n \in Nat /\ DOMAIN l = 1 .. n - 1 /\ DOMAIN l2 = 1 .. n /\ l2[n] = "ActionRejected"
      /\ \A k \in 1 .. n - 1 : l2[k] = l[k]
      /\ At(l2, {"ActionRejected"}) = At(l, {"ActionRejected"}) \cup {n}
      /\ At(l2, Both) = At(l, Both) \cup {n}
      /\ At(l2, {"ActionReceived"}) = At(l, {"ActionReceived"})
      /\ At(l2, {"ToolCompleted"}) = At(l, {"ToolCompleted"})
      /\ At(l, {"ActionRejected"}) \in SUBSET (1 .. n - 1)
      /\ At(l, {"ActionReceived"}) \in SUBSET (1 .. n - 1)
      /\ At(l, {"ToolCompleted"}) \in SUBSET (1 .. n - 1)
      /\ At(l, Both) \in SUBSET (1 .. n - 1)
  BY AppendAt DEF EventKinds
<1>2. \A i, j \in 1 .. n - 1 : /\ Window(l2, i, j) = Window(l, i, j)
                               /\ Pure(l2, i, j) <=> Pure(l, i, j)
  BY WindowKept DEF EventKinds
<1> HIDE DEF n, l2
<1>3. Streak(l) \in SUBSET At(l, {"ActionRejected"})
  BY DEF Streak
<1>4. IsFiniteSet(Streak(l)) /\ Cardinality(Streak(l)) \in Nat /\ n \notin Streak(l)
  BY <1>1, <1>3, AtFinite
<1>5. /\ IsFiniteSet(Streak(l) \cup {n})
      /\ Cardinality(Streak(l) \cup {n}) = Cardinality(Streak(l)) + 1
  BY <1>4, FS_AddElement
<1>6. \A T \in SUBSET (Streak(l) \cup {n}) :
        IsFiniteSet(T) /\ Cardinality(T) \in Nat /\ Cardinality(T) <= Cardinality(Streak(l)) + 1
  BY <1>5, FS_Subset, FS_CardinalityType
<1>7. Cardinality(Streak(l2)) <= Cardinality(Streak(l)) + 1
  <2>1. Streak(l2) \in SUBSET (Streak(l) \cup {n})
    BY <1>1 DEF Streak
  <2> QED
    BY <2>1, <1>6
<1>8. ASSUME NEW i \in At(l2, {"ActionRejected"}), NEW j \in At(l2, {"ActionRejected"}),
             Pure(l2, i, j), i = n \/ j = n
      PROVE  Cardinality(Window(l2, i, j)) <= limit
  <2>1. Window(l2, i, j) \in SUBSET (Streak(l) \cup {n})
    <3>1. SUFFICES ASSUME NEW k \in Window(l2, i, j), k # n
                   PROVE  k \in Streak(l)
      OBVIOUS
    <3>2. k \in At(l, Both) /\ i <= k /\ k <= j /\ l2[k] = "ActionRejected"
      BY <1>1, <1>8, <3>1 DEF Window, Pure, Both
    <3>3. k \in 1 .. n - 1 /\ l[k] = "ActionRejected" /\ k \in At(l, {"ActionRejected"})
      BY <1>1, <3>2 DEF At
    <3>4. j = n /\ i \in 1 .. n
      BY <1>1, <1>8, <3>2, <3>3
    <3>5. ASSUME NEW t \in At(l, {"ToolCompleted"}), ~(t < k)
          PROVE  FALSE
      <4>1. t \in 1 .. n - 1 /\ i <= t /\ t <= j /\ l[t] = "ToolCompleted"
        BY <1>1, <3>2, <3>3, <3>4, <3>5 DEF At
      <4>2. t \in At(l2, Both)
        BY <1>1, <4>1 DEF At, Both
      <4>3. t \in Window(l2, i, j)
        BY <4>1, <4>2 DEF Window, Both
      <4> QED
        BY <1>1, <1>8, <4>1, <4>3 DEF Pure
    <3> QED
      BY <3>3, <3>5 DEF Streak
  <2>2. Cardinality(Window(l2, i, j)) \in Nat
        /\ Cardinality(Window(l2, i, j)) <= Cardinality(Streak(l)) + 1
    BY <2>1, <1>6
  <2> QED
    BY <2>2, <1>4
<1>9. limit = 2 => Calm(l2)
  BY <1>1, <1>2, <1>8 DEF Calm
<1>10. \A j : j \in At(l2, {"ActionRejected"}) =>
         (j = n => At(l2, {"ActionReceived"}) \cap {k \in DOMAIN l2 : k > j} = {})
  BY <1>1
<1>11. \A j : At(l2, {"ActionReceived"}) \cap {k \in DOMAIN l2 : k > j}
               = At(l, {"ActionReceived"}) \cap {k \in DOMAIN l : k > j}
  BY <1>1
<1>12. ASSUME NEW i \in At(l2, {"ActionRejected"}), NEW j \in At(l2, {"ActionRejected"}),
              Pure(l2, i, j)
       PROVE  /\ Cardinality(Window(l2, i, j)) <= 3
              /\ Cardinality(Window(l2, i, j)) = 3 =>
                   At(l2, {"ActionReceived"}) \cap {k \in DOMAIN l2 : k > j} = {}
  <2>1. CASE j = n
    <3>1. Cardinality(Window(l2, i, j)) <= 3
      <4>1. Cardinality(Window(l2, i, j)) <= limit
        BY <1>8, <1>12, <2>1
      <4>2. Cardinality(Window(l2, i, j)) \in Nat
        <5>1. l2 \in Seq(EventKinds)
          BY DEF l2, EventKinds
        <5> QED
          BY <5>1, AtFinite DEF Window
      <4> QED
        BY <4>1, <4>2
    <3> QED
      BY <3>1, <1>10, <2>1
  <2>2. CASE j # n /\ i = n
    <3>1. Window(l2, i, j) = {}
      BY <1>1, <2>2 DEF Window, Both
    <3> QED
      BY <3>1, FS_EmptySet
  <2>3. CASE j # n /\ i # n
    BY <1>1, <1>2, <1>11, <1>12, <2>3 DEF Bounded
  <2> QED
    BY <2>1, <2>2, <2>3
<1>13. Bounded(l2)
  BY <1>12 DEF Bounded
<1> QED
  BY <1>7, <1>9, <1>13 DEF l2

-----------------------------------------------------------------------------
(* The invariant.                                                          *)

(* Where a driver is between the head of the loop and the result of a      *)
(* tool: its count of rejections goes on.                                  *)
Loop == {"head", "commit", "receive", "judge", "reject", "prepare", "prepare_again", "limited",
         "blocked", "announce", "execute", "store", "complete"}

(* Tools that send one request at most are charged for what they sent.     *)
Paid(requests, total) == MaxRequests <= 1 => requests = total

(* What an execution knows of the started tools and of their requests.     *)
Accounted(place, rec, l, requests, total) ==
  /\ place \in Driving \ {"execute", "store", "fail"} => Even(l) /\ Paid(requests, total)
  /\ place = "execute" => Owed(l) /\ Paid(requests, total)
  /\ place = "store" => Owed(l) /\ Paid(requests + rec.counted, total)

(* What its count of rejections says of the log.                           *)
Within(place, rec, l) ==
  /\ place \in Loop => Calm(l) /\ Cardinality(Streak(l)) <= rec.rejections
  /\ place \in {"seed", "record", "ingest"} => Calm(l) /\ Streak(l) = {}

(* Both, and what a run has that nobody drives yet or any more.            *)
LogInv ==
  /\ Bounded(Seen)
  /\ run.status \in {"Absent", "Created"} => At(Seen, {"ActionRejected"}) = {}
  /\ run.status \in {"Absent", "Created", "Completed"} => Even(Seen) /\ Paid(run.requests, sent)
  /\ \A e \in Executors : /\ Accounted(pc[e], local[e], Seen, run.requests, sent)
                          /\ Within(pc[e], local[e], Seen)

(* It is enough for the two bounds.                                        *)
LEMMA LogInvMeans == LogInv => ToolsAnswered /\ StreakBounded
  BY BoundedMeans, SeenPositions DEF LogInv, ToolsAnswered, Even, Paid

(* Nothing is claimed of an execution that does not drive the run, and     *)
(* little of one that is about to fail it.                                 *)
LEMMA NothingClaimed ==
  ASSUME NEW place, NEW rec, NEW l, NEW requests, NEW total, place \notin Driving \ {"fail"}
  PROVE  Accounted(place, rec, l, requests, total) /\ Within(place, rec, l)
<1>1. Loop \subseteq Driving \ {"fail"} /\ {"seed", "record", "ingest"} \subseteq Driving \ {"fail"}
      /\ {"execute", "store"} \subseteq Driving \ {"fail"}
  BY DEF Loop, Driving
<1> HIDE DEF Driving, Loop
<1> QED
  BY <1>1 DEF Accounted, Within

(* It holds of an empty log.                                               *)
LEMMA LogInit == Init => LogInv
<1> SUFFICES ASSUME Init PROVE LogInv
  OBVIOUS
<1>1. \A kinds : At(Seen, kinds) = {}
  BY DEF Init, At, Seen, Kinds
<1>2. Bounded(Seen) /\ Even(Seen)
  BY <1>1 DEF Bounded, Even
<1>3. run.requests = 0 /\ sent = 0
  BY DEF Init
<1>4. \A e \in Executors : pc[e] \notin Driving
  BY DEF Init, Driving
<1> QED
  BY <1>1, <1>2, <1>3, <1>4, NothingClaimed DEF LogInv, Paid

-----------------------------------------------------------------------------
(* Steps.                                                                  *)

(* The quiet kinds.                                                        *)
LEMMA QuietFacts ==
  /\ Quiet \subseteq EventKinds
  /\ {"RunCreated", "RunStarted", "EvidenceRecorded", "EvaluationCompleted"} \subseteq Quiet
  /\ \A ending \in Endings : EndEvent[ending] \in Quiet
  BY KindsFacts DEF Quiet, Endings, EndEvent

(* A quiet step leaves alone whatever is claimed of the log.               *)
LEMMA QuietClaims ==
  ASSUME TypeOK, Quietly
  PROVE  /\ At(Seen', {"ActionRejected"}) = At(Seen, {"ActionRejected"})
         /\ Even(Seen) <=> Even(Seen')
         /\ Bounded(Seen) => Bounded(Seen')
         /\ \A place, rec, requests, total :
              /\ Accounted(place, rec, Seen, requests, total)
                   => Accounted(place, rec, Seen', requests, total)
              /\ Within(place, rec, Seen) => Within(place, rec, Seen')
<1>1. CASE log' = log
  <2>1. Seen' = Seen
    BY <1>1 DEF Seen
  <2> QED
    BY <2>1
<1>2. ASSUME NEW kind \in Quiet, NEW step \in Nat, Logs(kind, step)
      PROVE  /\ At(Seen', {"ActionRejected"}) = At(Seen, {"ActionRejected"})
             /\ (Even(Seen) <=> Even(Seen')) /\ (Owed(Seen) <=> Owed(Seen'))
             /\ Bounded(Seen) => Bounded(Seen')
             /\ Streak(Seen') = Streak(Seen) /\ (Calm(Seen') <=> Calm(Seen))
  <2>1. /\ kind \in EventKinds \ {"ToolStarted", "ToolCompleted"}
        /\ kind \in EventKinds \ {"ActionRejected", "ToolCompleted"}
        /\ kind # "ActionReceived"
    BY DEF Quiet
  <2>2. Seen \in Seq(EventKinds) /\ Seen' = Append(Seen, kind)
    BY <1>2, <2>1, SeenFacts, Noted DEF Notes
  <2> QED
    BY <2>1, <2>2, CountsKept, BoundKept, StreaksKept
<1> QED
  BY <1>1, <1>2 DEF Quietly, Accounted, Within

LEMMA FinishesQuietly ==
  ASSUME IInv, NEW ending \in Endings, Finishes(ending)
  PROVE  Quietly
<1>1. TypeOK
  BY DEF IInv
<1> QED
  BY <1>1, QuietFacts, RunFields DEF Finishes, Quietly

(* A step of one execution that sends nothing and logs nothing of interest.*)
LEMMA QuietStep ==
  ASSUME IInv, LogInv, NEW e \in Executors, NEW place, Goto(e, place),
         Quietly, sent' = sent, run'.requests = run.requests,
         \A f \in Executors \ {e} : local'[f] = local[f],
         run'.status \in {"Absent", "Created"} => run'.status = run.status,
         run'.status = "Completed" => Even(Seen) /\ Paid(run.requests, sent),
         Accounted(place, local'[e], Seen, run.requests, sent), Within(place, local'[e], Seen)
  PROVE  LogInv'
<1>1. pc'[e] = place /\ \A f \in Executors \ {e} : pc'[f] = pc[f]
  BY DEF Goto, IInv, TypeOK
<1>2. \A f \in Executors : /\ Accounted(pc'[f], local'[f], Seen, run.requests, sent)
                           /\ Within(pc'[f], local'[f], Seen)
  BY <1>1 DEF LogInv
<1>3. TypeOK
  BY DEF IInv
<1> QED
  BY <1>2, <1>3, QuietClaims DEF LogInv

(* A step of the execution that drives the run, or of one that starts it.  *)
LEMMA DriverStep ==
  ASSUME IInv, NEW e \in Executors, NEW place, Goto(e, place),
         Drives(e) \/ run.status = "Created",
         run'.status \notin {"Absent", "Created", "Completed"}, Bounded(Seen'),
         Accounted(place, local'[e], Seen', run'.requests, sent'), Within(place, local'[e], Seen')
  PROVE  LogInv'
<1>1. pc'[e] = place /\ \A f \in Executors \ {e} : pc'[f] = pc[f]
  BY DEF Goto, IInv, TypeOK
<1>2. \A f \in Executors \ {e} : pc'[f] \notin Driving
  BY <1>1 DEF IInv, OneDriver, Started, Begun, Drives
<1>3. \A f \in Executors : /\ Accounted(pc'[f], local'[f], Seen', run'.requests, sent')
                           /\ Within(pc'[f], local'[f], Seen')
  BY <1>1, <1>2, NothingClaimed
<1> QED
  BY <1>3 DEF LogInv

(* A run that starts has no tool, no rejection and no request.             *)
LEMMA StartLogs ==
  ASSUME IInv, LogInv, run.status = "Created", Logs("RunStarted", run.steps), sent' = sent,
         run' = [run EXCEPT !.status = "Running"]
  PROVE  /\ run'.status = "Running" /\ run'.requests = run.requests
         /\ Bounded(Seen') /\ Calm(Seen') /\ Streak(Seen') = {}
         /\ Even(Seen') /\ Paid(run'.requests, sent')
<1>1. Seen \in Seq(EventKinds) /\ Seen' = Append(Seen, "RunStarted")
      /\ "RunStarted" \in EventKinds \ {"ActionRejected", "ToolCompleted", "ToolStarted"}
      /\ "RunStarted" # "ActionReceived"
  <2>1. "RunStarted" \in EventKinds /\ TypeOK
    BY DEF EventKinds, IInv
  <2> QED
    BY <2>1, SeenFacts, RunFields, Noted DEF Notes
<1>2. run'.status = "Running" /\ run'.requests = run.requests
  BY DEF IInv, TypeOK, Run
<1>3. At(Seen, {"ActionRejected"}) = {} /\ Even(Seen) /\ Paid(run.requests, sent) /\ Bounded(Seen)
  BY DEF LogInv
<1>4. Bounded(Seen')
  BY <1>1, <1>3, BoundKept
<1>5. At(Seen', {"ActionRejected"}) = {}
  BY <1>1, <1>3, StreaksKept
<1>6. Calm(Seen') /\ Streak(Seen') = {}
  BY <1>5 DEF Calm, Streak
<1>7. Even(Seen')
  BY <1>1, <1>3, CountsKept
<1> QED
  BY <1>2, <1>3, <1>4, <1>6, <1>7

(* The steps before the loop.                                              *)
LEMMA SetupLog ==
  ASSUME IInv, LogInv, NEW e \in Executors,
         \/ Execution(e) \/ Configure(e) \/ Misconfigured(e) \/ ConfStart(e) \/ ConfFail(e)
         \/ Check(e) \/ Start(e) \/ Seed(e)
  PROVE  LogInv'
<1>1. CASE Execution(e) \/ Configure(e) \/ Misconfigured(e) \/ Check(e)
  <2>1. PICK place \in {"configure", "check", "misconfigured", "conf_start", "start", "returned"} :
          Goto(e, place)
    BY <1>1 DEF Execution, Configure, Misconfigured, Check
  <2>2. OnlyMoves
    BY <1>1 DEF Execution, Configure, Misconfigured, Check
  <2>3. place \notin Driving
    BY <2>1 DEF Driving
  <2> QED
    BY <2>1, <2>2, <2>3, NothingClaimed, QuietStep DEF OnlyMoves, LogInv, Quietly
<1>2. CASE ConfStart(e)
  <2>1. "conf_fail" \notin Driving
    BY DEF Driving
  <2> QED
    BY <1>2, <2>1, StartLogs, NothingClaimed, DriverStep DEF ConfStart, Outside
<1>3. CASE ConfFail(e)
  <2>1. run'.status = "Failed" /\ run'.requests = run.requests
    BY <1>3 DEF ConfFail, Finishes, IInv, TypeOK, Run
  <2>2. "returned" \notin Driving
    BY DEF Driving
  <2>3. Quietly
    BY <1>3, FinishesQuietly DEF ConfFail, Endings
  <2> QED
    BY <1>3, <2>1, <2>2, <2>3, NothingClaimed, QuietStep DEF ConfFail, Outside
<1>4. CASE Start(e)
  <2>1. /\ run'.status = "Running" /\ Bounded(Seen') /\ Calm(Seen') /\ Streak(Seen') = {}
        /\ Even(Seen') /\ Paid(run'.requests, sent')
    BY <1>4, StartLogs DEF Start, Outside
  <2>2. Accounted("seed", local'[e], Seen', run'.requests, sent')
    BY <2>1 DEF Accounted
  <2>3. Within("seed", local'[e], Seen')
    BY <2>1 DEF Within, Loop
  <2> QED
    BY <1>4, <2>1, <2>2, <2>3, DriverStep DEF Start
<1>5. CASE Seed(e)
  <2>1. Calm(Seen) /\ Streak(Seen) = {} /\ Even(Seen) /\ Paid(run.requests, sent)
    BY <1>5 DEF Seed, LogInv, Within, Accounted, Driving
  <2>2. local'[e] = Fresh /\ \A f \in Executors \ {e} : local'[f] = local[f]
    BY <1>5 DEF Seed, IInv, TypeOK
  <2>3. Accounted("head", local'[e], Seen, run.requests, sent)
    BY <2>1 DEF Accounted
  <2>4. Within("head", local'[e], Seen)
    BY <2>1, <2>2, FS_EmptySet DEF Within, Fresh
  <2> QED
    BY <1>5, <2>1, <2>2, <2>3, <2>4, QuietStep DEF Seed, Outside, LogInv, Quietly
<1> QED
  BY <1>1, <1>2, <1>3, <1>4, <1>5

(* An event of a driver that is neither a rejection nor about a tool, and  *)
(* that no streak has come too far for.                                    *)
LEMMA OrdinaryEvent ==
  ASSUME IInv, LogInv, NEW e \in Executors,
         pc[e] \in Loop \ {"execute", "store"},
         NEW event \in {"ModelCalled", "ActionReceived", "RateLimited"},
         Notes(event)
  PROVE  /\ Drives(e) /\ Bounded(Seen') /\ Calm(Seen')
         /\ Cardinality(Streak(Seen')) <= local[e].rejections
         /\ Even(Seen') /\ Paid(run.requests, sent)
<1>1. pc[e] \in Driving \ {"execute", "store", "fail"}
  BY DEF Loop, Driving
<1>2. Seen \in Seq(EventKinds) /\ Seen' = Append(Seen, event)
      /\ event \in EventKinds \ {"ActionRejected", "ToolCompleted", "ToolStarted"}
  BY SeenFacts DEF IInv, Notes, EventKinds
<1>3. /\ Even(Seen) /\ Paid(run.requests, sent) /\ Bounded(Seen) /\ Calm(Seen)
      /\ Cardinality(Streak(Seen)) <= local[e].rejections
  BY <1>1 DEF LogInv, Accounted, Within
<1>4. Bounded(Seen')
  BY <1>2, <1>3, BoundKept
<1>5. Calm(Seen') /\ Streak(Seen') = Streak(Seen)
  BY <1>2, <1>3, StreaksKept
<1>6. Even(Seen')
  BY <1>2, <1>3, CountsKept
<1> QED
  BY <1>1, <1>3, <1>4, <1>5, <1>6 DEF Drives

(* A rejection that is counted, or that blocks the run.                    *)
LEMMA RejectionEvent ==
  ASSUME IInv, LogInv, NEW e \in Executors,
         pc[e] \in {"reject", "blocked"}, Notes("ActionRejected")
  PROVE  /\ Drives(e) /\ Bounded(Seen') /\ Even(Seen') /\ Paid(run.requests, sent)
         /\ local[e].rejections + 1 < MAX_CONSECUTIVE_MODEL_REJECTIONS =>
              Calm(Seen') /\ Cardinality(Streak(Seen')) <= local[e].rejections + 1
<1>1. pc[e] \in Driving \ {"execute", "store", "fail"} /\ pc[e] \in Loop /\ Drives(e)
  BY DEF Loop, Driving, Drives
<1>2. Seen \in Seq(EventKinds) /\ Seen' = Append(Seen, "ActionRejected")
      /\ "ActionRejected" \in EventKinds \ {"ToolCompleted", "ToolStarted"}
  BY SeenFacts DEF IInv, Notes, EventKinds
<1>3. /\ Even(Seen) /\ Paid(run.requests, sent) /\ Bounded(Seen) /\ Calm(Seen)
      /\ Cardinality(Streak(Seen)) <= local[e].rejections
  BY <1>1 DEF LogInv, Accounted, Within
<1>4. local[e].rejections \in 0 .. 2
  BY LocalFields DEF IInv, Tolerance, MAX_CONSECUTIVE_MODEL_REJECTIONS
<1>5. Cardinality(Streak(Seen)) \in Nat
  BY <1>2, AtFinite DEF Streak
<1>6. Even(Seen')
  BY <1>2, <1>3, CountsKept
<1> DEFINE c == Cardinality(Streak(Seen))
           d == Cardinality(Streak(Seen'))
<1>7. Bounded(Seen') /\ d <= c + 1
  <2>1. c + 1 <= 3
    BY <1>3, <1>4, <1>5
  <2> QED
    BY <1>2, <1>3, <2>1, RejectionExtends
<1>8. d \in Nat
  <2>1. Seen' \in Seq(EventKinds)
    BY <1>2
  <2> QED
    BY <2>1, AtFinite DEF Streak
<1>9. ASSUME local[e].rejections + 1 < MAX_CONSECUTIVE_MODEL_REJECTIONS
      PROVE  Calm(Seen') /\ d <= local[e].rejections + 1
  <2> HIDE DEF d
  <2>1. c + 1 <= 2 /\ d <= local[e].rejections + 1
    BY <1>3, <1>4, <1>5, <1>7, <1>8, <1>9 DEF MAX_CONSECUTIVE_MODEL_REJECTIONS
  <2>2. Calm(Seen')
    BY <1>2, <1>3, <2>1, RejectionExtends
  <2> QED
    BY <2>1, <2>2
<1> QED
  BY <1>1, <1>3, <1>6, <1>7, <1>9

(* The steps around an answer.                                             *)
LEMMA AnswerLog ==
  ASSUME IInv, LogInv, NEW e \in Executors,
         \/ AskNothing(e) \/ Ask(e) \/ Commit(e) \/ Receive(e) \/ Reject(e)
  PROVE  LogInv'
<1>1. CASE AskNothing(e) \/ Ask(e)
  <2>1. /\ pc[e] = "head" /\ Goto(e, "commit") /\ UNCHANGED <<run, log, sent>>
        /\ \E answer, k :
             local' = [local EXCEPT ![e] = [local[e] EXCEPT !.step = run.steps + 1,
                                                            !.answer = answer, !.spent = k]]
    BY <1>1 DEF AskNothing, Ask, Outside
  <2>2. /\ local'[e].rejections = local[e].rejections
        /\ \A f \in Executors \ {e} : local'[f] = local[f]
    <3>1. local \in [Executors -> Local] /\ local[e] \in Local
      BY DEF IInv, TypeOK
    <3> QED
      BY <2>1, <3>1 DEF Local
  <2>3. Accounted("commit", local'[e], Seen, run.requests, sent)
    BY <2>1 DEF LogInv, Accounted, Driving
  <2>4. Within("commit", local'[e], Seen)
    BY <2>1, <2>2 DEF LogInv, Within, Loop
  <2> QED
    BY <2>1, <2>2, <2>3, <2>4, QuietStep DEF LogInv, Quietly
<1>2. CASE Commit(e)
  <2>1. pc[e] = "commit" /\ run.status = "Running" /\ Logs("ModelCalled", local[e].step)
        /\ local' = local /\ sent' = sent
    BY <1>2 DEF Commit, Committed, Calls, Outside
  <2>2. run'.status = "Running" /\ run'.requests = run.requests
    BY <1>2, <2>1 DEF Commit, IInv, TypeOK, Run
  <2>3. /\ Drives(e) /\ Bounded(Seen') /\ Calm(Seen')
        /\ Cardinality(Streak(Seen')) <= local[e].rejections
        /\ Even(Seen') /\ Paid(run.requests, sent)
    BY <2>1, KindsFacts, NotedBy, OrdinaryEvent DEF Loop
  <2>4. PICK place \in {"fail", "receive"} : Goto(e, place)
    BY <1>2 DEF Commit
  <2>5. Accounted(place, local'[e], Seen', run'.requests, sent')
    BY <2>1, <2>2, <2>3 DEF Accounted
  <2>6. Within(place, local'[e], Seen')
    BY <2>1, <2>3 DEF Within
  <2> QED
    BY <2>2, <2>3, <2>4, <2>5, <2>6, DriverStep
<1>3. CASE Receive(e)
  <2>1. pc[e] = "receive" /\ run.status = "Running" /\ Logs("ActionReceived", local[e].step)
        /\ local' = local /\ sent' = sent /\ run' = run
    BY <1>3 DEF Receive, Records, Calls, Outside
  <2>2. /\ Drives(e) /\ Bounded(Seen') /\ Calm(Seen')
        /\ Cardinality(Streak(Seen')) <= local[e].rejections
        /\ Even(Seen') /\ Paid(run.requests, sent)
    BY <2>1, KindsFacts, NotedBy, OrdinaryEvent DEF Loop
  <2>3. PICK place \in {"prepare", "judge", "reject"} : Goto(e, place)
    BY <1>3 DEF Receive
  <2>4. Accounted(place, local'[e], Seen', run'.requests, sent')
    BY <2>1, <2>2 DEF Accounted
  <2>5. Within(place, local'[e], Seen')
    BY <2>1, <2>2 DEF Within
  <2> QED
    BY <2>1, <2>2, <2>3, <2>4, <2>5, DriverStep
<1>4. CASE Reject(e)
  <2>1. /\ pc[e] = "reject" /\ run.status = "Running" /\ Logs("ActionRejected", local[e].step)
        /\ sent' = sent /\ run' = run
    BY <1>4 DEF Reject, Records, Calls, Outside
  <2>2. /\ Drives(e) /\ Bounded(Seen') /\ Even(Seen') /\ Paid(run.requests, sent)
        /\ local[e].rejections + 1 < MAX_CONSECUTIVE_MODEL_REJECTIONS =>
             Calm(Seen') /\ Cardinality(Streak(Seen')) <= local[e].rejections + 1
    BY <2>1, KindsFacts, NotedBy, RejectionEvent
  <2>3. local'[e].rejections = local[e].rejections + 1
    <3>1. local \in [Executors -> Local] /\ local[e] \in Local
      BY DEF IInv, TypeOK
    <3> QED
      BY <1>4, <3>1 DEF Reject, Local
  <2>4. CASE local[e].rejections + 1 < MAX_CONSECUTIVE_MODEL_REJECTIONS
    <3>1. Goto(e, "head")
      BY <1>4, <2>4 DEF Reject
    <3>2. Accounted("head", local'[e], Seen', run'.requests, sent')
      BY <2>1, <2>2 DEF Accounted
    <3>3. Within("head", local'[e], Seen')
      BY <2>2, <2>3, <2>4 DEF Within
    <3> QED
      BY <2>1, <2>2, <3>1, <3>2, <3>3, DriverStep
  <2>5. CASE ~(local[e].rejections + 1 < MAX_CONSECUTIVE_MODEL_REJECTIONS)
    <3>1. Goto(e, "fail")
      BY <1>4, <2>5 DEF Reject
    <3>2. /\ Accounted("fail", local'[e], Seen', run'.requests, sent')
          /\ Within("fail", local'[e], Seen')
      BY NothingClaimed
    <3> QED
      BY <2>1, <2>2, <3>1, <3>2, DriverStep
  <2> QED
    BY <2>4, <2>5
<1> QED
  BY <1>1, <1>2, <1>3, <1>4

(* A tool sends requests, and brings back how many to charge.              *)
LEMMA ExecuteLog ==
  ASSUME IInv, LogInv, NEW e \in Executors, Execute(e)
  PROVE  LogInv'
<1>1. pc[e] = "execute" /\ Drives(e) /\ UNCHANGED <<run, Seen>>
  BY DEF Execute, Drives, Driving, Seen
<1>2. /\ Owed(Seen) /\ Paid(run.requests, sent) /\ Bounded(Seen) /\ Calm(Seen)
      /\ Cardinality(Streak(Seen)) <= local[e].rejections
  BY <1>1 DEF LogInv, Accounted, Within, Loop
<1>3. run.status \notin {"Absent", "Created", "Completed"}
  <2>1. ~Even(Seen)
    <3>1. Seen \in Seq(EventKinds)
      BY SeenFacts DEF IInv
    <3>2. Cardinality(At(Seen, {"ToolCompleted"})) \in Nat
      BY <3>1, AtFinite
    <3> QED
      BY <1>2, <3>2 DEF Even, Owed
  <2> QED
    BY <2>1 DEF LogInv
<1>4. local \in [Executors -> Local] /\ local[e] \in Local
  BY DEF IInv, TypeOK
<1>5. PICK n \in 0 .. MaxRequests :
        /\ sent' = sent + n
        /\ \/ \E result \in Results : Brought(e, result, n, 0)
           \/ n = 1 /\ Brought(e, "success", n, 1)
           \/ Brought(e, "retryable", IF n > 0 THEN 1 ELSE 0, 0)
           \/ n = 0 /\ Goto(e, "fail") /\ UNCHANGED local
  BY DEF Execute
<1>6. ASSUME NEW result, NEW counted, NEW called, Brought(e, result, counted, called),
             MaxRequests <= 1 => counted = n
      PROVE  LogInv'
  <2>1. local'[e].counted = counted /\ local'[e].rejections = local[e].rejections
    BY <1>4, <1>6 DEF Brought, Local
  <2>2. Accounted("store", local'[e], Seen', run'.requests, sent')
    BY <1>1, <1>2, <1>5, <1>6, <2>1 DEF Accounted, Paid
  <2>3. Within("store", local'[e], Seen')
    BY <1>1, <1>2, <2>1 DEF Within
  <2>4. Goto(e, "store")
    BY <1>6 DEF Brought
  <2> QED
    BY <1>1, <1>2, <1>3, <2>2, <2>3, <2>4, DriverStep
<1>7. CASE \E result \in Results : Brought(e, result, n, 0)
  BY <1>6, <1>7
<1>8. CASE Brought(e, "success", n, 1)
  BY <1>6, <1>8
<1>9. CASE Brought(e, "retryable", IF n > 0 THEN 1 ELSE 0, 0)
  <2>1. MaxRequests <= 1 => (IF n > 0 THEN 1 ELSE 0) = n
    BY BudgetAssumption
  <2> QED
    BY <1>6, <1>9, <2>1
<1>10. CASE Goto(e, "fail")
  BY <1>1, <1>2, <1>3, <1>10, NothingClaimed, DriverStep
<1> QED
  BY <1>5, <1>7, <1>8, <1>9, <1>10

(* A tool is announced: one result is owed.                                *)
LEMMA AnnounceLog ==
  ASSUME IInv, LogInv, NEW e \in Executors, Announce(e)
  PROVE  LogInv'
<1>1. /\ pc[e] = "announce" /\ Drives(e) /\ run.status = "Running"
      /\ UNCHANGED <<run, local, sent>> /\ Goto(e, "execute")
  BY DEF Announce, Records, Calls, Outside, Drives, Driving
<1>2. Seen \in Seq(EventKinds) /\ Seen' = Append(Seen, "ToolStarted")
      /\ "ToolStarted" \in EventKinds \ {"ToolCompleted", "ActionRejected"}
  BY SeenFacts, NotedBy DEF IInv, Announce, Records, Notes, EventKinds
<1>3. /\ Even(Seen) /\ Paid(run.requests, sent) /\ Bounded(Seen) /\ Calm(Seen)
      /\ Cardinality(Streak(Seen)) <= local[e].rejections
  BY <1>1 DEF LogInv, Accounted, Within, Loop, Driving
<1>4. Owed(Seen')
  BY <1>2, <1>3, CountsChange
<1>5. Bounded(Seen') /\ Calm(Seen') /\ Streak(Seen') = Streak(Seen)
  BY <1>2, <1>3, BoundKept, StreaksKept
<1>6. Accounted("execute", local'[e], Seen', run'.requests, sent')
  BY <1>1, <1>3, <1>4 DEF Accounted
<1>7. Within("execute", local'[e], Seen')
  BY <1>1, <1>3, <1>5 DEF Within
<1> QED
  BY <1>1, <1>5, <1>6, <1>7, DriverStep

(* The result of a tool is committed: it ends the streak, and pays.        *)
LEMMA StoreLog ==
  ASSUME IInv, LogInv, NEW e \in Executors, Store(e)
  PROVE  LogInv'
<1>1. /\ pc[e] = "store" /\ Drives(e) /\ run.status = "Running"
      /\ UNCHANGED <<local, sent>> /\ Goto(e, "record")
  BY DEF Store, Calls, Outside, Drives, Driving
<1>2. run'.status = "Running" /\ run'.requests = run.requests + local[e].counted
  BY <1>1 DEF Store, IInv, TypeOK, Run
<1>3. Seen \in Seq(EventKinds) /\ Seen' = Append(Seen, "ToolCompleted")
  BY KindsFacts, SeenFacts, NotedBy DEF IInv, Store, Notes
<1>4. Owed(Seen) /\ Paid(run.requests + local[e].counted, sent) /\ Bounded(Seen) /\ Calm(Seen)
  BY <1>1 DEF LogInv, Accounted, Within, Loop
<1>5. Even(Seen')
  BY <1>3, <1>4, CountsChange
<1>6. Bounded(Seen') /\ Calm(Seen') /\ Streak(Seen') = {}
  BY <1>3, <1>4, ResultEndsStreak
<1>7. Accounted("record", local'[e], Seen', run'.requests, sent')
  BY <1>1, <1>2, <1>4, <1>5 DEF Accounted
<1>8. Within("record", local'[e], Seen')
  BY <1>6 DEF Within, Loop
<1> QED
  BY <1>1, <1>2, <1>6, <1>7, <1>8, DriverStep

(* The other steps around a tool.                                          *)
LEMMA ToolLog ==
  ASSUME IInv, LogInv, NEW e \in Executors,
         \/ Prepare(e) \/ Limited(e) \/ Blocked(e) \/ BlockScope(e)
         \/ Record(e) \/ RecordNothing(e) \/ Ingest(e)
  PROVE  LogInv'
<1>1. CASE Prepare(e)
  <2>1. PICK place \in {"announce", "reject", "blocked", "prepare_again", "limited"} :
          Goto(e, place)
    BY <1>1 DEF Prepare
  <2>2. pc[e] \in {"prepare", "prepare_again"} /\ OnlyMoves
    BY <1>1 DEF Prepare
  <2>3. Accounted(place, local'[e], Seen, run.requests, sent)
    BY <2>1, <2>2 DEF OnlyMoves, LogInv, Accounted, Driving
  <2>4. Within(place, local'[e], Seen)
    BY <2>1, <2>2 DEF OnlyMoves, LogInv, Within, Loop
  <2> QED
    BY <2>1, <2>2, <2>3, <2>4, QuietStep DEF OnlyMoves, LogInv, Quietly
<1>2. CASE Limited(e)
  <2>1. /\ pc[e] = "limited" /\ run.status = "Running" /\ Logs("RateLimited", local[e].step)
        /\ UNCHANGED <<run, local, sent>> /\ Goto(e, "head")
    BY <1>2 DEF Limited, Records, Calls, Outside
  <2>2. /\ Drives(e) /\ Bounded(Seen') /\ Calm(Seen')
        /\ Cardinality(Streak(Seen')) <= local[e].rejections
        /\ Even(Seen') /\ Paid(run.requests, sent)
    BY <2>1, KindsFacts, NotedBy, OrdinaryEvent DEF Loop
  <2>3. Accounted("head", local'[e], Seen', run'.requests, sent')
    BY <2>1, <2>2 DEF Accounted
  <2>4. Within("head", local'[e], Seen')
    BY <2>1, <2>2 DEF Within
  <2> QED
    BY <2>1, <2>2, <2>3, <2>4, DriverStep
<1>3. CASE Blocked(e)
  <2>1. /\ pc[e] = "blocked" /\ run.status = "Running" /\ Logs("ActionRejected", local[e].step)
        /\ UNCHANGED <<run, local, sent>> /\ Goto(e, "block")
    BY <1>3 DEF Blocked, Records, Calls, Outside
  <2>2. Drives(e) /\ Bounded(Seen') /\ Even(Seen') /\ Paid(run.requests, sent)
    BY <2>1, KindsFacts, NotedBy, RejectionEvent
  <2>3. Accounted("block", local'[e], Seen', run'.requests, sent')
    BY <2>1, <2>2 DEF Accounted
  <2>4. Within("block", local'[e], Seen')
    BY DEF Within, Loop
  <2> QED
    BY <2>1, <2>2, <2>3, <2>4, DriverStep
<1>4. CASE BlockScope(e)
  <2>1. run'.status = "ScopeBlocked" /\ run'.requests = run.requests
    BY <1>4 DEF BlockScope, Finishes, IInv, TypeOK, Run
  <2>2. "returned" \notin Driving
    BY DEF Driving
  <2>3. Quietly
    BY <1>4, FinishesQuietly DEF BlockScope, Endings
  <2> QED
    BY <1>4, <2>1, <2>2, <2>3, NothingClaimed, QuietStep DEF BlockScope, Outside
<1>5. CASE Record(e) \/ RecordNothing(e)
  <2>1. pc[e] = "record" /\ Goto(e, "ingest") /\ UNCHANGED <<local, sent>> /\ Quietly
    <3>1. local[e].step \in Nat
      BY LocalFields DEF IInv
    <3> QED
      BY <1>5, <3>1, QuietFacts
         DEF Record, RecordNothing, Calls, Outside, OnlyMoves, Quietly
  <2>2. run'.status = run.status /\ run'.requests = run.requests
    BY <1>5 DEF Record, RecordNothing, OnlyMoves, IInv, TypeOK, Run
  <2>3. Accounted("ingest", local'[e], Seen, run.requests, sent)
    BY <2>1 DEF LogInv, Accounted, Driving
  <2>4. Within("ingest", local'[e], Seen)
    BY <2>1 DEF LogInv, Within, Loop
  <2> QED
    BY <2>1, <2>2, <2>3, <2>4, QuietStep DEF LogInv, Quietly
<1>6. CASE Ingest(e)
  <2>1. pc[e] = "ingest" /\ UNCHANGED <<run, log, sent>>
    BY <1>6 DEF Ingest, Outside
  <2>2. CASE Goto(e, "fail") /\ UNCHANGED local
    BY <2>1, <2>2, NothingClaimed, QuietStep DEF LogInv, Quietly
  <2>3. CASE Goto(e, "head") /\ local' = [local EXCEPT ![e] = Fresh]
    <3>1. local'[e] = Fresh /\ \A f \in Executors \ {e} : local'[f] = local[f]
      BY <2>3 DEF IInv, TypeOK
    <3>2. Accounted("head", local'[e], Seen, run.requests, sent)
      BY <2>1 DEF LogInv, Accounted, Driving
    <3>3. Calm(Seen) /\ Streak(Seen) = {}
      BY <2>1 DEF LogInv, Within
    <3>4. Within("head", local'[e], Seen)
      BY <3>1, <3>3, FS_EmptySet DEF Within, Fresh
    <3> QED
      BY <2>1, <2>3, <3>1, <3>2, <3>4, QuietStep DEF LogInv, Quietly
  <2> QED
    BY <1>6, <2>2, <2>3 DEF Ingest
<1> QED
  BY <1>1, <1>2, <1>3, <1>4, <1>5, <1>6

(* The steps that end an execution.                                        *)
LEMMA EndLog ==
  ASSUME IInv, LogInv, NEW e \in Executors,
         Judge(e) \/ Complete(e) \/ Evaluate(e) \/ Fail(e)
  PROVE  LogInv'
<1>1. CASE Judge(e)
  <2>1. PICK place \in {"complete", "reject"} : Goto(e, place)
    BY <1>1 DEF Judge
  <2>2. pc[e] = "judge" /\ OnlyMoves
    BY <1>1 DEF Judge
  <2>3. Accounted(place, local'[e], Seen, run.requests, sent)
    BY <2>1, <2>2 DEF OnlyMoves, LogInv, Accounted, Driving
  <2>4. Within(place, local'[e], Seen)
    BY <2>1, <2>2 DEF OnlyMoves, LogInv, Within, Loop
  <2> QED
    BY <2>1, <2>2, <2>3, <2>4, QuietStep DEF OnlyMoves, LogInv, Quietly
<1>2. CASE Complete(e)
  <2>1. pc[e] = "complete" /\ Goto(e, "evaluate") /\ UNCHANGED <<local, sent>> /\ Quietly
    <3>1. run.steps \in Nat
      BY RunFields DEF IInv
    <3> QED
      BY <1>2, <3>1, QuietFacts DEF Complete, Calls, Outside, Endings, Quietly
  <2>2. run'.status = "Completed" /\ run'.requests = run.requests
    BY <1>2 DEF Complete, IInv, TypeOK, Run
  <2>3. Even(Seen) /\ Paid(run.requests, sent)
    BY <2>1 DEF LogInv, Accounted, Driving
  <2>4. Accounted("evaluate", local'[e], Seen, run.requests, sent)
    BY <2>3 DEF Accounted
  <2>5. Within("evaluate", local'[e], Seen)
    BY DEF Within, Loop
  <2> QED
    BY <2>1, <2>2, <2>3, <2>4, <2>5, QuietStep
<1>3. CASE Evaluate(e) \/ Fail(e)
  <2>1. Goto(e, "returned") /\ UNCHANGED <<local, sent>> /\ Quietly
    <3>1. run.steps \in Nat
      BY RunFields DEF IInv
    <3> QED
      BY <1>3, <3>1, QuietFacts DEF Evaluate, Fail, Finishes, Endings, Outside, Quietly
  <2>2. run'.requests = run.requests /\ (run'.status = run.status \/ run'.status = "Failed")
    BY <1>3 DEF Evaluate, Fail, Finishes, IInv, TypeOK, Run
  <2>3. "returned" \notin Driving
    BY DEF Driving
  <2> QED
    BY <2>1, <2>2, <2>3, NothingClaimed, QuietStep DEF LogInv, Quietly
<1> QED
  BY <1>1, <1>2, <1>3

(* A call that returns an error.                                           *)
LEMMA ErrorLog ==
  ASSUME IInv, LogInv, NEW e \in Executors, CallRefused(e) \/ SaveFails(e)
  PROVE  LogInv'
<1>1. Goto(e, Afterwards(pc[e])) /\ UNCHANGED <<run, log, local, sent>> /\ Quietly
  BY DEF CallRefused, SaveFails, OnlyMoves, Quietly
<1>2. Afterwards(pc[e]) \notin Driving \ {"fail"}
  BY DEF Afterwards, Driving
<1> QED
  BY <1>1, <1>2, NothingClaimed, QuietStep DEF LogInv, Quietly

(* The window, and a restart.                                              *)
LEMMA WindowLog ==
  ASSUME IInv, LogInv, CreateCommand \/ StartCommand \/ CancelCommand \/ Restart \/ UNCHANGED vars
  PROVE  LogInv'
<1>0. TypeOK /\ run.steps \in Nat
  BY RunFields DEF IInv
<1>1. CASE CreateCommand \/ CancelCommand
  <2>1. UNCHANGED <<pc, local, sent>> /\ Quietly
    BY <1>0, <1>1, QuietFacts
       DEF CreateCommand, CancelCommand, Finishes, Endings, Outside, Quietly
  <2>2. /\ run'.requests = run.requests
        /\ \/ run'.status = "Created" /\ run.status = "Absent"
           \/ run'.status = "Cancelled"
    BY <1>1 DEF CreateCommand, CancelCommand, Finishes, IInv, TypeOK, Run
  <2> QED
    BY <1>0, <2>1, <2>2, QuietClaims DEF LogInv
<1>2. CASE StartCommand
  <2>1. run'.status = "Running" /\ Bounded(Seen')
    BY <1>2, StartLogs DEF StartCommand
  <2>2. \A e \in Executors : pc'[e] \notin Driving
    BY <1>2 DEF StartCommand, IInv, Started, Begun, Drives
  <2> QED
    BY <2>1, <2>2, NothingClaimed DEF LogInv
<1>3. CASE Restart
  <2>1. sent' = sent /\ Quietly
    BY <1>0, <1>3, QuietFacts DEF Restart, Finishes, Endings, Quietly
  <2>2. run'.requests = run.requests /\ (run'.status = run.status \/ run'.status = "Failed")
    BY <1>3 DEF Restart, Finishes, IInv, TypeOK, Run
  <2>3. \A e \in Executors : pc'[e] \notin Driving
    BY <1>3 DEF Restart, Driving
  <2> QED
    BY <1>0, <2>1, <2>2, <2>3, NothingClaimed, QuietClaims DEF LogInv
<1>4. CASE UNCHANGED vars
  <2>1. Seen' = Seen
    BY <1>4 DEF vars, Seen
  <2> QED
    BY <1>4, <2>1 DEF vars, LogInv
<1> QED
  BY <1>1, <1>2, <1>3, <1>4

(* Every step keeps the invariant.                                         *)
LEMMA LogStep == IInv /\ LogInv /\ [Next]_vars => LogInv'
<1> SUFFICES ASSUME IInv, LogInv, [Next]_vars PROVE LogInv'
  OBVIOUS
<1>1. ASSUME NEW e \in Executors, Execution(e) \/ Proceeds(e) \/ SaveFails(e)
      PROVE  LogInv'
  BY <1>1, SetupLog, AnswerLog, ExecuteLog, AnnounceLog, StoreLog, ToolLog, EndLog, ErrorLog
     DEF Proceeds
<1> QED
  BY <1>1, WindowLog DEF Next

-----------------------------------------------------------------------------
(* Model calls.                                                            *)

Answered(l) == Cardinality(At(l, {"ToolCompleted"}))

Affordable(made, l) == made <= MaxModelCalls + Answered(l)

(* What an execution may still charge the run.                             *)
Pending(place, rec, made, l) ==
  /\ place = "commit" => Affordable(made + rec.spent, l)
  /\ place = "store" => rec.called <= 1

BudgetInv ==
  MaxModelCalls # 0 =>
    /\ Affordable(run.calls, Seen)
    /\ \A e \in Executors : Pending(pc[e], local[e], run.calls, Seen)

(* It is enough for the limit.                                             *)
LEMMA BudgetInvMeans == IInv /\ BudgetInv => BudgetKept
<1> SUFFICES ASSUME IInv, BudgetInv, MaxModelCalls # 0, NEW e \in Executors
             PROVE  run.calls + (IF pc[e] = "commit" THEN local[e].spent ELSE 0)
                      <= MaxModelCalls + Answered(Seen)
  BY SeenPositions DEF BudgetKept, Answered
<1>1. run.calls \in Nat
  BY DEF IInv, TypeOK, Run
<1>2. CASE pc[e] = "commit"
  BY <1>2 DEF BudgetInv, Pending, Affordable
<1>3. CASE pc[e] # "commit"
  BY <1>1, <1>3 DEF BudgetInv, Affordable
<1> QED
  BY <1>2, <1>3

(* No event takes a result away, and a result adds one.                    *)
LEMMA ResultsGrow ==
  ASSUME NEW l \in Seq(EventKinds), NEW event \in EventKinds
  PROVE  /\ Answered(l) \in Nat /\ Answered(Append(l, event)) \in Nat
         /\ Answered(l) <= Answered(Append(l, event))
         /\ event = "ToolCompleted" => Answered(Append(l, event)) = Answered(l) + 1
<1> DEFINE n == Len(l) + 1
           A == At(l, {"ToolCompleted"})
<1>1. /\ n \in Nat /\ A \in SUBSET (1 .. n - 1)
      /\ At(Append(l, event), {"ToolCompleted"})
           = IF event = "ToolCompleted" THEN A \cup {n} ELSE A
  BY AppendAt
<1>2. IsFiniteSet(A) /\ Cardinality(A) \in Nat
  BY AtFinite
<1> HIDE DEF n, A
<1>3. n \notin A
  BY <1>1
<1>4. Cardinality(A \cup {n}) = Cardinality(A) + 1
  BY <1>2, <1>3, FS_AddElement
<1>5. Answered(l) = Cardinality(A)
  BY DEF Answered, A
<1> QED
  BY <1>1, <1>2, <1>4, <1>5 DEF Answered

(* A step that charges nothing and asks for nothing.                       *)
LEMMA UnchargedStep ==
  ASSUME IInv, BudgetInv, run'.calls = run.calls,
         log' = log \/ \E kind \in EventKinds, step \in Nat : Logs(kind, step),
         \A f \in Executors : \/ pc'[f] = pc[f] /\ local'[f] = local[f]
                              \/ pc'[f] \notin {"commit", "store"}
  PROVE  BudgetInv'
<1> SUFFICES ASSUME MaxModelCalls # 0
             PROVE  /\ Affordable(run.calls, Seen')
                    /\ \A f \in Executors : Pending(pc'[f], local'[f], run.calls, Seen')
  BY DEF BudgetInv
<1>1. /\ Seen \in Seq(EventKinds) /\ run.calls \in Nat /\ MaxModelCalls \in Nat
      /\ \A f \in Executors : local[f].spent \in Nat
  BY BudgetAssumption, SeenFacts DEF IInv, TypeOK, Run, Local
<1>2. Answered(Seen) \in Nat /\ Answered(Seen') \in Nat /\ Answered(Seen) <= Answered(Seen')
  <2>1. CASE log' = log
    <3>1. "ToolStarted" \in EventKinds
      BY DEF EventKinds
    <3>2. Answered(Seen) \in Nat
      BY <1>1, <3>1, ResultsGrow
    <3>3. Answered(Seen') = Answered(Seen)
      BY <2>1 DEF Answered, At, Seen
    <3> QED
      BY <3>2, <3>3
  <2>2. ASSUME NEW kind \in EventKinds, NEW step \in Nat, Logs(kind, step)
        PROVE  /\ Answered(Seen) \in Nat /\ Answered(Seen') \in Nat
               /\ Answered(Seen) <= Answered(Seen')
    BY <1>1, <2>2, Noted, ResultsGrow DEF IInv, Notes
  <2> QED
    BY <2>1, <2>2
<1>3. \A made \in Nat : Affordable(made, Seen) => Affordable(made, Seen')
  BY <1>1, <1>2 DEF Affordable
<1>4. \A f \in Executors : run.calls + local[f].spent \in Nat
  BY <1>1
<1>5. Affordable(run.calls, Seen')
  BY <1>1, <1>3 DEF BudgetInv
<1>6. ASSUME NEW f \in Executors PROVE Pending(pc'[f], local'[f], run.calls, Seen')
  <2>1. CASE pc'[f] = pc[f] /\ local'[f] = local[f]
    BY <1>3, <1>4, <2>1 DEF BudgetInv, Pending
  <2>2. CASE pc'[f] \notin {"commit", "store"}
    BY <2>2 DEF Pending
  <2> QED
    BY <2>1, <2>2
<1> QED
  BY <1>5, <1>6

(* A request for an answer spends what remains at most.                    *)
LEMMA AskBudget ==
  ASSUME IInv, BudgetInv, NEW e \in Executors, AskNothing(e) \/ Ask(e)
  PROVE  BudgetInv'
<1> SUFFICES ASSUME MaxModelCalls # 0
             PROVE  \A f \in Executors : Pending(pc'[f], local'[f], run.calls, Seen)
  BY DEF AskNothing, Ask, Outside, BudgetInv, Seen
<1>1. PICK k \in Nat, answer \in Answers :
        /\ k <= Remaining
        /\ local' = [local EXCEPT ![e] = [local[e] EXCEPT !.step = run.steps + 1,
                                                           !.answer = answer, !.spent = k]]
  <2>1. CASE AskNothing(e)
    <3>1. Remaining = 0
          /\ local' = [local EXCEPT ![e] = [local[e] EXCEPT !.step = run.steps + 1,
                                                             !.answer = "error", !.spent = 0]]
      BY <2>1 DEF AskNothing
    <3>2. 0 \in Nat /\ "error" \in Answers /\ 0 <= Remaining
      BY <3>1 DEF Answers
    <3> QED
      BY <3>1, <3>2
  <2>2. CASE Ask(e)
    <3>1. PICK k \in 1 .. MaxAttempts, answer \in Answers :
            /\ k <= Remaining
            /\ local' = [local EXCEPT ![e] = [local[e] EXCEPT !.step = run.steps + 1,
                                                           !.answer = answer, !.spent = k]]
      BY <2>2 DEF Ask
    <3>2. k \in Nat
      BY BudgetAssumption
    <3> QED
      BY <3>1, <3>2
  <2> QED
    BY <2>1, <2>2
<1>2. /\ pc'[e] = "commit" /\ local'[e].spent = k
      /\ \A f \in Executors \ {e} : pc'[f] = pc[f] /\ local'[f] = local[f]
  <2>1. Goto(e, "commit")
    BY DEF AskNothing, Ask
  <2> QED
    BY <1>1, <2>1 DEF Goto, IInv, TypeOK, Local
<1>3. run.calls \in Nat /\ MaxModelCalls \in Nat /\ Answered(Seen) \in Nat
  BY BudgetAssumption, SeenFacts, AtFinite DEF IInv, TypeOK, Run, Answered
<1>4. Affordable(run.calls + k, Seen)
  <2>1. Affordable(run.calls, Seen)
    BY DEF BudgetInv
  <2>2. CASE run.calls < MaxModelCalls
    BY <1>1, <1>3, <2>2 DEF Remaining, Affordable
  <2>3. CASE ~(run.calls < MaxModelCalls)
    <3>1. k = 0
      BY <1>1, <2>3 DEF Remaining
    <3> QED
      BY <1>3, <2>1, <3>1 DEF Affordable
  <2> QED
    BY <2>2, <2>3
<1> QED
  BY <1>2, <1>4 DEF Pending, BudgetInv

(* Charging what was spent; nobody else is about to charge.                *)
LEMMA CommitBudget ==
  ASSUME IInv, BudgetInv, NEW e \in Executors, Commit(e)
  PROVE  BudgetInv'
<1>1. /\ pc[e] = "commit" /\ Seen' = Append(Seen, "ModelCalled") /\ "ModelCalled" \in EventKinds
      /\ Seen \in Seq(EventKinds)
  BY KindsFacts, SeenFacts, NotedBy DEF Commit, Committed, Calls, Notes, IInv
<1>2. /\ run'.calls = run.calls + local[e].spent
      /\ run.calls \in Nat /\ local[e].spent \in Nat /\ MaxModelCalls \in Nat
  BY BudgetAssumption DEF Commit, IInv, TypeOK, Run, Local
<1>3. \A f \in Executors : pc'[f] \notin {"commit", "store"}
  <2>1. pc' = [pc EXCEPT ![e] = IF local[e].answer = "error" THEN "fail" ELSE "receive"]
    BY DEF Commit, Goto
  <2>2. \A f \in Executors \ {e} : pc[f] \notin Driving
    BY <1>1 DEF IInv, OneDriver, Drives, Driving
  <2> QED
    BY <2>1, <2>2 DEF IInv, TypeOK, Driving
<1>4. /\ Answered(Seen) \in Nat /\ Answered(Seen') \in Nat /\ Answered(Seen) <= Answered(Seen')
  BY <1>1, ResultsGrow
<1>5. MaxModelCalls # 0 => Affordable(run'.calls, Seen')
  BY <1>1, <1>2, <1>4 DEF BudgetInv, Pending, Affordable
<1> QED
  BY <1>3, <1>5 DEF BudgetInv, Pending

(* A tool makes one model call by itself at most.                          *)
LEMMA ExecuteBudget ==
  ASSUME IInv, BudgetInv, NEW e \in Executors, Execute(e)
  PROVE  BudgetInv'
<1>1. CASE \E result, n, c : c \in {0, 1} /\ Brought(e, result, n, c)
  <2>1. PICK result, n, c : c \in {0, 1} /\ Brought(e, result, n, c)
    BY <1>1
  <2>2. /\ pc'[e] = "store" /\ local'[e].called = c
        /\ \A f \in Executors \ {e} : pc'[f] = pc[f] /\ local'[f] = local[f]
    BY <2>1 DEF Brought, Goto, IInv, TypeOK, Local
  <2> QED
    BY <2>1, <2>2 DEF Execute, BudgetInv, Pending, Seen
<1>2. CASE Goto(e, "fail") /\ UNCHANGED local
  BY <1>2, UnchargedStep DEF Execute, Goto, IInv, TypeOK
<1> QED
  BY <1>1, <1>2 DEF Execute

(* It is charged with the result that makes room for it.                   *)
LEMMA StoreBudget ==
  ASSUME IInv, BudgetInv, NEW e \in Executors, Store(e)
  PROVE  BudgetInv'
<1>1. /\ pc[e] = "store" /\ Seen' = Append(Seen, "ToolCompleted") /\ "ToolCompleted" \in EventKinds
      /\ Seen \in Seq(EventKinds)
  BY KindsFacts, SeenFacts, NotedBy DEF Store, Calls, Notes, IInv
<1>2. /\ run'.calls = run.calls + local[e].called
      /\ run.calls \in Nat /\ local[e].called \in Nat /\ MaxModelCalls \in Nat
  BY BudgetAssumption DEF Store, IInv, TypeOK, Run, Local
<1>3. \A f \in Executors : pc'[f] \notin {"commit", "store"}
  <2>1. pc' = [pc EXCEPT ![e] = "record"]
    BY DEF Store, Goto
  <2>2. \A f \in Executors \ {e} : pc[f] \notin Driving
    BY <1>1 DEF IInv, OneDriver, Drives, Driving
  <2> QED
    BY <2>1, <2>2 DEF IInv, TypeOK, Driving
<1>4. Answered(Seen) \in Nat /\ Answered(Seen') = Answered(Seen) + 1
  BY <1>1, ResultsGrow
<1>5. MaxModelCalls # 0 => Affordable(run'.calls, Seen')
  BY <1>1, <1>2, <1>4 DEF BudgetInv, Pending, Affordable
<1> QED
  BY <1>3, <1>5 DEF BudgetInv, Pending

(* All other steps of an execution.                                        *)
LEMMA OtherBudget ==
  ASSUME IInv, BudgetInv, NEW e \in Executors,
         \/ Execution(e) \/ Configure(e) \/ Misconfigured(e) \/ ConfStart(e) \/ ConfFail(e)
         \/ Check(e) \/ Start(e) \/ Seed(e) \/ Receive(e) \/ Reject(e)
         \/ Prepare(e) \/ Limited(e) \/ Blocked(e) \/ BlockScope(e) \/ Announce(e)
         \/ Record(e) \/ RecordNothing(e) \/ Ingest(e)
         \/ Judge(e) \/ Complete(e) \/ Evaluate(e) \/ Fail(e)
         \/ CallRefused(e) \/ SaveFails(e)
  PROVE  BudgetInv'
<1>1. run'.calls = run.calls
  BY DEF Execution, Configure, Misconfigured, ConfStart, ConfFail, Check, Start, Seed, Receive,
         Reject, Prepare, Limited, Blocked, BlockScope, Announce, Record, RecordNothing, Ingest,
         Judge, Complete, Evaluate, Fail, CallRefused, SaveFails, OnlyMoves, Finishes, IInv,
         TypeOK, Run
<1>0. run.steps \in Nat /\ local[e].step \in Nat
  BY RunFields, LocalFields DEF IInv
<1>2. log' = log \/ \E kind \in EventKinds, step \in Nat : Logs(kind, step)
  BY <1>0, KindsFacts
     DEF Execution, Configure, Misconfigured, ConfStart, ConfFail, Check, Start, Seed, Receive,
         Reject, Prepare, Limited, Blocked, BlockScope, Announce, Record, RecordNothing, Ingest,
         Judge, Complete, Evaluate, Fail, CallRefused, SaveFails, OnlyMoves, Records, Finishes,
         Endings
<1>3. PICK place \in Places \ {"commit", "store"} : Goto(e, place)
  <2>1. CASE CallRefused(e) \/ SaveFails(e)
    <3>1. Goto(e, Afterwards(pc[e]))
      BY <2>1 DEF CallRefused, SaveFails
    <3>2. Afterwards(pc[e]) \in Places \ {"commit", "store"}
      BY DEF Afterwards, Places, Driving
    <3> QED
      BY <3>1, <3>2
  <2>2. CASE ~(CallRefused(e) \/ SaveFails(e))
    BY <2>2 DEF Execution, Configure, Misconfigured, ConfStart, ConfFail, Check, Start, Seed,
         Receive, Reject, Prepare, Limited, Blocked, BlockScope, Announce, Record, RecordNothing,
         Ingest, Judge, Complete, Evaluate, Fail, Places, Driving
  <2> QED
    BY <2>1, <2>2
<1>4. \A f \in Executors \ {e} : local'[f] = local[f]
  BY DEF Execution, Configure, Misconfigured, ConfStart, ConfFail, Check, Start, Seed, Receive,
         Reject, Prepare, Limited, Blocked, BlockScope, Announce, Record, RecordNothing, Ingest,
         Judge, Complete, Evaluate, Fail, CallRefused, SaveFails, OnlyMoves, IInv, TypeOK
<1>5. \A f \in Executors : \/ pc'[f] = pc[f] /\ local'[f] = local[f]
                           \/ pc'[f] \notin {"commit", "store"}
  BY <1>3, <1>4 DEF Goto, IInv, TypeOK
<1> QED
  BY <1>1, <1>2, <1>5, UnchargedStep

(* The window, and a restart.                                              *)
LEMMA WindowBudget ==
  ASSUME IInv, BudgetInv,
         CreateCommand \/ StartCommand \/ CancelCommand \/ Restart \/ UNCHANGED vars
  PROVE  BudgetInv'
<1>1. run'.calls = run.calls
  BY DEF CreateCommand, StartCommand, CancelCommand, Restart, Finishes, vars, IInv, TypeOK, Run
<1>2. log' = log \/ \E kind \in EventKinds, step \in Nat : Logs(kind, step)
  <2>1. run.steps \in Nat
    BY RunFields DEF IInv
  <2> QED
    BY <2>1, KindsFacts
       DEF CreateCommand, StartCommand, CancelCommand, Restart, Finishes, vars, Endings
<1>3. \A f \in Executors : \/ pc'[f] = pc[f] /\ local'[f] = local[f]
                           \/ pc'[f] \notin {"commit", "store"}
  BY DEF CreateCommand, StartCommand, CancelCommand, Restart, vars
<1> QED
  BY <1>1, <1>2, <1>3, UnchargedStep

(* It holds in the beginning, and every step keeps it.                     *)
LEMMA BudgetInit == Init => BudgetInv
<1> SUFFICES ASSUME Init, MaxModelCalls # 0
             PROVE  /\ Affordable(run.calls, Seen)
                    /\ \A e \in Executors : Pending(pc[e], local[e], run.calls, Seen)
  BY DEF BudgetInv
<1>1. run.calls = 0 /\ \A e \in Executors : pc[e] = "idle"
  BY DEF Init
<1>2. Answered(Seen) \in Nat /\ MaxModelCalls \in Nat
  <2>1. Seen \in Seq(EventKinds)
    <3>1. log \in Seq(Event)
      BY DEF Init
    <3> QED
      BY <3>1, KindsAreSeq DEF Seen
  <2> QED
    BY <2>1, AtFinite, BudgetAssumption DEF Answered
<1> QED
  BY <1>1, <1>2 DEF Affordable, Pending

LEMMA BudgetStep == IInv /\ BudgetInv /\ [Next]_vars => BudgetInv'
<1> SUFFICES ASSUME IInv, BudgetInv, [Next]_vars PROVE BudgetInv'
  OBVIOUS
<1>1. ASSUME NEW e \in Executors, Execution(e) \/ Proceeds(e) \/ SaveFails(e)
      PROVE  BudgetInv'
  BY <1>1, AskBudget, CommitBudget, ExecuteBudget, StoreBudget, OtherBudget DEF Proceeds
<1> QED
  BY <1>1, WindowBudget DEF Next

-----------------------------------------------------------------------------
(* The results.                                                            *)

(* What is claimed of the log holds throughout.                            *)
THEOREM LogInvariance == Spec => []LogInv
  BY LogInit, LogStep, Invariance, PTL DEF Spec

(* A completed run has the result of every tool that was started, and what *)
(* single-request tools sent is in its usage, whatever they came to.       *)
THEOREM NothingUnanswered == Spec => []ToolsAnswered
  BY LogInvMeans, LogInvariance, PTL

(* No log shows a fourth rejection in a row, or an action after the third. *)
THEOREM StreaksEnd == Spec => []StreakBounded
  BY LogInvMeans, LogInvariance, PTL

(* The limit on model calls is passed by the own calls of tools only,      *)
(* whatever attempts are made, whatever fails and whoever executes the run.*)
THEOREM LimitHolds == Spec => []BudgetKept
  BY BudgetInit, BudgetStep, BudgetInvMeans, Invariance, PTL DEF Spec

=============================================================================
