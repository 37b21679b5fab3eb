----------------------------- MODULE ReconLoopProofs ----------------------------
(***************************************************************************)
(* What holds of the steps of a run whatever the tools bring, whatever the *)
(* agent asks for, and however many times it deviates from the plan.       *)
(*                                                                         *)
(* Four of the properties need no more of the plan than this: a candidate  *)
(* is not blocked, and what is recommended is a candidate.  For WornOut,   *)
(* what is proposed and what it is worth is followed through the whole     *)
(* planner: everything proposed is modest, nothing modest is worth more    *)
(* than 260, and so what was done four times, which costs 100, does not    *)
(* reach the least score of 180 without a bonus.                           *)
(***************************************************************************)
EXTENDS ReconLoop, ReconIngestorProofs

-----------------------------------------------------------------------------
(* The plan.                                                               *)

(* A candidate has not been selected before, in any spelling.              *)
LEMMA CandidatesAreNew ==
  /\ PlanNow.recommended \subseteq PlanNow.candidates
  /\ \A action \in PlanNow.candidates : ~WasSelected(selections, action)
BY DEF PlanNow, Plan, PlanOf, First, Blocked

(* What compares equal as it is compares equal when normalized: the call   *)
(* for a candidate is not rejected.                                        *)
LEMMA CandidatesAreAccepted ==
  ASSUME NEW action \in PlanNow.candidates
  PROVE  ~Rejected(selections, Call(action))
<1>1. ~WasSelected(selections, action)
  BY CandidatesAreNew
<1> QED
  BY <1>1 DEF WasSelected, Equivalent, Rejected, Call

-----------------------------------------------------------------------------
(* The inductive invariant.                                                *)

CallOK(call) ==
  call.more \in BOOLEAN /\ {"capability", "arguments", "more"} \subseteq DOMAIN call

AskedOK(a) ==
  /\ CallOK(a.call) /\ a.recorded \in BOOLEAN
  /\ {"call", "recorded", "outcome"} \subseteq DOMAIN a

Shape ==
  /\ IsSequence(asked) /\ IsSequence(selections)
  /\ \A n \in DOMAIN asked : AskedOK(asked[n])
  /\ rejections \in Nat /\ failures \in Nat /\ deviations \in Nat

(* The n-th call is the m-th, without further arguments.                   *)
Repeats(calls, m, n) ==
  /\ calls[m].recorded /\ ~calls[n].call.more
  /\ calls[n].call = [calls[m].call EXCEPT !.more = FALSE]

(* A call that is about to be executed does not repeat another.            *)
FirstTime ==
  phase = "call" => /\ asked # <<>>
                    /\ \A m \in 1 .. Len(asked) - 1 : ~Repeats(asked, m, Len(asked))

(* The selections are the calls that were recorded, in their order.        *)
InOrder ==
  LET Recorded(n) == {m \in DOMAIN asked : asked[m].recorded /\ m <= n}
  IN  /\ Len(selections) = Cardinality(Recorded(Len(asked)))
      /\ \A n \in Recorded(Len(asked)) :
           /\ selections[Cardinality(Recorded(n))].capability = asked[n].call.capability
           /\ selections[Cardinality(Recorded(n))].arguments = asked[n].call.arguments

IInv ==
  /\ Shape /\ FirstTime
  /\ FollowingIsAccepted /\ InOrder /\ NotRepeated /\ SelectedOnce

(* The calls up to the n-th that were recorded as selections.              *)
Recd(calls, n) == {m \in DOMAIN calls : calls[m].recorded /\ m <= n}

(* The selection of a recorded call is among the selections.               *)
LEMMA RecordedIsSelected ==
  ASSUME IInv, NEW m \in DOMAIN asked, asked[m].recorded
  PROVE  /\ m \in Recd(asked, Len(asked))
         /\ Cardinality(Recd(asked, m)) \in DOMAIN selections
         /\ selections[Cardinality(Recd(asked, m))].capability = asked[m].call.capability
         /\ selections[Cardinality(Recd(asked, m))].arguments = asked[m].call.arguments
<1>1. Len(asked) \in Nat /\ DOMAIN asked = 1 .. Len(asked)
  BY Appended DEF IInv, Shape
<1>2. /\ m \in Recd(asked, Len(asked)) /\ m \in Recd(asked, m)
      /\ Recd(asked, m) \subseteq Recd(asked, Len(asked))
  BY <1>1 DEF Recd
<1>3. IsFiniteSet(Recd(asked, Len(asked)))
  <2>1. Recd(asked, Len(asked)) \subseteq 1 .. Len(asked)
    BY <1>1 DEF Recd
  <2>2. IsFiniteSet(1 .. Len(asked))
    <3>1. 1 \in Int /\ Len(asked) \in Int
      BY <1>1
    <3> QED
      BY <3>1, FS_Interval
  <2> QED
    BY <2>1, <2>2, FS_Subset
<1>4. IsFiniteSet(Recd(asked, m)) /\ Cardinality(Recd(asked, m)) \in Nat \ {0}
      /\ Cardinality(Recd(asked, m)) <= Cardinality(Recd(asked, Len(asked)))
  BY <1>2, <1>3, FS_Subset, FS_EmptySet, FS_CardinalityType
<1>5. Len(selections) = Cardinality(Recd(asked, Len(asked)))
      /\ \A n \in Recd(asked, Len(asked)) :
           /\ selections[Cardinality(Recd(asked, n))].capability = asked[n].call.capability
           /\ selections[Cardinality(Recd(asked, n))].arguments = asked[n].call.arguments
  BY DEF IInv, InOrder, Recd
<1>6. DOMAIN selections = 1 .. Len(selections) /\ Len(selections) \in Nat
  BY Appended DEF IInv, Shape
<1> QED
  BY <1>2, <1>4, <1>5, <1>6

-----------------------------------------------------------------------------
(* The steps.                                                              *)

(* A run begins with nothing asked for.                                    *)
LEMMA InitEstablishes == Init => IInv
<1> SUFFICES ASSUME Init
             PROVE  IInv
  OBVIOUS
<1>1. asked = <<>> /\ selections = <<>> /\ phase = "plan"
      /\ rejections = 0 /\ failures = 0 /\ deviations = 0
  BY DEF Init
<1>2. <<>> \in Seq({}) /\ DOMAIN <<>> = {} /\ Len(<<>>) = 0
  OBVIOUS
<1>3. IsSequence(<<>>)
  BY <1>2, SequenceOf
<1>4. Shape /\ FirstTime
  BY <1>1, <1>2, <1>3 DEF Shape, FirstTime
<1>5. FollowingIsAccepted /\ NotRepeated /\ SelectedOnce
  BY <1>1, <1>2 DEF FollowingIsAccepted, NotRepeated, SelectedOnce
<1>6. InOrder
  <2>1. Recd(asked, Len(asked)) = {}
    BY <1>1, <1>2 DEF Recd
  <2>2. Len(selections) = Cardinality(Recd(asked, Len(asked)))
    BY <2>1, <1>1, <1>2, FS_EmptySet
  <2> QED
    BY <2>1, <2>2 DEF InOrder, Recd
<1> QED
  BY <1>4, <1>5, <1>6 DEF IInv

(* What leaves the calls, their outcomes and the selections alone, and     *)
(* counts no rejection that is not a failure or a deviation, preserves it. *)
LEMMA NothingAsked ==
  ASSUME IInv, UNCHANGED <<asked, selections>>, phase' \in {phase, "plan"},
         rejections' \in Nat, failures' \in Nat, deviations' \in Nat,
         deviations' = 0 => rejections' <= failures'
  PROVE  IInv'
<1>1. Shape' /\ FirstTime'
  BY DEF IInv, Shape, FirstTime, Repeats
<1>2. FollowingIsAccepted' /\ InOrder' /\ NotRepeated' /\ SelectedOnce'
  BY DEF IInv, FollowingIsAccepted, InOrder, NotRepeated, SelectedOnce
<1> QED
  BY <1>1, <1>2 DEF IInv

(* The agent asks for a call.                                              *)
LEMMA AskPreserves ==
  ASSUME IInv, NEW call \in Following(PlanNow) \cup Deviating(PlanNow), Ask(PlanNow, call)
  PROVE  IInv'
<1> DEFINE selected == SelectionOf(PlanNow.candidates, call)
           last == [call |-> call, recorded |-> selected # {}, outcome |-> "none"]
           len == Len(asked)
           count == Len(selections)
<1>1. asked' = Append(asked, last)
  BY DEF Ask
<1>2. selections' = IF selected = {} THEN selections
                    ELSE Append(selections, CHOOSE action \in selected : TRUE)
  BY DEF Ask
<1>3. /\ IsSequence(asked) /\ IsSequence(selections)
      /\ \A n \in DOMAIN asked : AskedOK(asked[n])
      /\ rejections \in Nat /\ failures \in Nat /\ deviations \in Nat
  BY DEF IInv, Shape
<1>4. CallOK(call)
  <2>1. ASSUME NEW action
        PROVE  CallOK(Call(action)) /\ CallOK([Call(action) EXCEPT !.more = TRUE])
    <3>1. CallOK(Call(action)) /\ "more" \in DOMAIN Call(action)
      BY DEF CallOK, Call
    <3>2. /\ DOMAIN [Call(action) EXCEPT !.more = TRUE] = DOMAIN Call(action)
          /\ [Call(action) EXCEPT !.more = TRUE].more = TRUE
      BY <3>1
    <3> QED
      BY <3>1, <3>2 DEF CallOK
  <2>2. \A n \in DOMAIN asked : CallOK(asked[n].call)
    BY <1>3 DEF AskedOK
  <2> QED
    BY <2>1, <2>2 DEF Following, Deviating
<1>5. /\ IsSequence(asked') /\ len \in Nat /\ DOMAIN asked = 1 .. len /\ Len(asked') = len + 1
      /\ DOMAIN asked' = 1 .. len + 1 /\ \A i \in 1 .. len : asked'[i] = asked[i]
      /\ asked'[len + 1] = last
  BY <1>1, <1>3, Appended
<1>6. /\ IsSequence(selections') /\ count \in Nat /\ DOMAIN selections = 1 .. count
      /\ DOMAIN selections' = 1 .. Len(selections')
      /\ Len(selections') = IF selected = {} THEN count ELSE count + 1
      /\ \A i \in 1 .. count : selections'[i] = selections[i]
      /\ selected # {} => selections'[count + 1] \in selected
  <2>1. CASE selected = {}
    BY <2>1, <1>2, <1>3, Appended
  <2>2. CASE selected # {}
    <3>1. PICK action \in selected : selections' = Append(selections, action)
      BY <2>2, <1>2
    <3> QED
      BY <2>2, <3>1, <1>3, Appended
  <2> QED
    BY <2>1, <2>2
<1>7. last.call = call /\ last.recorded = (selected # {}) /\ last.outcome = "none"
      /\ AskedOK(last)
  BY <1>4 DEF AskedOK
<1>8. \A action \in selected : /\ action \in PlanNow.candidates
                                /\ action.capability = call.capability
                                /\ action.arguments = call.arguments
  BY DEF SelectionOf
<1> HIDE DEF selected, last, len, count
<1>9. /\ \A n \in 1 .. len : Recd(asked', n) = Recd(asked, n)
      /\ Recd(asked', len + 1) = IF selected = {} THEN Recd(asked, len)
                                 ELSE Recd(asked, len) \cup {len + 1}
      /\ Recd(asked, len) \in SUBSET (1 .. len)
  <2>1. \A n \in 1 .. len : Recd(asked', n) = Recd(asked, n)
    BY <1>5 DEF Recd
  <2>2. CASE selected = {}
    <3>1. ~asked'[len + 1].recorded
      BY <2>2, <1>5, <1>7
    <3>2. Recd(asked', len + 1) = Recd(asked, len)
      BY <3>1, <1>5 DEF Recd
    <3> QED
      BY <2>1, <2>2, <3>2, <1>5 DEF Recd
  <2>3. CASE selected # {}
    <3>1. asked'[len + 1].recorded
      BY <2>3, <1>5, <1>7
    <3>2. Recd(asked', len + 1) = Recd(asked, len) \cup {len + 1}
      BY <3>1, <1>5 DEF Recd
    <3> QED
      BY <2>1, <2>3, <3>2, <1>5 DEF Recd
  <2> QED
    BY <2>2, <2>3
<1>10. Shape'
  <2>1. \A n \in DOMAIN asked' : AskedOK(asked'[n])
    <3>1. \A n \in 1 .. len + 1 : n \in 1 .. len \/ n = len + 1
      BY <1>5
    <3> QED
      BY <3>1, <1>3, <1>5, <1>7
  <2>2. rejections' \in Nat /\ failures' \in Nat /\ deviations' \in Nat
    BY <1>3 DEF Ask, Reject
  <2> QED
    BY <2>1, <2>2, <1>5, <1>6 DEF Shape
<1>11. FirstTime'
  <2>1. SUFFICES ASSUME phase' = "call", NEW m \in 1 .. len, Repeats(asked', m, len + 1)
                 PROVE  FALSE
    BY <1>5 DEF FirstTime
  <2>2. /\ asked[m].recorded /\ ~call.more
        /\ call.capability = asked[m].call.capability
        /\ call.arguments = asked[m].call.arguments
    <3>1. asked'[m] = asked[m] /\ asked'[len + 1].call = call /\ CallOK(asked[m].call)
      BY <1>3, <1>5, <1>7 DEF AskedOK
    <3>2. call = [asked[m].call EXCEPT !.more = FALSE]
      BY <2>1, <3>1 DEF Repeats
    <3>3. asked[m].recorded /\ ~call.more
      BY <2>1, <3>1 DEF Repeats
    <3> QED
      BY <3>1, <3>2, <3>3 DEF CallOK
  <2>3. Rejected(selections, call)
    BY <2>2, <1>5, RecordedIsSelected DEF Rejected
  <2> QED
    BY <2>1, <2>3 DEF Ask
<1>12. FollowingIsAccepted'
  <2>1. SUFFICES ASSUME deviations' = 0
                 PROVE  rejections' <= failures'
    BY DEF FollowingIsAccepted
  <2>2. call \in Following(PlanNow) /\ deviations = 0
    BY <2>1, <1>3 DEF Ask
  <2>3. ~Rejected(selections, call)
    BY <2>2, CandidatesAreNew, CandidatesAreAccepted DEF Following
  <2> QED
    BY <2>2, <2>3 DEF Ask, IInv, FollowingIsAccepted
<1>13. InOrder'
  <2>1. /\ Cardinality(Recd(asked, len)) = count
        /\ Cardinality(Recd(asked', len + 1)) = Len(selections')
    <3>1. IsFiniteSet(1 .. len)
      <4>1. 1 \in Int /\ len \in Int
        BY <1>5
      <4> QED
        BY <4>1, FS_Interval
    <3>2. IsFiniteSet(Recd(asked, len)) /\ len + 1 \notin Recd(asked, len)
      BY <3>1, <1>5, <1>9, FS_Subset
    <3>3. Cardinality(Recd(asked, len)) = count
      BY DEF IInv, InOrder, Recd, len, count
    <3>4. Cardinality(Recd(asked, len) \cup {len + 1}) = Cardinality(Recd(asked, len)) + 1
      BY <3>2, FS_AddElement
    <3> QED
      BY <3>3, <3>4, <1>6, <1>9
  <2>2. ASSUME NEW n \in Recd(asked', len + 1)
        PROVE  /\ selections'[Cardinality(Recd(asked', n))].capability = asked'[n].call.capability
               /\ selections'[Cardinality(Recd(asked', n))].arguments = asked'[n].call.arguments
    <3>1. CASE n \in 1 .. len
      <4>1. asked[n].recorded /\ asked'[n] = asked[n]
        BY <2>2, <3>1, <1>5 DEF Recd
      <4>2. /\ Cardinality(Recd(asked, n)) \in 1 .. count
            /\ selections[Cardinality(Recd(asked, n))].capability = asked[n].call.capability
            /\ selections[Cardinality(Recd(asked, n))].arguments = asked[n].call.arguments
        BY <3>1, <4>1, <1>5, <1>6, RecordedIsSelected
      <4>3. selections'[Cardinality(Recd(asked, n))] = selections[Cardinality(Recd(asked, n))]
        BY <4>2, <1>6
      <4>4. Recd(asked', n) = Recd(asked, n)
        BY <3>1, <1>9
      <4> QED
        BY <4>1, <4>2, <4>3, <4>4
    <3>2. CASE n \notin 1 .. len
      <4>1. n = len + 1 /\ selected # {}
        BY <2>2, <3>2, <1>9
      <4>2. Cardinality(Recd(asked', n)) = count + 1
        BY <4>1, <2>1, <1>6
      <4> QED
        BY <4>1, <4>2, <1>5, <1>6, <1>7, <1>8
    <3> QED
      BY <3>1, <3>2
  <2>3. Recd(asked', len + 1) = Recd(asked', Len(asked'))
    BY <1>5
  <2> QED
    BY <2>1, <2>2, <2>3 DEF InOrder, Recd
<1>14. NotRepeated'
  <2>1. SUFFICES ASSUME NEW m \in 1 .. len + 1, NEW n \in 1 .. len + 1, m < n,
                        asked'[m].recorded, ~asked'[n].call.more,
                        asked'[n].call = [asked'[m].call EXCEPT !.more = FALSE]
                 PROVE  asked'[n].outcome = "none"
    BY <1>5 DEF NotRepeated
  <2>2. CASE n = len + 1
    BY <2>2, <1>5, <1>7
  <2>3. CASE n # len + 1
    <3>1. m \in 1 .. len /\ n \in 1 .. len /\ asked'[m] = asked[m] /\ asked'[n] = asked[n]
      BY <2>1, <2>3, <1>5
    <3> QED
      BY <2>1, <3>1, <1>5 DEF IInv, NotRepeated
  <2> QED
    BY <2>2, <2>3
<1>15. SelectedOnce'
  <2>1. SUFFICES ASSUME NEW m \in DOMAIN selections', NEW n \in DOMAIN selections', m # n
                 PROVE  ~Equivalent(selections'[m], selections'[n])
    BY DEF SelectedOnce
  <2>2. CASE m \in 1 .. count /\ n \in 1 .. count
    BY <2>1, <2>2, <1>6 DEF IInv, SelectedOnce
  <2>3. CASE ~(m \in 1 .. count /\ n \in 1 .. count)
    <3>1. selected # {} /\ selections'[count + 1] \in PlanNow.candidates
      BY <2>3, <1>6, <1>8
    <3>2. \A k \in 1 .. count : ~Equivalent(selections[k], selections'[count + 1])
      BY <3>1, <1>6, CandidatesAreNew DEF WasSelected
    <3>3. \A a, b : Equivalent(a, b) <=> Equivalent(b, a)
      BY DEF Equivalent
    <3>4. \/ m \in 1 .. count /\ n = count + 1
          \/ n \in 1 .. count /\ m = count + 1
      BY <2>1, <2>3, <3>1, <1>6
    <3> QED
      BY <3>2, <3>3, <3>4, <1>6
  <2> QED
    BY <2>2, <2>3
<1> QED
  BY <1>10, <1>11, <1>12, <1>13, <1>14, <1>15 DEF IInv

(* The tool answers, or fails.                                             *)
LEMMA AnswerPreserves ==
  ASSUME IInv, NEW result, Answer(result)
  PROVE  IInv'
<1> DEFINE len == Len(asked)
           outcome == IF result.success THEN "succeeded" ELSE "failed"
<1>1. /\ IsSequence(asked) /\ IsSequence(selections)
      /\ \A n \in DOMAIN asked : AskedOK(asked[n])
      /\ rejections \in Nat /\ failures \in Nat /\ deviations \in Nat
  BY DEF IInv, Shape
<1>2. len \in Nat /\ DOMAIN asked = 1 .. len /\ len \in 1 .. len
  <2>1. asked # <<>>
    BY DEF IInv, FirstTime, Answer
  <2> QED
    BY <2>1, <1>1, Appended, EmptySeq DEF IsSequence
<1>3. asked' = [asked EXCEPT ![len] = [asked[len] EXCEPT !.outcome = outcome]]
  BY DEF Answer
<1>4. /\ IsSequence(asked') /\ Len(asked') = len /\ DOMAIN asked' = 1 .. len
      /\ \A n \in 1 .. len : n # len => asked'[n] = asked[n]
      /\ asked'[len] = [asked[len] EXCEPT !.outcome = outcome]
  <2> DEFINE last == [asked[len] EXCEPT !.outcome = outcome]
             S == ToSet(asked) \cup {last}
  <2>1. asked \in Seq(S) /\ last \in S
    BY <1>1, SeqMonotonic DEF IsSequence
  <2>2. asked' = [asked EXCEPT ![len] = last]
    BY <1>3
  <2> HIDE DEF last, S
  <2>3. /\ asked' \in Seq(S) /\ Len(asked') = len
        /\ \A n \in 1 .. len : asked'[n] = IF n = len THEN last ELSE asked[n]
    BY <2>1, <2>2, <1>2, ExceptSeq
  <2>4. IsSequence(asked') /\ DOMAIN asked' = 1 .. len
    BY <2>3, SequenceOf, LenProperties
  <2> QED
    BY <2>3, <2>4, <1>2 DEF last
<1> HIDE DEF len, outcome
<1>5. \A n \in 1 .. len : /\ asked'[n].call = asked[n].call
                          /\ asked'[n].recorded = asked[n].recorded
                          /\ AskedOK(asked'[n])
                          /\ n # len => asked'[n].outcome = asked[n].outcome
  BY <1>1, <1>2, <1>4 DEF AskedOK
<1>6. Shape'
  BY <1>1, <1>4, <1>5 DEF Shape, Answer
<1>7. FirstTime' /\ FollowingIsAccepted'
  BY <1>6 DEF FirstTime, FollowingIsAccepted, Shape, Answer
<1>8. InOrder'
  <2>1. \A n \in Nat : Recd(asked', n) = Recd(asked, n)
    BY <1>2, <1>4, <1>5 DEF Recd
  <2>2. \A n \in Recd(asked, len) : n \in 1 .. len
    BY <1>2 DEF Recd
  <2>3. InOrder
        <=> /\ Len(selections) = Cardinality(Recd(asked, Len(asked)))
            /\ \A n \in Recd(asked, Len(asked)) :
                 /\ selections[Cardinality(Recd(asked, n))].capability = asked[n].call.capability
                 /\ selections[Cardinality(Recd(asked, n))].arguments = asked[n].call.arguments
    BY DEF InOrder, Recd
  <2>4. /\ Len(selections') = Cardinality(Recd(asked', Len(asked')))
        /\ \A n \in Recd(asked', Len(asked')) :
             /\ selections'[Cardinality(Recd(asked', n))].capability = asked'[n].call.capability
             /\ selections'[Cardinality(Recd(asked', n))].arguments = asked'[n].call.arguments
    <3>1. InOrder /\ selections' = selections /\ Len(asked') = len /\ len = Len(asked)
      BY <1>4 DEF IInv, Answer, len
    <3> QED
      BY <2>1, <2>2, <2>3, <3>1, <1>2, <1>5
  <2> QED
    BY <2>4 DEF InOrder, Recd
<1>9. NotRepeated'
  <2>1. SUFFICES ASSUME NEW m \in 1 .. len, NEW n \in 1 .. len, m < n,
                        asked'[m].recorded, ~asked'[n].call.more,
                        asked'[n].call = [asked'[m].call EXCEPT !.more = FALSE]
                 PROVE  asked'[n].outcome = "none"
    BY <1>4 DEF NotRepeated
  <2>2. Repeats(asked, m, n)
    BY <2>1, <1>5 DEF Repeats
  <2>3. n # len
    <3>1. \A k \in 1 .. Len(asked) - 1 : ~Repeats(asked, k, Len(asked))
      BY DEF IInv, FirstTime, Answer
    <3> QED
      BY <2>1, <2>2, <3>1, <1>2 DEF len
  <2>4. asked[n].outcome = "none"
    BY <2>1, <2>2, <1>2 DEF IInv, NotRepeated, Repeats
  <2> QED
    BY <2>3, <2>4, <1>5
<1>10. SelectedOnce'
  BY DEF IInv, SelectedOnce, Answer
<1> QED
  BY <1>6, <1>7, <1>8, <1>9, <1>10 DEF IInv

(* Every step preserves the invariant.                                     *)
LEMMA NextPreserves == IInv /\ [Next]_vars => IInv'
<1> SUFFICES ASSUME IInv, [Next]_vars
             PROVE  IInv'
  OBVIOUS
<1>1. rejections \in Nat /\ failures \in Nat /\ deviations \in Nat
      /\ (deviations = 0 => rejections <= failures)
  BY DEF IInv, Shape, FollowingIsAccepted
<1>2. ASSUME NEW call \in Following(PlanNow) \cup Deviating(PlanNow), Ask(PlanNow, call)
      PROVE  IInv'
  BY <1>2, AskPreserves
<1>3. CASE Finish(PlanNow)
  BY <1>1, <1>3, NothingAsked DEF Finish, Reject, run
<1>4. CASE Refuse
  BY <1>1, <1>4, NothingAsked DEF Refuse, Reject, run
<1>5. CASE RefuseForRate
  BY <1>1, <1>5, NothingAsked DEF RefuseForRate, run
<1>6. ASSUME NEW result, Answer(result)
      PROVE  IInv'
  BY <1>6, AnswerPreserves
<1>7. CASE Cancel
  BY <1>1, <1>7, NothingAsked DEF Cancel, run
<1>8. ASSUME NEW earlier, OtherRunEnds(earlier)
      PROVE  IInv'
  BY <1>1, <1>8, NothingAsked DEF OtherRunEnds, run
<1>9. CASE UNCHANGED vars
  BY <1>1, <1>9, NothingAsked DEF vars
<1> QED
  BY <1>2, <1>3, <1>4, <1>5, <1>6, <1>7, <1>8, <1>9 DEF Next, Step, Decide

(* The invariant holds of every run, whatever the constants are.           *)
THEOREM Invariance == Spec => []IInv
BY InitEstablishes, NextPreserves, PTL DEF Spec

-----------------------------------------------------------------------------
(* Selections and results.                                                 *)

(* The calls that succeeded.                                               *)
Done(calls) == {n \in DOMAIN calls : calls[n].outcome = "succeeded"}

DoneInv ==
  /\ phase = "call" => asked # <<>> /\ asked[Len(asked)].outcome = "none"
  /\ SelectedWasDone

LEMMA DoneMeans ==
  SelectedWasDone <=>
    Len(selections) <= Cardinality(Done(asked)) + failures + (IF phase = "call" THEN 1 ELSE 0)
BY DEF SelectedWasDone, Done

(* They are finitely many.                                                 *)
LEMMA DoneFinite ==
  ASSUME IInv
  PROVE  /\ IsFiniteSet(Done(asked)) /\ Cardinality(Done(asked)) \in Nat
         /\ Len(selections) \in Nat /\ failures \in Nat
<1>1. Len(asked) \in Nat /\ DOMAIN asked = 1 .. Len(asked) /\ Len(selections) \in Nat
  BY Appended DEF IInv, Shape
<1>2. IsFiniteSet(1 .. Len(asked))
  <2>1. 1 \in Int /\ Len(asked) \in Int
    BY <1>1
  <2> QED
    BY <2>1, FS_Interval
<1>3. Done(asked) \subseteq 1 .. Len(asked)
  BY <1>1 DEF Done
<1> QED
  BY <1>1, <1>2, <1>3, FS_Subset, FS_CardinalityType DEF IInv, Shape

LEMMA DoneInit == Init => DoneInv
<1> SUFFICES ASSUME Init
             PROVE  DoneInv
  OBVIOUS
<1>1. IInv
  BY InitEstablishes
<1>2. selections = <<>> /\ phase = "plan" /\ failures = 0
  BY DEF Init
<1>3. Len(<<>>) = 0
  OBVIOUS
<1> QED
  BY <1>1, <1>2, <1>3, DoneFinite, DoneMeans DEF DoneInv

(* A recorded call is not turned down: it is carried out, or refused, or   *)
(* fails.                                                                  *)
LEMMA AskDone ==
  ASSUME IInv, DoneInv, phase = "plan", NEW call, Ask(PlanNow, call)
  PROVE  DoneInv'
<1> DEFINE selected == SelectionOf(PlanNow.candidates, call)
           last == [call |-> call, recorded |-> selected # {}, outcome |-> "none"]
           len == Len(asked)
<1>1. asked' = Append(asked, last) /\ last.outcome = "none" /\ failures' = failures
  BY DEF Ask
<1>2. selections' = IF selected = {} THEN selections
                    ELSE Append(selections, CHOOSE action \in selected : TRUE)
  BY DEF Ask
<1>3. IsSequence(asked) /\ IsSequence(selections)
  BY DEF IInv, Shape
<1>4. selected # {} => phase' = "call"
  <2>1. SUFFICES ASSUME NEW action \in selected
                 PROVE  ~Rejected(selections, call)
    BY DEF Ask
  <2>2. /\ action \in PlanNow.candidates
        /\ action.capability = call.capability /\ action.arguments = call.arguments
    BY DEF SelectionOf
  <2>3. ~Rejected(selections, Call(action))
    BY <2>2, CandidatesAreAccepted
  <2> QED
    BY <2>2, <2>3 DEF Rejected, Call
<1> HIDE DEF selected, last, len
<1>5. /\ len \in Nat /\ DOMAIN asked = 1 .. len /\ Len(asked') = len + 1
      /\ DOMAIN asked' = 1 .. len + 1 /\ \A i \in 1 .. len : asked'[i] = asked[i]
      /\ asked'[len + 1] = last
  BY <1>1, <1>3, Appended DEF len
<1>6. Len(selections') = IF selected = {} THEN Len(selections) ELSE Len(selections) + 1
  <2>1. CASE selected = {}
    BY <2>1, <1>2
  <2>2. CASE selected # {}
    <3>1. PICK action : selections' = Append(selections, action)
      BY <2>2, <1>2
    <3> QED
      BY <2>2, <3>1, <1>3, Appended
  <2> QED
    BY <2>1, <2>2
<1>7. Done(asked') = Done(asked)
  BY <1>1, <1>5 DEF Done
<1>8. /\ Len(selections) <= Cardinality(Done(asked)) + failures
      /\ Cardinality(Done(asked)) \in Nat /\ failures \in Nat /\ Len(selections) \in Nat
  BY DoneFinite, DoneMeans DEF DoneInv
<1>9. Len(selections') <= Cardinality(Done(asked')) + failures' + (IF phase' = "call" THEN 1 ELSE 0)
  BY <1>1, <1>4, <1>6, <1>7, <1>8
<1>10. asked' # <<>> /\ asked'[Len(asked')].outcome = "none"
  <2>1. len + 1 \in DOMAIN asked' /\ DOMAIN <<>> = {}
    BY <1>5
  <2> QED
    BY <2>1, <1>1, <1>5
<1> QED
  BY <1>9, <1>10 DEF DoneInv, SelectedWasDone, Done

(* The answer is the first of its call.                                    *)
LEMMA AnswerDone ==
  ASSUME IInv, DoneInv, NEW result, Answer(result)
  PROVE  DoneInv'
<1> DEFINE len == Len(asked)
           outcome == IF result.success THEN "succeeded" ELSE "failed"
<1>1. /\ len \in Nat /\ DOMAIN asked = 1 .. len /\ len \in 1 .. len
      /\ asked[len].outcome = "none" /\ "outcome" \in DOMAIN asked[len]
  <2>1. asked # <<>> /\ asked[len].outcome = "none"
    BY DEF DoneInv, Answer
  <2>2. len \in Nat /\ DOMAIN asked = 1 .. len /\ len \in 1 .. len
    BY <2>1, Appended, EmptySeq DEF IInv, Shape, IsSequence
  <2> QED
    BY <2>1, <2>2 DEF IInv, Shape, AskedOK
<1>2. asked' = [asked EXCEPT ![len] = [asked[len] EXCEPT !.outcome = outcome]]
  BY DEF Answer
<1>3. phase' = "plan" /\ phase = "call" /\ selections' = selections
      /\ failures' = IF result.success THEN failures ELSE failures + 1
  BY DEF Answer
<1> HIDE DEF len
<1>4. /\ DOMAIN asked' = 1 .. len /\ asked'[len].outcome = outcome
      /\ \A n \in 1 .. len : n # len => asked'[n] = asked[n]
  BY <1>1, <1>2
<1>5. len \notin Done(asked)
  BY <1>1 DEF Done
<1>6. Done(asked') = IF result.success THEN Done(asked) \cup {len} ELSE Done(asked)
  BY <1>1, <1>4 DEF Done
<1>7. /\ Len(selections) <= Cardinality(Done(asked)) + failures + 1
      /\ Cardinality(Done(asked)) \in Nat /\ failures \in Nat /\ Len(selections) \in Nat
  BY <1>3, DoneFinite, DoneMeans DEF DoneInv
<1>8. Cardinality(Done(asked) \cup {len}) = Cardinality(Done(asked)) + 1
  BY <1>5, DoneFinite, FS_AddElement
<1>9. Len(selections') <= Cardinality(Done(asked')) + failures'
  BY <1>3, <1>6, <1>7, <1>8
<1>10. Cardinality(Done(asked')) + failures' + 0 = Cardinality(Done(asked')) + failures'
  BY <1>3, <1>6, <1>7, <1>8
<1> QED
  BY <1>3, <1>9, <1>10 DEF DoneInv, SelectedWasDone, Done

(* A refusal counts, and nothing else matters.                             *)
LEMMA NothingDone ==
  ASSUME IInv, DoneInv, UNCHANGED <<asked, selections>>,
         \/ UNCHANGED <<phase, failures>>
         \/ phase' = "plan" /\ failures' = failures + 1
  PROVE  DoneInv'
<1>1. /\ Cardinality(Done(asked)) \in Nat /\ failures \in Nat /\ Len(selections) \in Nat
      /\ Len(selections) <= Cardinality(Done(asked)) + failures + (IF phase = "call" THEN 1 ELSE 0)
  BY DoneFinite, DoneMeans DEF DoneInv
<1>2. Done(asked') = Done(asked)
  OBVIOUS
<1>3. Len(selections') <= Cardinality(Done(asked')) + failures' + (IF phase' = "call" THEN 1 ELSE 0)
  BY <1>1, <1>2
<1> QED
  BY <1>3 DEF DoneInv, SelectedWasDone, Done

LEMMA DoneStep == IInv /\ DoneInv /\ [Next]_vars => DoneInv'
<1> SUFFICES ASSUME IInv, DoneInv, [Next]_vars
             PROVE  DoneInv'
  OBVIOUS
<1>1. ASSUME phase = "plan", NEW call, Ask(PlanNow, call)
      PROVE  DoneInv'
  BY <1>1, AskDone
<1>2. CASE Finish(PlanNow)
  BY <1>2, NothingDone DEF Finish, run
<1>3. CASE Refuse
  BY <1>3, NothingDone DEF Refuse, run
<1>4. CASE RefuseForRate
  BY <1>4, NothingDone DEF RefuseForRate, run
<1>5. ASSUME NEW result, Answer(result)
      PROVE  DoneInv'
  BY <1>5, AnswerDone
<1>6. CASE Cancel
  BY <1>6, NothingDone DEF Cancel, run
<1>7. ASSUME NEW earlier, OtherRunEnds(earlier)
      PROVE  DoneInv'
  BY <1>7, NothingDone DEF OtherRunEnds, run
<1>8. CASE UNCHANGED vars
  BY <1>8, NothingDone DEF vars
<1> QED
  BY <1>1, <1>2, <1>3, <1>4, <1>5, <1>6, <1>7, <1>8 DEF Next, Step, Decide

-----------------------------------------------------------------------------
(* What follows.                                                           *)

(* An agent that follows the plan is rejected only when a tool was refused *)
(* or failed (agent_runtime.rs:697).                                       *)
THEOREM FollowingIsNeverRejected == Spec => []FollowingIsAccepted
<1>1. IInv => FollowingIsAccepted
  BY DEF IInv
<1> QED
  BY <1>1, Invariance, PTL

(* What is selected and not carried out has failed or was refused: a call  *)
(* that is turned down as a repetition leaves no selection                 *)
(* (agent_runtime.rs:681, recon_planner.rs:580).                           *)
THEOREM SelectionsAreDone == Spec => []SelectedWasDone
<1>1. Init => DoneInv
  BY DoneInit
<1>2. IInv /\ DoneInv /\ [Next]_vars => DoneInv'
  BY DoneStep
<1>3. DoneInv => SelectedWasDone
  BY DEF DoneInv
<1> QED
  BY <1>1, <1>2, <1>3, Invariance, PTL DEF Spec

(* A selected call is not executed again, even when other calls and the    *)
(* answers of tools came between (recon_planner.rs:627).                   *)
THEOREM SelectedIsNotRepeated == Spec => []NotRepeated
<1>1. IInv => NotRepeated
  BY DEF IInv
<1> QED
  BY <1>1, Invariance, PTL

(* No action is selected twice, in whatever spelling                       *)
(* (recon_planner.rs:1081).                                                *)
THEOREM NothingIsSelectedTwice == Spec => []SelectedOnce
<1>1. IInv => SelectedOnce
  BY DEF IInv
<1> QED
  BY <1>1, Invariance, PTL


-----------------------------------------------------------------------------
(* What the planner proposes.                                              *)

(* A list that is given by its elements.                                   *)
LEMMA ListOf ==
  ASSUME NEW n \in Nat, NEW f, f = [i \in 1 .. n |-> f[i]]
  PROVE  IsSequence(f) /\ DOMAIN f = 1 .. n
<1> DEFINE S == {f[i] : i \in 1 .. n}
<1>1. f \in [1 .. n -> S]
  OBVIOUS
<1> HIDE DEF S
<1>2. f \in Seq(S)
  BY <1>1
<1> QED
  BY <1>2, SequenceOf

(* Those of a list that pass a test; f is what is written of each.         *)
LEMMA Passed ==
  ASSUME NEW s, IsSequence(s), NEW f, f = [i \in DOMAIN s |-> f[i]],
         \A i \in DOMAIN s : f[i] = <<s[i]>> \/ f[i] = <<>>
  PROVE  /\ IsSequence(FlattenSeq(f))
         /\ \A n \in DOMAIN FlattenSeq(f) : \E i \in DOMAIN s : FlattenSeq(f)[n] = s[i]
<1> DEFINE flat == FlattenSeq(f)
<1>1. Len(s) \in Nat /\ DOMAIN s = 1 .. Len(s)
  BY Listed
<1>2. IsSequence(<<>>) /\ DOMAIN <<>> = {}
  BY DEF IsSequence
<1>3. \A i \in 1 .. Len(s) : IsSequence(f[i])
  BY <1>1, <1>2, One
<1>4. Covers(flat, f, Len(s))
  BY <1>1, <1>3, Flattened
<1> HIDE DEF flat
<1>5. IsSequence(flat)
  BY <1>4 DEF Covers
<1>6. ASSUME NEW n \in DOMAIN flat
      PROVE  \E i \in DOMAIN s : flat[n] = s[i]
  <2>1. PICK i \in 1 .. Len(s), j \in Nat, off \in Nat :
          /\ j \in DOMAIN f[i] /\ n = off + j
          /\ \A l \in DOMAIN f[i] : off + l \in DOMAIN flat /\ flat[off + l] = f[i][l]
    BY <1>4 DEF Covers, Within
  <2>2. flat[n] = f[i][j]
    BY <2>1
  <2>3. f[i] = <<s[i]>> /\ j = 1
    BY <1>1, <1>2, <2>1, One
  <2>4. f[i][j] = s[i]
    BY <2>3, One
  <2> QED
    BY <1>1, <2>2, <2>4
<1> QED
  BY <1>5, <1>6 DEF flat

(* An action is worth no more than this allows. Only a hypothesis proposes *)
(* one that gains more than 75, and that is a probe.                       *)
Modest(g, a) ==
  /\ a.target \in DOMAIN g.assets /\ a.capability \in Capabilities
  /\ a.risk \in {"Passive", "LowImpact"}
  /\ a.gain \in 0 .. 100 /\ (a.capability # "ProbeHttp" => a.gain <= 75)

Fair(g, s) == IsSequence(s) /\ \A n \in DOMAIN s : Modest(g, s[n])

LEMMA FairNone ==
  ASSUME NEW g
  PROVE  Fair(g, <<>>)
BY DEF Fair, IsSequence

LEMMA FairOne ==
  ASSUME NEW g, NEW a, Modest(g, a)
  PROVE  Fair(g, <<a>>)
BY One DEF Fair

LEMMA FairIf ==
  ASSUME NEW g, NEW condition, NEW a, Modest(g, a)
  PROVE  Fair(g, If(condition, a))
BY FairNone, FairOne DEF If

LEMMA FairBoth ==
  ASSUME NEW g, NEW s, NEW t, Fair(g, s), Fair(g, t)
  PROVE  Fair(g, s \o t)
<1>1. IsSequence(s) /\ IsSequence(t)
  BY DEF Fair
<1>2. /\ IsSequence(s \o t) /\ DOMAIN (s \o t) = 1 .. Len(s) + Len(t)
      /\ \A i \in 1 .. Len(s) : (s \o t)[i] = s[i]
      /\ \A i \in 1 .. Len(t) : (s \o t)[Len(s) + i] = t[i]
  BY <1>1, Concatenated
<1>3. /\ Len(s) \in Nat /\ Len(t) \in Nat
      /\ DOMAIN s = 1 .. Len(s) /\ DOMAIN t = 1 .. Len(t)
  BY <1>1, Listed
<1>4. ASSUME NEW n \in DOMAIN (s \o t)
      PROVE  Modest(g, (s \o t)[n])
  <2>1. CASE n \in 1 .. Len(s)
    BY <1>2, <1>3, <2>1 DEF Fair
  <2>2. CASE n \notin 1 .. Len(s)
    <3>1. n - Len(s) \in 1 .. Len(t) /\ Len(s) + (n - Len(s)) = n
      BY <1>2, <1>3, <2>2
    <3>2. (s \o t)[n] = t[n - Len(s)]
      BY <1>2, <3>1
    <3> QED
      BY <1>3, <3>1, <3>2 DEF Fair
  <2> QED
    BY <2>1, <2>2
<1> QED
  BY <1>2, <1>4 DEF Fair

LEMMA FairAll ==
  ASSUME NEW g, NEW n \in Nat, NEW f, f = [i \in 1 .. n |-> f[i]],
         \A i \in 1 .. n : Fair(g, f[i])
  PROVE  Fair(g, FlattenSeq(f))
<1> DEFINE flat == FlattenSeq(f)
<1>1. Covers(flat, f, n)
  BY Flattened DEF Fair
<1> HIDE DEF flat
<1>2. ASSUME NEW m \in DOMAIN flat
      PROVE  Modest(g, flat[m])
  <2>1. PICK i \in 1 .. n, j \in Nat, off \in Nat :
          /\ j \in DOMAIN f[i] /\ m = off + j
          /\ \A l \in DOMAIN f[i] : off + l \in DOMAIN flat /\ flat[off + l] = f[i][l]
    BY <1>1 DEF Covers, Within
  <2>2. flat[m] = f[i][j]
    BY <2>1
  <2> QED
    BY <2>1, <2>2 DEF Fair
<1>3. Fair(g, flat)
  BY <1>1, <1>2 DEF Covers, Fair
<1> QED
  BY <1>3 DEF flat

(* An action for each element of a list.                                   *)
LEMMA FairEach ==
  ASSUME NEW g, NEW s, IsSequence(s), NEW f, f = [n \in DOMAIN s |-> f[n]],
         \A n \in DOMAIN s : Modest(g, f[n])
  PROVE  Fair(g, f)
<1>1. Len(s) \in Nat /\ DOMAIN s = 1 .. Len(s)
  BY Listed
<1>2. IsSequence(f) /\ DOMAIN f = 1 .. Len(s)
  BY <1>1, ListOf
<1> QED
  BY <1>1, <1>2 DEF Fair

LEMMA ModestPassive ==
  ASSUME NEW g, NEW i \in DOMAIN g.assets, NEW capability \in Capabilities, NEW value,
         NEW gain \in {50, 75}
  PROVE  Modest(g, Passive(capability, i, value, gain))
BY DEF Modest, Passive, Action

LEMMA ModestActive ==
  ASSUME NEW g, NEW i \in DOMAIN g.assets, NEW capability \in Capabilities, NEW value,
         NEW gain \in {50, 75}
  PROVE  Modest(g, Active(capability, i, value, gain))
BY DEF Modest, Active, Action

(* Lists of ports and of URLs.                                             *)
LEMMA FirstPorts ==
  IsSequence(SubSeq(Ports, 1, IF Len(Ports) < 8 THEN Len(Ports) ELSE 8))
<1>1. IsSequence(Take(Ports, 8))
  BY InputsAssumption, Taken
<1> QED
  BY <1>1 DEF Take

LEMMA UrlsListed ==
  ASSUME NEW name
  PROVE  IsSequence(ProbeUrls(name))
<1> DEFINE f == [i \in DOMAIN Primary |->
                   IF Lower(Primary[i].host) = Lower(name) THEN <<Primary[i]>> ELSE <<>>]
           primary == FlattenSeq(f)
           allowed == SubSeq(Ports, 1, IF Len(Ports) < 8 THEN Len(Ports) ELSE 8)
           h == [i \in DOMAIN allowed |->
                   IF \A k \in DOMAIN primary : PortOf(primary[k]) # allowed[i]
                   THEN <<allowed[i]>> ELSE <<>>]
           ports == FlattenSeq(h)
           At(port) == CASE port = 80 -> Url("http", name, 0, "/")
                         [] port = 443 -> Url("https", name, 0, "/")
                         [] OTHER -> Url("https", name, port, "/")
           placed == [i \in DOMAIN ports |-> At(ports[i])]
           urls == primary \o placed
           p == [i \in DOMAIN urls |-> IF urls[i].scheme = "http" THEN <<urls[i]>> ELSE <<>>]
           q == [i \in DOMAIN urls |-> IF urls[i].scheme # "http" THEN <<urls[i]>> ELSE <<>>]
<1>1. ProbeUrls(name) = IF urls = <<>> THEN <<Url("https", name, 0, "/")>>
                        ELSE FlattenSeq(p) \o FlattenSeq(q)
  BY DEF ProbeUrls, Those
<1> HIDE DEF At
<1>2. IsSequence(primary)
  <2>1. IsSequence(Primary)
    BY InputsAssumption
  <2>2. f = [i \in DOMAIN Primary |-> f[i]]
        /\ \A i \in DOMAIN Primary : f[i] = <<Primary[i]>> \/ f[i] = <<>>
    OBVIOUS
  <2> HIDE DEF f
  <2> QED
    BY <2>1, <2>2, Passed
<1>3. IsSequence(ports)
  <2>1. IsSequence(allowed)
    BY FirstPorts
  <2>2. h = [i \in DOMAIN allowed |-> h[i]]
        /\ \A i \in DOMAIN allowed : h[i] = <<allowed[i]>> \/ h[i] = <<>>
    OBVIOUS
  <2> HIDE DEF h, allowed
  <2> QED
    BY <2>1, <2>2, Passed
<1> HIDE DEF primary, ports
<1>4. IsSequence(placed)
  <2>1. Len(ports) \in Nat /\ DOMAIN ports = 1 .. Len(ports)
    BY <1>3, Listed
  <2>2. placed = [i \in 1 .. Len(ports) |-> placed[i]]
    BY <2>1
  <2> HIDE DEF placed
  <2> QED
    BY <2>1, <2>2, ListOf
<1> HIDE DEF placed
<1>5. IsSequence(urls)
  BY <1>2, <1>4, Concatenated
<1> HIDE DEF urls
<1>6. IsSequence(FlattenSeq(p))
  <2>1. p = [i \in DOMAIN urls |-> p[i]]
        /\ \A i \in DOMAIN urls : p[i] = <<urls[i]>> \/ p[i] = <<>>
    OBVIOUS
  <2> HIDE DEF p
  <2> QED
    BY <2>1, <1>5, Passed
<1>7. IsSequence(FlattenSeq(q))
  <2>1. q = [i \in DOMAIN urls |-> q[i]]
        /\ \A i \in DOMAIN urls : q[i] = <<urls[i]>> \/ q[i] = <<>>
    OBVIOUS
  <2> HIDE DEF q
  <2> QED
    BY <2>1, <1>5, Passed
<1> HIDE DEF p, q
<1>8. IsSequence(FlattenSeq(p) \o FlattenSeq(q))
  BY <1>6, <1>7, Concatenated
<1> QED
  BY <1>1, <1>8, One

LEMMA UnseenListed ==
  ASSUME NEW g, NEW i
  PROVE  IsSequence(UnseenOrigins(g, i))
<1> DEFINE urls == ProbeUrls(g.assets[i].value.host)
           f == [n \in DOMAIN urls |-> IF ~HttpSeen(g, i, urls[n]) THEN <<urls[n]>> ELSE <<>>]
<1>1. IsSequence(urls)
  BY UrlsListed
<1>2. UnseenOrigins(g, i) = FlattenSeq(f)
  BY DEF UnseenOrigins, Those
<1>3. f = [n \in DOMAIN urls |-> f[n]] /\ \A n \in DOMAIN urls : f[n] = <<urls[n]>> \/ f[n] = <<>>
  OBVIOUS
<1> HIDE DEF f, urls
<1> QED
  BY <1>1, <1>2, <1>3, Passed

LEMMA ProbesFair ==
  ASSUME NEW g, NEW i \in DOMAIN g.assets, NEW urls, IsSequence(urls), NEW gain \in 0 .. 100
  PROVE  Fair(g, ProbeActions(g, i, urls, gain))
<1>1. \A n \in DOMAIN urls : Modest(g, Active("ProbeHttp", i, urls[n], gain))
  BY DEF Modest, Active, Action, Capabilities, ToolFor
<1> DEFINE f == ProbeActions(g, i, urls, gain)
<1>2. f = [n \in DOMAIN urls |-> f[n]] /\ \A n \in DOMAIN urls : Modest(g, f[n])
  BY <1>1 DEF ProbeActions
<1> HIDE DEF f
<1>3. Fair(g, f)
  BY <1>2, FairEach
<1> QED
  BY <1>3 DEF f

LEMMA TcpFair ==
  ASSUME NEW g, NEW i \in DOMAIN g.assets
  PROVE  Fair(g, TcpActions(g, i))
<1> DEFINE allowed == SubSeq(Ports, 1, IF Len(Ports) < 8 THEN Len(Ports) ELSE 8)
           f == [n \in DOMAIN allowed |->
                   IF ~TcpSeen(g, i, allowed[n]) THEN <<allowed[n]>> ELSE <<>>]
           open == FlattenSeq(f)
           h == [n \in DOMAIN open |->
                   Action("ProbeTcpService", i,
                          [Arguments(g.assets[i].value) EXCEPT !.port = open[n]], 50, "LowImpact")]
<1>1. TcpActions(g, i) = h
  BY DEF TcpActions, Those
<1>2. IsSequence(open)
  <2>1. IsSequence(allowed)
    BY FirstPorts
  <2>2. f = [n \in DOMAIN allowed |-> f[n]]
        /\ \A n \in DOMAIN allowed : f[n] = <<allowed[n]>> \/ f[n] = <<>>
    OBVIOUS
  <2> HIDE DEF f, allowed
  <2> QED
    BY <2>1, <2>2, Passed
<1> HIDE DEF open
<1>3. \A n \in DOMAIN open : Modest(g, h[n])
  BY DEF Modest, Action, Capabilities, ToolFor
<1>4. h = [n \in DOMAIN open |-> h[n]]
  OBVIOUS
<1> HIDE DEF h
<1> QED
  BY <1>1, <1>2, <1>3, <1>4, FairEach

(* What an asset calls for.                                                *)
LEMMA ExternalFair ==
  ASSUME NEW g, NEW i \in DOMAIN g.assets
  PROVE  Fair(g, ExternalActions(g, i))
<1>1. "QueryExternalIntelligence" \in Capabilities
  BY DEF Capabilities, ToolFor
<1> QED
  BY <1>1, ModestPassive, FairIf DEF ExternalActions

LEMMA OwnershipFair ==
  ASSUME NEW g, NEW i \in DOMAIN g.assets
  PROVE  Fair(g, OwnershipActions(g, i))
<1>1. "InspectDnsOwnership" \in Capabilities
  BY DEF Capabilities, ToolFor
<1> QED
  BY <1>1, ModestPassive, FairIf DEF OwnershipActions

LEMMA RdapFair ==
  ASSUME NEW g, NEW i \in DOMAIN g.assets, NEW gain \in {50, 75}
  PROVE  Fair(g, RdapActions(g, i, gain))
<1>1. "InspectRdap" \in Capabilities
  BY DEF Capabilities, ToolFor
<1> QED
  BY <1>1, ModestPassive, FairIf DEF RdapActions

LEMMA ValidationFair ==
  ASSUME NEW g, NEW i \in DOMAIN g.assets
  PROVE  Fair(g, ValidationActions(g, i))
<1>1. "ValidateUrlMetadata" \in Capabilities
  BY DEF Capabilities, ToolFor
<1> QED
  BY <1>1, ModestActive, FairIf DEF ValidationActions

LEMMA HostFair ==
  ASSUME NEW g, NEW i \in DOMAIN g.assets
  PROVE  Fair(g, HostActions(g, i))
<1>1. "ResolveDns" \in Capabilities
  BY DEF Capabilities, ToolFor
<1>2. Fair(g, If(~Seen(g, i, "DnsQuery"), Passive("ResolveDns", i, g.assets[i].value, 50)))
  BY <1>1, ModestPassive, FairIf
<1>3. Fair(g, ProbeActions(g, i, UnseenOrigins(g, i), 75))
  BY UnseenListed, ProbesFair
<1> QED
  BY <1>2, <1>3, TcpFair, FairBoth DEF HostActions

LEMMA RootFair ==
  ASSUME NEW g, NEW i \in DOMAIN g.assets
  PROVE  Fair(g, RootActions(g, i))
<1> DEFINE value == g.assets[i].value
           certificates == If(~Seen(g, i, "CertificateTransparency"),
                              Passive("SearchCertificateTransparency", i, value, 75))
           archive == If(~Seen(g, i, "WebArchive"), Passive("LookupWebArchive", i, value, 75))
<1>1. "SearchCertificateTransparency" \in Capabilities /\ "LookupWebArchive" \in Capabilities
  BY DEF Capabilities, ToolFor
<1>2. Fair(g, certificates) /\ Fair(g, archive)
  BY <1>1, ModestPassive, FairIf
<1>3. RootActions(g, i) = ExternalActions(g, i) \o RdapActions(g, i, 50) \o certificates
                          \o archive \o OwnershipActions(g, i) \o HostActions(g, i)
  BY DEF RootActions
<1> HIDE DEF certificates, archive
<1>4. Fair(g, ExternalActions(g, i) \o RdapActions(g, i, 50))
  BY ExternalFair, RdapFair, FairBoth
<1>5. Fair(g, ExternalActions(g, i) \o RdapActions(g, i, 50) \o certificates)
  BY <1>2, <1>4, FairBoth
<1>6. Fair(g, ExternalActions(g, i) \o RdapActions(g, i, 50) \o certificates \o archive)
  BY <1>2, <1>5, FairBoth
<1>7. Fair(g, ExternalActions(g, i) \o RdapActions(g, i, 50) \o certificates \o archive
              \o OwnershipActions(g, i))
  BY <1>6, OwnershipFair, FairBoth
<1> QED
  BY <1>3, <1>7, HostFair, FairBoth

LEMMA ServiceFair ==
  ASSUME NEW g, NEW i \in DOMAIN g.assets
  PROVE  Fair(g, ServiceActions(g, i))
<1> DEFINE value == g.assets[i].value
           discovery == [Arguments(value) EXCEPT !.paths = DiscoveryPaths(g, i)]
           content == If(~Seen(g, i, "ContentDiscovery"),
                         Action("DiscoverContent", i, discovery, 75, "LowImpact"))
           sitemap == If(~Seen(g, i, "Sitemap"), Active("FetchSitemap", i, value, 75))
           robots == If(~Seen(g, i, "RobotsTxt"), Active("FetchRobotsTxt", i, value, 50))
<1>1. "FetchSitemap" \in Capabilities /\ "FetchRobotsTxt" \in Capabilities
  BY DEF Capabilities, ToolFor
<1>2. ServiceActions(g, i) = content \o sitemap \o robots
  BY DEF ServiceActions
<1> HIDE DEF discovery
<1>3. Modest(g, Action("DiscoverContent", i, discovery, 75, "LowImpact"))
  BY DEF Modest, Action, Capabilities, ToolFor
<1>4. Fair(g, content)
  BY <1>3, FairIf
<1>5. Fair(g, sitemap) /\ Fair(g, robots)
  BY <1>1, ModestActive, FairIf
<1> HIDE DEF content, sitemap, robots
<1> QED
  BY <1>2, <1>4, <1>5, FairBoth

LEMMA UrlFair ==
  ASSUME NEW g, NEW i \in DOMAIN g.assets
  PROVE  Fair(g, UrlActions(g, i))
<1> DEFINE asset == g.assets[i]
           analyzed == Seen(g, i, "WebPageAnalysis")
           page == <<"web", "discovered_link">> \in asset.tags
                   \/ (<<"http", "observed">> \in asset.tags /\ SuccessfulPage(asset))
           map == IF IsSourceMap(asset) THEN ValidationActions(g, i) ELSE <<>>
           analysis == If(page /\ ~analyzed, Active("AnalyzeWebPage", i, asset.value, 75))
           browser == If(analyzed /\ ~Seen(g, i, "AdaptiveBrowser"),
                         Active("AdaptiveBrowserRecon", i, asset.value, 75))
           visual == If((analyzed \/ Seen(g, i, "HttpProbe")) /\ ~Seen(g, i, "VisualAnalysis"),
                        Active("AnalyzeVisualPage", i, asset.value, 50))
<1>1. /\ "AnalyzeWebPage" \in Capabilities /\ "AdaptiveBrowserRecon" \in Capabilities
      /\ "AnalyzeVisualPage" \in Capabilities
  BY DEF Capabilities, ToolFor
<1>2. UrlActions(g, i) = map \o analysis \o browser \o visual
  BY DEF UrlActions
<1>3. Fair(g, map)
  BY ValidationFair, FairNone
<1>4. Fair(g, analysis) /\ Fair(g, browser) /\ Fair(g, visual)
  BY <1>1, ModestActive, FairIf
<1> HIDE DEF map, analysis, browser, visual
<1>5. Fair(g, map \o analysis)
  BY <1>3, <1>4, FairBoth
<1>6. Fair(g, map \o analysis \o browser)
  BY <1>4, <1>5, FairBoth
<1> QED
  BY <1>2, <1>4, <1>6, FairBoth

LEMMA AssetFair ==
  ASSUME NEW g, NEW i \in DOMAIN g.assets
  PROVE  Fair(g, AssetActions(g, i))
<1> DEFINE asset == g.assets[i]
           script == If(~Seen(g, i, "JavascriptAnalysis"),
                        Active("AnalyzeJavascript", i, asset.value, 75))
           api == If(DescribesApi(asset.value) /\ ~Seen(g, i, "ApiDescription"),
                     Active("DescribeApi", i, asset.value, 75))
           name == ExternalActions(g, i) \o OwnershipActions(g, i) \o HostActions(g, i)
           address == ExternalActions(g, i) \o RdapActions(g, i, 75) \o TcpActions(g, i)
                      \o ProbeActions(g, i, UnseenOrigins(g, i), 75)
<1>1. AssetActions(g, i) =
        IF asset.scope # "InScope" THEN <<>>
        ELSE CASE asset.kind = "RootDomain" -> RootActions(g, i)
               [] asset.kind = "Subdomain" -> name
               [] asset.kind \in {"HistoricalUrl", "Endpoint"} -> ValidationActions(g, i)
               [] asset.kind = "IpAddress" -> address
               [] asset.kind = "HttpService" -> ServiceActions(g, i)
               [] asset.kind = "Url" -> UrlActions(g, i)
               [] asset.kind = "JavascriptBundle" -> script
               [] asset.kind = "Api" -> api
               [] OTHER -> <<>>
  BY DEF AssetActions
<1>2. Fair(g, script) /\ Fair(g, api)
  <2>1. "AnalyzeJavascript" \in Capabilities /\ "DescribeApi" \in Capabilities
    BY DEF Capabilities, ToolFor
  <2> QED
    BY <2>1, ModestActive, FairIf
<1>3. Fair(g, name)
  <2>1. Fair(g, ExternalActions(g, i) \o OwnershipActions(g, i))
    BY ExternalFair, OwnershipFair, FairBoth
  <2> QED
    BY <2>1, HostFair, FairBoth
<1>4. Fair(g, address)
  <2>1. Fair(g, ExternalActions(g, i) \o RdapActions(g, i, 75))
    BY ExternalFair, RdapFair, FairBoth
  <2>2. Fair(g, ExternalActions(g, i) \o RdapActions(g, i, 75) \o TcpActions(g, i))
    BY <2>1, TcpFair, FairBoth
  <2>3. Fair(g, ProbeActions(g, i, UnseenOrigins(g, i), 75))
    BY UnseenListed, ProbesFair
  <2> QED
    BY <2>2, <2>3, FairBoth
<1>5. Fair(g, RootActions(g, i)) /\ Fair(g, ValidationActions(g, i))
  BY RootFair, ValidationFair
<1>6. Fair(g, ServiceActions(g, i)) /\ Fair(g, UrlActions(g, i)) /\ Fair(g, <<>>)
  BY ServiceFair, UrlFair, FairNone
<1> HIDE DEF asset, script, api, name, address
<1> QED
  BY <1>1, <1>2, <1>3, <1>4, <1>5, <1>6

(* What a hypothesis calls for. It is about an asset that is known.        *)
HypothesisFits(g, h) == h.subject \in DOMAIN g.assets /\ h.priority \in {2, 3, 4}

HypothesesFit(hs, g) == IsSequence(hs) /\ \A n \in DOMAIN hs : HypothesisFits(g, hs[n])

LEMMA HypothesisFair ==
  ASSUME NEW g, NEW h, HypothesisFits(g, h)
  PROVE  Fair(g, HypothesisActions(g, h))
<1> DEFINE asset == g.assets[h.subject]
           urls == IF asset.value.scheme # "" THEN <<asset.value>> ELSE ProbeUrls(asset.value.host)
           probes == ProbeActions(g, h.subject, urls, GainOf(h.priority))
           validation == ValidationActions(g, h.subject)
<1>1. HypothesisActions(g, h) =
        CASE asset.scope = "InScope" /\ h.capability = "ValidateUrlMetadata" -> validation
          [] asset.scope = "InScope" /\ h.capability = "ProbeHttp" -> probes
          [] OTHER -> <<>>
  BY DEF HypothesisActions
<1>2. IsSequence(urls)
  BY UrlsListed, One
<1>3. GainOf(h.priority) \in 0 .. 100
  BY DEF HypothesisFits, GainOf
<1> HIDE DEF urls
<1>4. Fair(g, probes)
  BY <1>2, <1>3, ProbesFair DEF HypothesisFits
<1>5. Fair(g, validation) /\ Fair(g, <<>>)
  BY ValidationFair, FairNone DEF HypothesisFits
<1> HIDE DEF probes, validation, asset
<1> QED
  BY <1>1, <1>4, <1>5

(* A set of positions in which each is preceded by all before it.          *)
LEMMA Prefix ==
  ASSUME NEW n \in Nat, NEW V, V \subseteq 1 .. n, \A i \in V : 1 .. i \subseteq V
  PROVE  \E m \in Nat : V = 1 .. m
<1> SUFFICES ASSUME \A m \in Nat : V # 1 .. m
             PROVE  FALSE
  OBVIOUS
<1> DEFINE S == {m \in Nat : 1 .. m \subseteq V}
<1>1. 0 \in S
  OBVIOUS
<1>2. ASSUME NEW m \in Nat, m \in S
      PROVE  m + 1 \in S
  <2>1. 1 .. m \subseteq V /\ V # 1 .. m
    BY <1>2
  <2>2. PICK i \in V : i \notin 1 .. m
    BY <2>1
  <2>3. i \in Nat /\ i >= m + 1 /\ 1 .. i \subseteq V
    BY <2>2
  <2> QED
    BY <2>3
<1>3. n + 1 \in S
  <2> HIDE DEF S
  <2>1. n + 1 \in Nat
    OBVIOUS
  <2> QED
    BY <1>1, <1>2, <2>1, SetInduction
<1> QED
  BY <1>3

(* Numbering changes nothing that counts.                                  *)
LEMMA NumberedFair ==
  ASSUME NEW g, NEW s, Fair(g, s)
  PROVE  Fair(g, Numbered(s))
<1> DEFINE f == Numbered(s)
<1>1. IsSequence(s)
  BY DEF Fair
<1>2. f = [n \in DOMAIN s |-> f[n]] /\ \A n \in DOMAIN s : Modest(g, f[n])
  BY DEF Numbered, Fair, Modest
<1> HIDE DEF f
<1>3. Fair(g, f)
  BY <1>1, <1>2, FairEach
<1> QED
  BY <1>3 DEF f

(* All that is proposed, for hypotheses or for assets.                     *)
LEMMA ProposalsFair ==
  ASSUME NEW g, IsSequence(g.assets), NEW hs, HypothesesFit(hs, g)
  PROVE  Fair(g, Proposals(g, hs))
<1> DEFINE f == [n \in DOMAIN hs |-> IF Open(hs[n]) THEN <<hs[n]>> ELSE <<>>]
           open == FlattenSeq(f)
           first == SubSeq(open, 1, IF Len(open) < 16 THEN Len(open) ELSE 16)
           wanted == [n \in DOMAIN first |-> HypothesisActions(g, first[n])]
           start == FlattenSeq(wanted)
           actions == [i \in DOMAIN g.assets |-> AssetActions(g, i)]
           Full(i) == /\ g.assets[i].scope = "InScope"
                      /\ Len(start \o FlattenSeq(SubSeq(actions, 1, i))) >= 2 * MaxCandidates
           visited == {i \in DOMAIN g.assets : \A j \in 1 .. i - 1 : ~Full(j)}
           found == [i \in visited |-> actions[i]]
<1>1. Proposals(g, hs) = Numbered(start \o FlattenSeq(found))
  BY DEF Proposals, Those
<1>2. Fair(g, start)
  <2>1. IsSequence(hs) /\ \A n \in DOMAIN hs : HypothesisFits(g, hs[n])
    BY DEF HypothesesFit
  <2>2. f = [n \in DOMAIN hs |-> f[n]] /\ \A n \in DOMAIN hs : f[n] = <<hs[n]>> \/ f[n] = <<>>
    OBVIOUS
  <2> HIDE DEF f
  <2>3. IsSequence(open) /\ \A n \in DOMAIN open : \E i \in DOMAIN hs : open[n] = hs[i]
    BY <2>1, <2>2, Passed
  <2> HIDE DEF open
  <2>4. first = Take(open, 16)
    BY DEF Take
  <2> HIDE DEF first
  <2>5. IsSequence(first) /\ \A n \in DOMAIN first : n \in DOMAIN open /\ first[n] = open[n]
    BY <2>3, <2>4, Taken
  <2>6. \A n \in DOMAIN first : HypothesisFits(g, first[n])
    BY <2>1, <2>3, <2>5
  <2>7. Len(first) \in Nat /\ DOMAIN first = 1 .. Len(first)
    BY <2>5, Listed
  <2>8. wanted = [n \in 1 .. Len(first) |-> wanted[n]]
        /\ \A n \in 1 .. Len(first) : Fair(g, wanted[n])
    BY <2>6, <2>7, HypothesisFair
  <2> HIDE DEF wanted
  <2> QED
    BY <2>7, <2>8, FairAll
<1> HIDE DEF start, Full
<1>3. Len(g.assets) \in Nat /\ DOMAIN g.assets = 1 .. Len(g.assets)
  BY Listed
<1>4. PICK m \in Nat : visited = 1 .. m
  <2>1. visited \subseteq 1 .. Len(g.assets)
    BY <1>3
  <2>2. ASSUME NEW i \in visited, NEW k \in 1 .. i
        PROVE  k \in visited
    <3>1. /\ i \in 1 .. Len(g.assets) /\ k \in 1 .. Len(g.assets)
          /\ \A j \in 1 .. k - 1 : j \in 1 .. i - 1
      BY <1>3, <2>1, <2>2
    <3> QED
      BY <1>3, <2>2, <3>1
  <2> HIDE DEF visited
  <2> QED
    BY <1>3, <2>1, <2>2, Prefix
<1>5. \A i \in visited : Fair(g, found[i])
  BY AssetFair
<1>6. found = [i \in 1 .. m |-> found[i]]
  BY <1>4
<1> HIDE DEF found, visited
<1>7. Fair(g, FlattenSeq(found))
  BY <1>4, <1>5, <1>6, FairAll
<1>8. Fair(g, start \o FlattenSeq(found))
  BY <1>2, <1>7, FairBoth
<1> QED
  BY <1>1, <1>8, NumberedFair

-----------------------------------------------------------------------------
(* What it is worth.                                                       *)

LEMMA Worthwhile ==
  ASSUME NEW capability \in Capabilities
  PROVE  /\ Relevance[capability] \in Int /\ Cost[capability] \in Int
         /\ Relevance[capability] - Cost[capability] <= 85
         /\ capability = "ProbeHttp" => Relevance[capability] - Cost[capability] <= 60
BY DEF Capabilities, ToolFor, Relevance, Cost

LEMMA WorthBounded ==
  ASSUME NEW g, NEW a, Modest(g, a), g.assets[a.target].confidence \in Confidences
  PROVE  Worth(g, a) \in Int /\ Worth(g, a) <= 260
<1> DEFINE c == a.capability
           wild == IF OnlyWildcard(g.assets[a.target]) THEN 40 ELSE 0
           sure == Sureness[g.assets[a.target].confidence]
<1>1. /\ Relevance[c] \in Int /\ Cost[c] \in Int /\ Relevance[c] - Cost[c] <= 85
      /\ c = "ProbeHttp" => Relevance[c] - Cost[c] <= 60
  BY Worthwhile DEF Modest
<1>2. wild \in Int /\ wild >= 0
  OBVIOUS
<1>3. sure \in Int /\ sure <= 100
  BY DEF Sureness, Confidences
<1>4. RiskPenalty[a.risk] \in Int /\ RiskPenalty[a.risk] >= 0
  BY DEF Modest, RiskPenalty
<1>5. a.gain \in Int /\ a.gain <= 100 /\ (c # "ProbeHttp" => a.gain <= 75)
  BY DEF Modest
<1>6. Worth(g, a) = a.gain + (Relevance[c] - wild) + sure - Cost[c] - RiskPenalty[a.risk]
  BY DEF Worth
<1> HIDE DEF c, wild, sure
<1> QED
  BY <1>1, <1>2, <1>3, <1>4, <1>5, <1>6

(* The bonus of an action is that of a hypothesis it helps to decide.      *)
LEMMA BonusPositive ==
  ASSUME NEW g, NEW hs, HypothesesFit(hs, g), NEW a
  PROVE  Bonus(hs, a) = 0 \/ Bonus(hs, a) > 0
<1> DEFINE urgent == Urgent(hs, HelpedBy(hs, a))
<1>1. CASE urgent = {}
  BY <1>1 DEF Bonus
<1>2. CASE urgent # {}
  <2>1. PICK n \in urgent : Bonus(hs, a) = BonusOf(hs[n].priority)
    BY <1>2 DEF Bonus
  <2>2. n \in DOMAIN hs
    BY DEF Urgent, HelpedBy
  <2>3. hs[n].priority \in {2, 3, 4}
    BY <2>2 DEF HypothesesFit, HypothesisFits
  <2> QED
    BY <2>1, <2>3 DEF BonusOf
<1> QED
  BY <1>1, <1>2

(* The confidence of every asset is one.                                   *)
Fits(g) ==
  /\ "assets" \in DOMAIN g /\ IsSequence(g.assets)
  /\ \A i \in DOMAIN g.assets : /\ "confidence" \in DOMAIN g.assets[i]
                                /\ g.assets[i].confidence \in Confidences

(* What is recommended was proposed, is modest, and scores enough.         *)
LEMMA RecommendedScores ==
  ASSUME NEW g, Fits(g), NEW hs, HypothesesFit(hs, g), NEW chosen, NEW memory,
         NEW a \in Plan(g, hs, chosen, memory).recommended
  PROVE  Modest(g, a) /\ Score(g, hs, chosen, memory, a) >= MinScore
<1> DEFINE proposals == Proposals(g, hs)
           gaps == Deduplicated(proposals)
<1>1. a \in gaps /\ Score(g, hs, chosen, memory, a) >= MinScore
  <2>1. a \in PlanOf(gaps, g, hs, chosen, memory).recommended
    BY DEF Plan
  <2> HIDE DEF gaps
  <2> DEFINE candidates == First({action \in gaps : ~Blocked(chosen, action)}, MaxCandidates)
             scores == [action \in candidates |-> Score(g, hs, chosen, memory, action)]
             best == {x \in candidates : \A y \in candidates \ {x} :
                        scores[x] > scores[y] \/ (scores[x] = scores[y] /\ Before(x, y))}
  <2>2. PlanOf(gaps, g, hs, chosen, memory).recommended = {x \in best : scores[x] >= MinScore}
    BY DEF PlanOf
  <2>3. a \in candidates /\ scores[a] >= MinScore
    BY <2>1, <2>2
  <2>4. scores[a] = Score(g, hs, chosen, memory, a)
    BY <2>3
  <2> QED
    BY <2>3, <2>4 DEF First
<1>2. Fair(g, proposals)
  BY ProposalsFair DEF Fits
<1> HIDE DEF proposals
<1>3. PICK n \in DOMAIN proposals : a = proposals[n]
  BY <1>1 DEF Deduplicated
<1> QED
  BY <1>1, <1>2, <1>3 DEF Fair

(* What was done four times is worth no more than 160 without a bonus.     *)
LEMMA WornAction ==
  ASSUME NEW g, Fits(g), NEW hs, HypothesesFit(hs, g), NEW chosen, NEW memory,
         IsFiniteSet(DOMAIN chosen), IsFiniteSet(DOMAIN memory),
         NEW a \in Plan(g, hs, chosen, memory).recommended, Similar(chosen, memory, a) >= 4
  PROVE  Bonus(hs, a) > 0
<1> DEFINE similar == Similar(chosen, memory, a)
<1>1. Modest(g, a) /\ Score(g, hs, chosen, memory, a) >= MinScore
  BY RecommendedScores
<1>2. Worth(g, a) \in Int /\ Worth(g, a) <= 260
  BY <1>1, WorthBounded DEF Fits, Modest
<1>3. similar \in Int
  <2> DEFINE mine == {n \in DOMAIN chosen : /\ chosen[n].capability = a.capability
                                            /\ chosen[n].target = a.target}
             theirs == {n \in DOMAIN memory : Equivalent(memory[n], a)}
  <2>1. IsFiniteSet(mine) /\ IsFiniteSet(theirs)
    BY FS_Subset
  <2>2. Cardinality(mine) \in Nat /\ Cardinality(theirs) \in Nat
    BY <2>1, FS_CardinalityType
  <2>3. similar = Cardinality(mine) + Cardinality(theirs)
    BY DEF Similar
  <2> QED
    BY <2>2, <2>3
<1>4. Novelty(similar) = 0 /\ RepetitionPenalty(similar) = 100
  BY <1>3 DEF Novelty, RepetitionPenalty
<1>5. Score(g, hs, chosen, memory, a) =
        Worth(g, a) + Novelty(similar) - RepetitionPenalty(similar) + Bonus(hs, a)
  BY DEF Score
<1>6. Bonus(hs, a) = 0 \/ Bonus(hs, a) > 0
  BY BonusPositive
<1> HIDE DEF similar
<1>7. CASE Bonus(hs, a) = 0
  BY <1>1, <1>2, <1>4, <1>5, <1>7 DEF MinScore
<1> QED
  BY <1>6, <1>7

-----------------------------------------------------------------------------
(* The graph and the hypotheses that the planner is given.                 *)

(* The graph after each of the steps: the function exists.                 *)
LEMMA BuiltBy ==
  ASSUME NEW g, NEW steps, IsSequence(steps)
  PROVE  \E h : /\ h = [n \in 0 .. Len(steps) |->
                          IF n = 0 THEN g ELSE Applied(h[n - 1], steps[n], {})]
                /\ Built(g, steps) = h[Len(steps)]
<1> DEFINE By(h, m) == h = [n \in 0 .. m |-> IF n = 0 THEN g ELSE Applied(h[n - 1], steps[n], {})]
           S == {m \in Nat : \E h : By(h, m)}
<1>1. 0 \in S
  <2> DEFINE h == [n \in 0 .. 0 |-> g]
  <2>1. By(h, 0)
    OBVIOUS
  <2> QED
    BY <2>1
<1>2. ASSUME NEW m \in Nat, m \in S
      PROVE  m + 1 \in S
  <2>1. PICK h : By(h, m)
    BY <1>2
  <2> DEFINE k == [n \in 0 .. m + 1 |->
                     IF n = m + 1 THEN Applied(h[m], steps[m + 1], {}) ELSE h[n]]
  <2>2. ASSUME NEW n \in 0 .. m + 1
        PROVE  k[n] = IF n = 0 THEN g ELSE Applied(k[n - 1], steps[n], {})
    <3>1. CASE n = m + 1
      <4>1. n # 0 /\ n - 1 = m /\ m \in 0 .. m + 1 /\ m # m + 1
        BY <3>1
      <4>2. k[m] = h[m] /\ k[n] = Applied(h[m], steps[n], {})
        BY <3>1, <4>1
      <4> QED
        BY <4>1, <4>2
    <3>2. CASE n # m + 1
      <4>1. n \in 0 .. m /\ k[n] = h[n]
        BY <3>2
      <4>2. n # 0 => n - 1 \in 0 .. m + 1 /\ n - 1 # m + 1
        BY <4>1
      <4>3. n # 0 => k[n - 1] = h[n - 1]
        BY <4>2
      <4>4. h[n] = IF n = 0 THEN g ELSE Applied(h[n - 1], steps[n], {})
        BY <2>1, <4>1
      <4> HIDE DEF k
      <4> QED
        BY <4>1, <4>3, <4>4
    <3> QED
      BY <3>1, <3>2
  <2>3. By(k, m + 1)
    <3> HIDE DEF k
    <3>1. k = [n \in 0 .. m + 1 |-> k[n]]
      BY DEF k
    <3> QED
      BY <2>2, <3>1
  <2>4. \E h2 : By(h2, m + 1)
    <3> HIDE DEF k, By
    <3> QED
      BY <2>3
  <2> HIDE DEF By
  <2> QED
    BY <2>4
<1>3. Len(steps) \in Nat
  BY Listed
<1>4. Len(steps) \in S
  <2> HIDE DEF S
  <2> QED
    BY <1>1, <1>2, <1>3, SetInduction
<1>5. PICK h : By(h, Len(steps))
  BY <1>4
<1> DEFINE chosen == CHOOSE h2 : h2 = [n \in 0 .. Len(steps) |->
                       IF n = 0 THEN g ELSE Applied(h2[n - 1], steps[n], {})]
<1>6. By(chosen, Len(steps))
  BY <1>5, Zenon
<1>7. Built(g, steps) = chosen[Len(steps)]
  BY DEF Built
<1> QED
  BY <1>6, <1>7

(* An asset replaced or added keeps every asset there.                     *)
LEMMA FitsReplaced ==
  ASSUME NEW g, Fits(g), NEW k, NEW x, "confidence" \in DOMAIN x, x.confidence \in Confidences,
         NEW h, h = [g EXCEPT !.assets = [g.assets EXCEPT ![k] = x]]
  PROVE  Fits(h) /\ DOMAIN g.assets \subseteq DOMAIN h.assets
<1>1. IsSequence(g.assets) /\ "assets" \in DOMAIN g
  BY DEF Fits
<1>2. h.assets = [g.assets EXCEPT ![k] = x] /\ "assets" \in DOMAIN h
  BY <1>1
<1> DEFINE s == [g.assets EXCEPT ![k] = x]
<1>3. /\ IsSequence(s) /\ DOMAIN s = DOMAIN g.assets
      /\ \A i \in DOMAIN g.assets : s[i] = IF i = k THEN x ELSE g.assets[i]
  BY <1>1, Replaced
<1>4. h.assets = s
  BY <1>2
<1> HIDE DEF s
<1> QED
  BY <1>2, <1>3, <1>4 DEF Fits

LEMMA FitsAppended ==
  ASSUME NEW g, Fits(g), NEW x, "confidence" \in DOMAIN x, x.confidence \in Confidences,
         NEW h, h = [g EXCEPT !.assets = Append(g.assets, x)]
  PROVE  Fits(h) /\ DOMAIN g.assets \subseteq DOMAIN h.assets
<1>1. IsSequence(g.assets) /\ "assets" \in DOMAIN g
  BY DEF Fits
<1>2. h.assets = Append(g.assets, x) /\ "assets" \in DOMAIN h
  BY <1>1
<1> DEFINE s == Append(g.assets, x)
           len == Len(g.assets)
<1>3. len \in Nat /\ DOMAIN g.assets = 1 .. len
  BY <1>1, Listed
<1>4. /\ IsSequence(s) /\ DOMAIN s = 1 .. len + 1
      /\ \A i \in 1 .. len : s[i] = g.assets[i]
      /\ s[len + 1] = x
  BY <1>1, Appended
<1>5. h.assets = s
  BY <1>2
<1> HIDE DEF s, len
<1>6. \A i \in DOMAIN s : i \in DOMAIN g.assets \/ i = len + 1
  BY <1>3, <1>4
<1> QED
  BY <1>2, <1>3, <1>4, <1>5, <1>6 DEF Fits

(* A step keeps every asset there, and gives it a confidence.              *)
LEMMA AppliedFits ==
  ASSUME NEW g, Fits(g), NEW step, StepOK(step), NEW h, h = Applied(g, step, {})
  PROVE  Fits(h) /\ DOMAIN g.assets \subseteq DOMAIN h.assets
<1> DEFINE k == IdOf(g, step.key)
<1>1. IsSequence(g.assets) /\ "assets" \in DOMAIN g
  BY DEF Fits
<1>4. ASSUME h.assets = g.assets, "assets" \in DOMAIN h
      PROVE  Fits(h) /\ DOMAIN g.assets \subseteq DOMAIN h.assets
  BY <1>4 DEF Fits
<1>5. CASE step.do = "ensure"
  <2>1. h = Ensured(g, step.key, step.confidence) /\ step.confidence \in Confidences
    BY <1>5 DEF Applied, StepOK
  <2>2. CASE Known(g, step.key)
    <3> DEFINE a == g.assets[k]
               x == [a EXCEPT !.confidence = Stronger(a.confidence, step.confidence)]
    <3>1. k \in DOMAIN g.assets
      BY <2>2 DEF Known, IdOf
    <3>2. "confidence" \in DOMAIN a /\ a.confidence \in Confidences
      BY <3>1 DEF Fits
    <3>3. "confidence" \in DOMAIN x /\ x.confidence \in Confidences
      BY <2>1, <3>2, StrongerKeeps
    <3>4. h = [g EXCEPT !.assets = [g.assets EXCEPT ![k] = x]]
      BY <1>1, <2>1, <2>2 DEF Ensured
    <3> HIDE DEF x, k
    <3> QED
      BY <3>3, <3>4, FitsReplaced
  <2>3. CASE ~Known(g, step.key)
    <3> DEFINE x == [kind |-> step.key.kind, value |-> step.key.value,
                     scope |-> ScopeOf(step.key), confidence |-> step.confidence, tags |-> {}]
    <3>1. "confidence" \in DOMAIN x /\ x.confidence \in Confidences
      BY <2>1
    <3>2. h = [g EXCEPT !.assets = Append(g.assets, x)]
      BY <2>1, <2>3 DEF Ensured
    <3> HIDE DEF x
    <3> QED
      BY <3>1, <3>2, FitsAppended
  <2> QED
    BY <2>2, <2>3
<1>6. CASE step.do = "enrich"
  <2> DEFINE a == g.assets[k]
             x == EnrichedAsset(a, step.tags)
  <2>1. h = [g EXCEPT !.assets = [g.assets EXCEPT ![k] = x]]
    BY <1>1, <1>6 DEF Applied, Enriched
  <2>2. CASE k \in DOMAIN g.assets
    <3>1. "confidence" \in DOMAIN a /\ a.confidence \in Confidences
      BY <2>2 DEF Fits
    <3>2. Corroborated(a.confidence, a.tags \cup step.tags) \in Confidences
      BY <3>1, CorroboratedKeeps
    <3>3. "confidence" \in DOMAIN x /\ x.confidence \in Confidences
      BY <3>1, <3>2 DEF EnrichedAsset
    <3> HIDE DEF x, k
    <3> QED
      BY <2>1, <3>3, FitsReplaced
  <2>3. CASE k \notin DOMAIN g.assets
    <3> HIDE DEF x, k
    <3>1. [g.assets EXCEPT ![k] = x] = g.assets
      BY <1>1, <2>3 DEF IsSequence
    <3>2. h.assets = g.assets /\ "assets" \in DOMAIN h
      BY <1>1, <2>1, <3>1
    <3> QED
      BY <1>4, <3>2
  <2> QED
    BY <2>2, <2>3
<1>7. CASE step.do \notin {"ensure", "enrich"}
  <2>1. h.assets = g.assets /\ "assets" \in DOMAIN h
    <3>1. CASE step.do = "relate"
      BY <1>1, <3>1 DEF Applied, Related
    <3>2. CASE step.do # "relate"
      BY <1>1, <1>7, <3>2 DEF Applied, Observed
    <3> QED
      BY <3>1, <3>2
  <2> QED
    BY <1>4, <2>1
<1> QED
  BY <1>5, <1>6, <1>7

LEMMA BuiltFits ==
  ASSUME NEW g, Fits(g), NEW steps, IsSequence(steps),
         \A n \in DOMAIN steps : StepOK(steps[n])
  PROVE  Fits(Built(g, steps)) /\ DOMAIN g.assets \subseteq DOMAIN Built(g, steps).assets
<1> DEFINE len == Len(steps)
<1>1. len \in Nat /\ DOMAIN steps = 1 .. len
  BY Listed
<1>2. PICK h : /\ h = [n \in 0 .. len |-> IF n = 0 THEN g ELSE Applied(h[n - 1], steps[n], {})]
               /\ Built(g, steps) = h[len]
  BY BuiltBy
<1> HIDE DEF len
<1> DEFINE Good(n) == Fits(h[n]) /\ DOMAIN g.assets \subseteq DOMAIN h[n].assets
           S == {n \in Nat : n <= len => Good(n)}
<1>3. 0 \in S
  <2>1. h[0] = g
    BY <1>1, <1>2
  <2> QED
    BY <2>1
<1>4. ASSUME NEW n \in Nat, n \in S
      PROVE  n + 1 \in S
  <2> SUFFICES ASSUME n + 1 <= len
               PROVE  Good(n + 1)
    OBVIOUS
  <2>1. Good(n)
    BY <1>1, <1>4
  <2> DEFINE m == n + 1
  <2>2. m \in 0 .. len /\ m # 0 /\ m - 1 = n /\ m \in DOMAIN steps
    BY <1>1
  <2> HIDE DEF m
  <2>3. h[m] = Applied(h[m - 1], steps[m], {})
    BY <1>2, <2>2
  <2>4. h[m] = Applied(h[n], steps[m], {})
    BY <2>2, <2>3, Zenon
  <2>5. /\ Fits(Applied(h[n], steps[m], {}))
        /\ DOMAIN h[n].assets \subseteq DOMAIN Applied(h[n], steps[m], {}).assets
    BY <2>1, <2>2, AppliedFits
  <2>6. Good(m)
    BY <2>1, <2>4, <2>5
  <2> QED
    BY <2>6 DEF m
<1>5. len \in S
  <2> HIDE DEF S
  <2> QED
    BY <1>1, <1>3, <1>4, SetInduction
<1> QED
  BY <1>1, <1>2, <1>5

(* The elements of a finite set in some order.                             *)
LEMMA InSomeOrder ==
  ASSUME NEW S, IsFiniteSet(S)
  PROVE  IsSequence(SetToSeq(S)) /\ \A n \in DOMAIN SetToSeq(S) : SetToSeq(S)[n] \in S
<1> DEFINE s == SetToSeq(S)
           m == Cardinality(S)
<1>1. m \in Nat /\ ExistsBijection(1 .. m, S)
  BY FS_CardinalityType
<1>2. \E f \in [1 .. m -> S] : IsInjective(f)
  BY <1>1 DEF ExistsBijection, Bijection, Injection, IsInjective
<1>3. s \in [1 .. m -> S]
  BY <1>2 DEF SetToSeq
<1> HIDE DEF s, m
<1>4. s \in Seq(S) /\ DOMAIN s = 1 .. m
  BY <1>1, <1>3
<1>5. IsSequence(s)
  BY <1>4, SequenceOf
<1>6. \A n \in DOMAIN s : s[n] \in S
  BY <1>3
<1> QED
  BY <1>5, <1>6 DEF s

(* The hypotheses that are drawn anew are about assets that are there.     *)
LEMMA RefreshedFit ==
  ASSUME HypothesesFit(hypotheses, graph), NEW g, Fits(g),
         DOMAIN graph.assets \subseteq DOMAIN g.assets
  PROVE  HypothesesFit(Refreshed(g), g)
<1> DEFINE drawn == Derived(g)
           Latest(h) ==
             LET again == {d \in drawn : SameHypothesis(d, h)}
             IN  IF again = {} THEN h ELSE CHOOSE d \in again : TRUE
           new == {d \in drawn : \A n \in DOMAIN hypotheses : ~SameHypothesis(hypotheses[n], d)}
           known == [n \in DOMAIN hypotheses |-> Latest(hypotheses[n])]
           f == [n \in 1 .. 4 |-> SetToSeq({d \in new : d.priority = 5 - n})]
           others == FlattenSeq(f)
<1>1. Refreshed(g) = known \o others
  BY DEF Refreshed
<1>2. \A d \in drawn : HypothesisFits(g, d)
  BY DerivedConcludes DEF HypothesisFits
<1>3. IsFiniteSet(drawn)
  BY DerivedFinite DEF Fits
<1>4. IsSequence(hypotheses) /\ \A n \in DOMAIN hypotheses : HypothesisFits(g, hypotheses[n])
  BY DEF HypothesesFit, HypothesisFits
<1> HIDE DEF drawn
<1>5. IsSequence(known) /\ \A n \in DOMAIN known : HypothesisFits(g, known[n])
  <2>1. \A h : HypothesisFits(g, h) => HypothesisFits(g, Latest(h))
    BY <1>2
  <2> HIDE DEF Latest
  <2>2. Len(hypotheses) \in Nat /\ DOMAIN hypotheses = 1 .. Len(hypotheses)
    BY <1>4, Listed
  <2>3. known = [n \in 1 .. Len(hypotheses) |-> known[n]]
    BY <2>2
  <2>4. \A n \in DOMAIN known : HypothesisFits(g, known[n])
    BY <1>4, <2>1
  <2> HIDE DEF known
  <2> QED
    BY <2>2, <2>3, <2>4, ListOf
<1>6. \A n \in 1 .. 4 : IsSequence(f[n]) /\ \A k \in DOMAIN f[n] : HypothesisFits(g, f[n][k])
  <2> SUFFICES ASSUME NEW n \in 1 .. 4
               PROVE  IsSequence(f[n]) /\ \A k \in DOMAIN f[n] : HypothesisFits(g, f[n][k])
    OBVIOUS
  <2> DEFINE S == {d \in new : d.priority = 5 - n}
  <2>1. f[n] = SetToSeq(S)
    OBVIOUS
  <2>2. S \subseteq drawn
    OBVIOUS
  <2> HIDE DEF S, f
  <2>3. IsFiniteSet(S)
    BY <1>3, <2>2, FS_Subset
  <2>4. IsSequence(SetToSeq(S)) /\ \A k \in DOMAIN SetToSeq(S) : SetToSeq(S)[k] \in S
    BY <2>3, InSomeOrder
  <2> QED
    BY <1>2, <2>1, <2>2, <2>4
<1>7. f = [n \in 1 .. 4 |-> f[n]]
  OBVIOUS
<1> HIDE DEF f, known
<1>8. Covers(others, f, 4)
  BY <1>6, <1>7, Flattened
<1> HIDE DEF others
<1>9. IsSequence(others) /\ \A n \in DOMAIN others : HypothesisFits(g, others[n])
  <2> SUFFICES ASSUME NEW m \in DOMAIN others
               PROVE  HypothesisFits(g, others[m])
    BY <1>8 DEF Covers
  <2>1. PICK i \in 1 .. 4, j \in Nat, off \in Nat :
          /\ j \in DOMAIN f[i] /\ m = off + j
          /\ \A l \in DOMAIN f[i] : off + l \in DOMAIN others /\ others[off + l] = f[i][l]
    BY <1>8 DEF Covers, Within
  <2>2. others[m] = f[i][j]
    BY <2>1
  <2> QED
    BY <2>1, <2>2, <1>6
<1> DEFINE all == known \o others
<1>10. /\ IsSequence(all) /\ DOMAIN all = 1 .. Len(known) + Len(others)
       /\ \A i \in 1 .. Len(known) : all[i] = known[i]
       /\ \A i \in 1 .. Len(others) : all[Len(known) + i] = others[i]
  BY <1>5, <1>9, Concatenated
<1>11. /\ Len(known) \in Nat /\ Len(others) \in Nat
       /\ DOMAIN known = 1 .. Len(known) /\ DOMAIN others = 1 .. Len(others)
  BY <1>5, <1>9, Listed
<1> HIDE DEF all
<1>12. ASSUME NEW n \in DOMAIN all
       PROVE  HypothesisFits(g, all[n])
  <2>1. CASE n \in 1 .. Len(known)
    BY <1>5, <1>10, <1>11, <2>1
  <2>2. CASE n \notin 1 .. Len(known)
    <3>1. n - Len(known) \in 1 .. Len(others) /\ Len(known) + (n - Len(known)) = n
      BY <1>10, <1>11, <2>2
    <3>2. all[n] = others[n - Len(known)]
      BY <1>10, <3>1
    <3> QED
      BY <1>9, <1>11, <3>1, <3>2
  <2> QED
    BY <2>1, <2>2
<1>13. HypothesesFit(all, g)
  BY <1>10, <1>12 DEF HypothesesFit
<1> QED
  BY <1>1, <1>13 DEF all

(* What is remembered is a list.                                           *)
LEMMA MemoryListed ==
  ASSUME IsSequence(ended), \A n \in DOMAIN ended : ended[n] \in EarlierRuns
  PROVE  IsSequence(Memory)
<1> DEFINE f == [n \in DOMAIN ended |-> IF Source(ended[n]) THEN <<ended[n]>> ELSE <<>>]
           sources == FlattenSeq(f)
           limit == IF Policy.maxRuns < 1 THEN 1 ELSE IF Policy.maxRuns > 20 THEN 20 ELSE Policy.maxRuns
           latest == Take(sources, limit)
           actions == [n \in DOMAIN latest |-> sources[n].actions]
<1>1. Memory = Take(FlattenSeq(actions), 2000)
  BY DEF Memory, Those
<1>2. IsSequence(sources) /\ \A n \in DOMAIN sources : sources[n] \in EarlierRuns
  <2>1. f = [n \in DOMAIN ended |-> f[n]]
        /\ \A n \in DOMAIN ended : f[n] = <<ended[n]>> \/ f[n] = <<>>
    OBVIOUS
  <2> HIDE DEF f
  <2>2. IsSequence(sources) /\ \A n \in DOMAIN sources : \E i \in DOMAIN ended : sources[n] = ended[i]
    BY <2>1, Passed
  <2> HIDE DEF sources
  <2> QED
    BY <2>2
<1> HIDE DEF sources
<1>3. limit \in Nat
  BY InputsAssumption
<1> HIDE DEF limit
<1>4. IsSequence(latest) /\ \A n \in DOMAIN latest : n \in DOMAIN sources
  BY <1>2, <1>3, Taken
<1> HIDE DEF latest
<1>5. Len(latest) \in Nat /\ DOMAIN latest = 1 .. Len(latest)
  BY <1>4, Listed
<1>6. \A n \in 1 .. Len(latest) : IsSequence(actions[n])
  BY <1>2, <1>4, <1>5, InputsAssumption
<1>7. actions = [n \in 1 .. Len(latest) |-> actions[n]]
  BY <1>5
<1> HIDE DEF actions
<1> DEFINE flat == FlattenSeq(actions)
<1>8. Covers(flat, actions, Len(latest))
  BY <1>5, <1>6, <1>7, Flattened
<1> HIDE DEF flat
<1>9. IsSequence(flat)
  BY <1>8 DEF Covers
<1>10. IsSequence(Take(flat, 2000))
  BY <1>9, Taken
<1> QED
  BY <1>1, <1>10 DEF flat

LEMMA FinitelyMany ==
  ASSUME NEW s, IsSequence(s)
  PROVE  IsFiniteSet(DOMAIN s)
<1>1. Len(s) \in Nat /\ DOMAIN s = 1 .. Len(s)
  BY Listed
<1>2. 1 \in Int /\ Len(s) \in Int
  BY <1>1
<1> QED
  BY <1>1, <1>2, FS_Interval

-----------------------------------------------------------------------------
(* What the planner is given holds in every state.                         *)

Wearing ==
  /\ Fits(graph) /\ HypothesesFit(hypotheses, graph)
  /\ IsSequence(ended) /\ \A n \in DOMAIN ended : ended[n] \in EarlierRuns

(* The lists that a successful answer to the call may bring are sequences. *)
ListsBrought ==
  phase = "call" =>
    \A result \in World(asked[Len(asked)].call) : result.success => ListsOK(result)

LEMMA WearingInit == Init => Wearing
<1> SUFFICES ASSUME Init
             PROVE  Wearing
  OBVIOUS
<1> DEFINE steps == SeedSteps(Primary)
<1>1. /\ IsSequence(steps)
      /\ \A n \in DOMAIN steps : steps[n].do = "ensure" /\ steps[n].confidence = "Confirmed"
  BY SeedsOnly, InputsAssumption
<1> HIDE DEF steps
<1>2. \A n \in DOMAIN steps : StepOK(steps[n])
  BY <1>1 DEF StepOK, Confidences
<1>3. IsSequence(<<>>) /\ DOMAIN <<>> = {}
  BY DEF IsSequence
<1>4. Fits(EmptyGraph)
  BY <1>3 DEF Fits, EmptyGraph
<1>5. Fits(Built(EmptyGraph, steps))
  BY <1>1, <1>2, <1>4, BuiltFits
<1>6. graph = Built(EmptyGraph, steps) /\ hypotheses = <<>> /\ ended = <<>>
  BY DEF Init, steps
<1> QED
  BY <1>3, <1>5, <1>6 DEF Wearing, HypothesesFit

LEMMA WearingAnswer ==
  ASSUME Wearing, NEW result, result.success => ListsOK(result), Answer(result)
  PROVE  Wearing'
<1> DEFINE steps == IngestionSteps(result, graph)
           g == Built(graph, steps)
<1>1. Complete(steps)
  BY IngestionComplete
<1> HIDE DEF steps
<1>2. IsSequence(steps) /\ \A n \in DOMAIN steps : StepOK(steps[n])
  BY <1>1 DEF Complete
<1>3. Fits(g) /\ DOMAIN graph.assets \subseteq DOMAIN g.assets
  BY <1>2, BuiltFits DEF Wearing
<1>4. graph' = g
  BY DEF Answer, Ingested, steps
<1> HIDE DEF g
<1>5. HypothesesFit(Refreshed(g), g) /\ HypothesesFit(hypotheses, g)
  <2>1. HypothesesFit(Refreshed(g), g)
    BY <1>3, RefreshedFit DEF Wearing
  <2>2. HypothesesFit(hypotheses, g)
    BY <1>3 DEF Wearing, HypothesesFit, HypothesisFits
  <2> QED
    BY <2>1, <2>2
<1>6. hypotheses' = IF result.success THEN Refreshed(graph') ELSE hypotheses
  BY DEF Answer
<1>7. hypotheses' = Refreshed(g) \/ hypotheses' = hypotheses
  BY <1>4, <1>6
<1>8. ended' = ended
  BY DEF Answer
<1> QED
  BY <1>3, <1>4, <1>5, <1>7, <1>8 DEF Wearing

LEMMA WearingEnds ==
  ASSUME Wearing, NEW earlier \in EarlierRuns, OtherRunEnds(earlier)
  PROVE  Wearing'
<1> DEFINE s == <<earlier>> \o ended
<1>1. IsSequence(<<earlier>>) /\ Len(<<earlier>>) = 1 /\ <<earlier>>[1] = earlier
  BY One
<1>2. IsSequence(ended) /\ Len(ended) \in Nat /\ DOMAIN ended = 1 .. Len(ended)
  BY Listed DEF Wearing
<1>3. /\ IsSequence(s) /\ DOMAIN s = 1 .. 1 + Len(ended)
      /\ s[1] = earlier
      /\ \A i \in 1 .. Len(ended) : s[1 + i] = ended[i]
  BY <1>1, <1>2, Concatenated
<1>4. ended' = s /\ graph' = graph /\ hypotheses' = hypotheses
  BY DEF OtherRunEnds, run
<1> HIDE DEF s
<1>5. ASSUME NEW n \in DOMAIN s
      PROVE  s[n] \in EarlierRuns
  <2>1. CASE n = 1
    BY <1>3, <2>1
  <2>2. CASE n # 1
    <3>1. n - 1 \in 1 .. Len(ended) /\ 1 + (n - 1) = n
      BY <1>2, <1>3, <2>2
    <3>2. s[n] = ended[n - 1]
      BY <1>3, <3>1
    <3> QED
      BY <1>2, <3>1, <3>2 DEF Wearing
  <2> QED
    BY <2>1, <2>2
<1> QED
  BY <1>3, <1>4, <1>5 DEF Wearing

LEMMA WearingNext == ListsBrought /\ Wearing /\ [Next]_vars => Wearing'
<1> SUFFICES ASSUME ListsBrought, Wearing, [Next]_vars
             PROVE  Wearing'
  OBVIOUS
<1>1. ASSUME UNCHANGED <<graph, hypotheses, ended>>
      PROVE  Wearing'
  BY <1>1 DEF Wearing
<1>2. ASSUME NEW call, Ask(PlanNow, call)
      PROVE  Wearing'
  BY <1>1, <1>2 DEF Ask
<1>3. CASE Finish(PlanNow)
  BY <1>1, <1>3 DEF Finish, run
<1>4. CASE Refuse \/ RefuseForRate \/ Cancel
  BY <1>1, <1>4 DEF Refuse, RefuseForRate, Cancel, run
<1>5. ASSUME phase = "call",
             NEW result \in World(asked[Len(asked)].call), Answer(result)
      PROVE  Wearing'
  BY <1>5, WearingAnswer DEF ListsBrought
<1>6. ASSUME NEW earlier \in EarlierRuns, OtherRunEnds(earlier)
      PROVE  Wearing'
  BY <1>6, WearingEnds
<1>7. CASE UNCHANGED vars
  BY <1>1, <1>7 DEF vars
<1> QED
  BY <1>2, <1>3, <1>4, <1>5, <1>6, <1>7 DEF Next, Step, Decide

(* What was done four times is recommended only for the sake of a          *)
(* hypothesis (score_action, recon_planner.rs:862), as long as what the    *)
(* tools bring are lists.                                                  *)
THEOREM WornOutIsLeft == Spec /\ []ListsBrought => []WornOut
<1>1. IInv /\ Wearing => WornOut
  <2> SUFFICES ASSUME IInv, Wearing, NEW action \in PlanNow.recommended,
                      Similar(selections, Memory, action) >= 4
               PROVE  Bonus(hypotheses, action) > 0
    BY DEF WornOut
  <2>1. IsFiniteSet(DOMAIN selections)
    BY FinitelyMany DEF IInv, Shape
  <2>2. IsFiniteSet(DOMAIN Memory)
    BY MemoryListed, FinitelyMany DEF Wearing
  <2> QED
    BY <2>1, <2>2, WornAction DEF Wearing, PlanNow
<1> QED
  BY <1>1, WearingInit, WearingNext, Invariance, PTL DEF Spec

=============================================================================
