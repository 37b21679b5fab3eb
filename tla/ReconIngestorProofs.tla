-------------------------- MODULE ReconIngestorProofs --------------------------
(***************************************************************************)
(* What every ingestion has in common, whatever the tool and whatever it   *)
(* brings (Complete): its steps name only assets that were ensured before, *)
(* and every asset that a step ensures is explained by a later one.        *)
(*                                                                         *)
(* The steps are concatenated from lists of any length, so this rests on   *)
(* an induction over the natural numbers (SetInduction) and on what it     *)
(* says of FlattenSeq (Flattened).                                         *)
(***************************************************************************)
EXTENDS ReconIngestor, ReconCorrelator, FiniteSetTheorems, SequenceTheorems, TLAPS

-----------------------------------------------------------------------------
(* Sequences.                                                              *)

(* Induction over the natural numbers, for a property that is given as the *)
(* set of the numbers that have it: of the intervals 0 .. m that end       *)
(* outside of the set one would be the smallest.                           *)
LEMMA SetInduction ==
  ASSUME NEW S, 0 \in S, \A n \in Nat : n \in S => n + 1 \in S
  PROVE  Nat \subseteq S
<1> SUFFICES ASSUME NEW k \in Nat, k \notin S
             PROVE  FALSE
  OBVIOUS
<1> DEFINE R == StrictSubsetOrdering(Nat)
           F == FiniteSubsetsOf(Nat)
           T == {0 .. m : m \in Nat \ S}
<1>1. IsWellFoundedOn(R, F)
  BY FS_StrictSubsetOrderingWellFounded
<1>2. T \subseteq F
  <2> SUFFICES ASSUME NEW m \in Nat PROVE 0 .. m \in F
    OBVIOUS
  <2>1. 0 \in Int /\ m \in Int
    OBVIOUS
  <2>2. IsFiniteSet(0 .. m)
    BY <2>1, FS_Interval
  <2> QED
    BY <2>2 DEF FiniteSubsetsOf
<1>3. T # {}
  OBVIOUS
<1> HIDE DEF T, R, F
<1>4. PICK t \in T : \A u \in T : ~ (<<u, t>> \in R)
  BY <1>1, <1>2, <1>3, WFMin
<1>5. PICK m \in Nat \ S : t = 0 .. m
  BY DEF T
<1>6. m - 1 \in Nat \ S /\ m - 1 + 1 = m
  OBVIOUS
<1>7. 0 .. (m - 1) \in T
  BY <1>6 DEF T
<1>8. <<0 .. (m - 1), 0 .. m>> \in R
  <2>1. m \in 0 .. m /\ m \notin 0 .. (m - 1) /\ 0 .. (m - 1) \subseteq 0 .. m /\ 0 .. m \subseteq Nat
    BY <1>6
  <2> QED
    BY <2>1 DEF R, StrictSubsetOrdering
<1> QED
  BY <1>4, <1>5, <1>7, <1>8

(* FlattenSeq appends one sequence after the other: the function that it   *)
(* defines by recursion exists.                                            *)
LEMMA FlattenedBy ==
  ASSUME NEW f, NEW n \in Nat, n > 0, DOMAIN f = 1 .. n, Len(f) = n
  PROVE  \E h : /\ h = [i \in 1 .. n |-> IF i = 1 THEN f[i] ELSE h[i - 1] \o f[i]]
                /\ FlattenSeq(f) = h[n]
<1> DEFINE By(h, m) == h = [i \in 1 .. m |-> IF i = 1 THEN f[i] ELSE h[i - 1] \o f[i]]
           S == {m \in Nat : \E h : By(h, m)}
<1>1. 0 \in S
  <2> DEFINE h == [i \in 1 .. 0 |-> f[i]]
  <2>1. By(h, 0)
    OBVIOUS
  <2> QED
    BY <2>1
<1>2. ASSUME NEW m \in Nat, m \in S
      PROVE  m + 1 \in S
  <2>1. PICK h : By(h, m)
    BY <1>2
  <2> DEFINE k == [i \in 1 .. m + 1 |->
                     IF i = 1 THEN f[i] ELSE IF i = m + 1 THEN h[m] \o f[i] ELSE h[i]]
  <2>2. ASSUME NEW i \in 1 .. m + 1
        PROVE  k[i] = IF i = 1 THEN f[i] ELSE k[i - 1] \o f[i]
    <3>1. CASE i = 1
      BY <3>1
    <3>2. CASE i # 1 /\ i # m + 1
      <4>1. i - 1 \in 1 .. m + 1 /\ i \in 1 .. m /\ i - 1 \in 1 .. m /\ i - 1 # m + 1
        BY <3>2
      <4>2. k[i] = h[i] /\ k[i - 1] = h[i - 1]
        BY <2>1, <3>2, <4>1
      <4> QED
        BY <2>1, <3>2, <4>1, <4>2
    <3>3. CASE i # 1 /\ i = m + 1
      <4>1. i - 1 \in 1 .. m + 1 /\ i - 1 \in 1 .. m /\ i - 1 = m
        BY <3>3
      <4>2. k[m] = h[m]
        BY <2>1, <4>1
      <4> QED
        BY <3>3, <4>1, <4>2
    <3> QED
      BY <3>1, <3>2, <3>3
  <2>3. By(k, m + 1)
    <3> HIDE DEF k
    <3>1. k = [i \in 1 .. m + 1 |-> k[i]]
      BY DEF k
    <3> QED
      BY <2>2, <3>1
  <2>4. \E g : By(g, m + 1)
    <3> HIDE DEF k, By
    <3> QED
      BY <2>3
  <2> HIDE DEF By
  <2> QED
    BY <2>4
<1>3. n \in S
  <2> HIDE DEF S
  <2> QED
    BY <1>1, <1>2, SetInduction
<1>4. PICK h : By(h, n)
  BY <1>3
<1> DEFINE chosen == CHOOSE g : g = [i \in 1 .. n |-> IF i = 1 THEN f[i] ELSE g[i - 1] \o f[i]]
<1>5. By(chosen, n)
  BY <1>4, Zenon
<1>6. FlattenSeq(f) = chosen[n]
  BY DEF FlattenSeq
<1> QED
  BY <1>5, <1>6

(* A sequence is one of its own elements.                                  *)
LEMMA SequenceOf ==
  ASSUME NEW S, NEW s \in Seq(S)
  PROVE  IsSequence(s)
BY DEF IsSequence, ToSet

(* Its positions.                                                          *)
LEMMA Listed ==
  ASSUME NEW s, IsSequence(s)
  PROVE  /\ Len(s) \in Nat /\ DOMAIN s = 1 .. Len(s)
         /\ \A i \in 1 .. Len(s) : i \in Nat /\ i >= 1 /\ i <= Len(s)
BY DEF IsSequence

(* The first has its positions, the second comes after it.                 *)
LEMMA Concatenated ==
  ASSUME NEW s, NEW t, IsSequence(s), IsSequence(t)
  PROVE  /\ IsSequence(s \o t) /\ Len(s \o t) = Len(s) + Len(t)
         /\ DOMAIN (s \o t) = 1 .. Len(s) + Len(t)
         /\ \A i \in 1 .. Len(s) : (s \o t)[i] = s[i]
         /\ \A i \in 1 .. Len(t) : (s \o t)[Len(s) + i] = t[i]
<1> DEFINE S == ToSet(s) \cup ToSet(t)
<1>1. s \in Seq(S) /\ t \in Seq(S)
  BY SeqMonotonic DEF IsSequence
<1> HIDE DEF S
<1>2. s \o t \in Seq(S)
  BY <1>1
<1>3. IsSequence(s \o t)
  BY <1>2, SequenceOf
<1>4. Len(s) \in Nat /\ Len(t) \in Nat
  BY <1>1
<1>5. Len(s \o t) = Len(s) + Len(t) /\ DOMAIN (s \o t) = 1 .. Len(s) + Len(t)
  BY <1>1
<1>6. \A i \in 1 .. Len(s) : (s \o t)[i] = s[i]
  BY <1>1, <1>4
<1>7. \A i \in 1 .. Len(t) : (s \o t)[Len(s) + i] = t[i]
  <2> TAKE i \in 1 .. Len(t)
  <2>1. Len(s) + i \in 1 .. Len(s) + Len(t) /\ Len(s) + i > Len(s) /\ Len(s) + i - Len(s) = i
    BY <1>4
  <2> QED
    BY <1>1, <1>4, <2>1
<1> QED
  BY <1>3, <1>5, <1>6, <1>7

(* The element of flat at k is the j-th of some f[i], between the same     *)
(* elements as there.                                                      *)
Within(flat, f, m, k) ==
  \E i \in 1 .. m, j \in Nat, off \in Nat :
    /\ j \in DOMAIN f[i] /\ k = off + j
    /\ \A l \in DOMAIN f[i] : off + l \in DOMAIN flat /\ flat[off + l] = f[i][l]

(* flat is made of the first m of the sequences in f.                      *)
Covers(flat, f, m) ==
  /\ IsSequence(flat)
  /\ \A k \in DOMAIN flat : Within(flat, f, m, k)
  /\ \A i \in 1 .. m : \A j \in DOMAIN f[i] : \E k \in DOMAIN flat : flat[k] = f[i][j]

(* A single sequence.                                                      *)
LEMMA CoversOne ==
  ASSUME NEW f, IsSequence(f[1])
  PROVE  Covers(f[1], f, 1)
<1>1. ASSUME NEW k \in DOMAIN f[1] PROVE Within(f[1], f, 1, k)
  <2>1. /\ 1 \in 1 .. 1 /\ k \in Nat /\ 0 \in Nat /\ k = 0 + k
        /\ \A l \in DOMAIN f[1] : 0 + l = l
    BY Listed
  <2> QED
    BY <2>1 DEF Within
<1> QED
  BY <1>1 DEF Covers

(* One more sequence.                                                      *)
LEMMA CoversMore ==
  ASSUME NEW f, NEW m \in Nat, m > 0, NEW s, Covers(s, f, m), IsSequence(f[m + 1])
  PROVE  Covers(s \o f[m + 1], f, m + 1)
<1> DEFINE t == f[m + 1]
           u == s \o t
<1>0. IsSequence(s) /\ IsSequence(t)
  BY DEF Covers
<1>1. /\ Len(s) \in Nat /\ DOMAIN s = 1 .. Len(s)
      /\ Len(t) \in Nat /\ DOMAIN t = 1 .. Len(t)
  BY <1>0, Listed
<1>2. /\ IsSequence(u) /\ DOMAIN u = 1 .. Len(s) + Len(t)
      /\ \A i \in 1 .. Len(s) : u[i] = s[i]
      /\ \A i \in 1 .. Len(t) : u[Len(s) + i] = t[i]
  BY <1>0, Concatenated
<1>a. m + 1 \in 1 .. m + 1 /\ \A i \in 1 .. m : i \in 1 .. m + 1
  OBVIOUS
<1> HIDE DEF u
<1>3. ASSUME NEW k \in DOMAIN u PROVE Within(u, f, m + 1, k)
  <2>1. CASE k \in DOMAIN s
    <3>1. PICK i \in 1 .. m, j \in Nat, off \in Nat :
            /\ j \in DOMAIN f[i] /\ k = off + j
            /\ \A l \in DOMAIN f[i] : off + l \in DOMAIN s /\ s[off + l] = f[i][l]
      BY <2>1 DEF Covers, Within
    <3>2. \A l \in DOMAIN f[i] : off + l \in DOMAIN u /\ u[off + l] = f[i][l]
      BY <1>1, <1>2, <3>1
    <3> QED
      BY <1>a, <3>1, <3>2 DEF Within
  <2>2. CASE k \notin DOMAIN s
    <3>1. k - Len(s) \in DOMAIN t /\ k = Len(s) + (k - Len(s)) /\ k - Len(s) \in Nat
      BY <1>1, <1>2, <2>2
    <3>2. \A l \in DOMAIN t : Len(s) + l \in DOMAIN u /\ u[Len(s) + l] = t[l]
      BY <1>1, <1>2
    <3> QED
      BY <1>a, <1>1, <3>1, <3>2 DEF Within
  <2> QED
    BY <2>1, <2>2
<1>4. ASSUME NEW i \in 1 .. m + 1, NEW j \in DOMAIN f[i]
      PROVE  \E k \in DOMAIN u : u[k] = f[i][j]
  <2>1. CASE i \in 1 .. m
    <3>1. PICK k \in DOMAIN s : s[k] = f[i][j]
      BY <2>1 DEF Covers
    <3>2. k \in DOMAIN u /\ u[k] = s[k]
      BY <1>1, <1>2
    <3> QED
      BY <3>1, <3>2
  <2>2. CASE i = m + 1
    <3>1. j \in 1 .. Len(t) /\ Len(s) + j \in 1 .. Len(s) + Len(t)
      BY <1>1, <2>2
    <3>2. Len(s) + j \in DOMAIN u /\ u[Len(s) + j] = t[j]
      BY <1>2, <3>1
    <3> QED
      BY <2>2, <3>2
  <2> QED
    BY <2>1, <2>2
<1> QED
  BY <1>2, <1>3, <1>4 DEF Covers, u

(* All of them: every element of the concatenation comes from one of the   *)
(* sequences, right after what precedes it there, and none is left out.    *)
LEMMA Flattened ==
  ASSUME NEW f, NEW n \in Nat, f = [i \in 1 .. n |-> f[i]], \A i \in 1 .. n : IsSequence(f[i])
  PROVE  Covers(FlattenSeq(f), f, n)
<1> DEFINE S == {f[i] : i \in 1 .. n}
<1>1. f \in Seq(S) /\ Len(f) = n /\ DOMAIN f = 1 .. n
  BY SMT
<1>2. CASE n = 0
  <2>1. FlattenSeq(f) = f /\ DOMAIN f = {}
    BY <1>1, <1>2 DEF FlattenSeq
  <2>2. IsSequence(f)
    BY <1>1, SequenceOf
  <2> QED
    BY <1>2, <2>1, <2>2 DEF Covers
<1>3. CASE n > 0
  <2>1. PICK h : /\ h = [i \in 1 .. n |-> IF i = 1 THEN f[i] ELSE h[i - 1] \o f[i]]
                 /\ FlattenSeq(f) = h[n]
    BY <1>1, <1>3, FlattenedBy
  <2>2. h[1] = f[1]
    <3>1. 1 \in 1 .. n
      BY <1>3
    <3> QED
      BY <2>1, <3>1
  <2>3. ASSUME NEW m \in Nat, m > 0, m + 1 <= n
        PROVE  h[m + 1] = h[m] \o f[m + 1]
    <3>1. ASSUME NEW k \in 1 .. n, k # 1
          PROVE  h[k] = h[k - 1] \o f[k]
      BY <2>1, <3>1
    <3>2. m + 1 \in 1 .. n /\ m + 1 # 1
      BY <2>3
    <3> DEFINE k == m + 1
    <3>3. k - 1 = m /\ k \in 1 .. n /\ k # 1
      BY <3>2
    <3> HIDE DEF k
    <3>4. h[k] = h[k - 1] \o f[k]
      BY <3>1, <3>3
    <3>5. h[k] = h[m] \o f[k]
      BY <3>3, <3>4, Zenon
    <3> QED
      BY <3>5 DEF k
  <2> DEFINE T == {m \in Nat : m > 0 /\ m <= n => Covers(h[m], f, m)}
  <2>4. 0 \in T
    OBVIOUS
  <2>5. ASSUME NEW m \in Nat, m \in T
        PROVE  m + 1 \in T
    <3> SUFFICES ASSUME m + 1 <= n
                 PROVE  Covers(h[m + 1], f, m + 1)
      OBVIOUS
    <3>1. m + 1 \in 1 .. n
      OBVIOUS
    <3>2. CASE m = 0
      BY <2>2, <3>1, <3>2, CoversOne
    <3>3. CASE m > 0
      <4>1. Covers(h[m], f, m)
        BY <2>5, <3>3
      <4>2. Covers(h[m] \o f[m + 1], f, m + 1)
        BY <3>1, <3>3, <4>1, CoversMore
      <4> QED
        BY <2>3, <3>3, <4>2
    <3> QED
      BY <3>2, <3>3
  <2>6. n \in T
    <3> HIDE DEF T
    <3> QED
      BY <2>4, <2>5, SetInduction
  <2>7. Covers(h[n], f, n)
    BY <1>3, <2>6
  <2> QED
    BY <2>1, <2>7, Zenon
<1> QED
  BY <1>2, <1>3

(* Appending leaves what is there and adds one.                            *)
LEMMA Appended ==
  ASSUME NEW s, IsSequence(s), NEW x
  PROVE  /\ IsSequence(Append(s, x))
         /\ Len(s) \in Nat /\ DOMAIN s = 1 .. Len(s)
         /\ Len(Append(s, x)) = Len(s) + 1
         /\ DOMAIN Append(s, x) = 1 .. Len(s) + 1
         /\ \A i \in 1 .. Len(s) : Append(s, x)[i] = s[i]
         /\ Append(s, x)[Len(s) + 1] = x
<1> DEFINE S == ToSet(s) \cup {x}
<1>1. s \in Seq(S)
  BY SeqMonotonic DEF IsSequence
<1>2. IsSequence(Append(s, x))
  <2> HIDE DEF S
  <2>1. x \in S
    BY DEF S
  <2>2. Append(s, x) \in Seq(S)
    BY <1>1, <2>1
  <2> QED
    BY <2>2, SequenceOf
<1> HIDE DEF S
<1> QED
  BY <1>1, <1>2

(* Replacing one element leaves the others.                                *)
LEMMA Replaced ==
  ASSUME NEW s, IsSequence(s), NEW k, NEW x
  PROVE  /\ IsSequence([s EXCEPT ![k] = x])
         /\ DOMAIN [s EXCEPT ![k] = x] = DOMAIN s
         /\ \A i \in DOMAIN s : [s EXCEPT ![k] = x][i] = IF i = k THEN x ELSE s[i]
<1> DEFINE S == ToSet(s) \cup {x}
           t == [s EXCEPT ![k] = x]
<1>1. s \in Seq(S)
  BY SeqMonotonic DEF IsSequence
<1>2. x \in S
  OBVIOUS
<1> HIDE DEF S
<1>3. t \in Seq(S)
  <2>1. Len(s) \in Nat /\ s \in [1 .. Len(s) -> S]
    BY <1>1
  <2>2. t \in [1 .. Len(s) -> S]
    BY <1>2, <2>1
  <2> QED
    BY <2>1, <2>2
<1>4. IsSequence(t)
  BY <1>3, SequenceOf
<1> QED
  BY <1>4

-----------------------------------------------------------------------------
(* Steps.                                                                  *)

(* The sources that must have observed an asset of that kind for it to     *)
(* have those tags: the correlator draws conclusions from them and names   *)
(* the observations of that source as the reason.                          *)
Owed(kind, tags) ==
  {source \in {"ApiDescription", "JavascriptAnalysis"} :
     \/ /\ source = "ApiDescription" /\ kind = "Endpoint"
        /\ \E tag \in tags : tag \in {<<"api", "public_operation">>, <<"source", "api_description">>}
     \/ /\ source = "JavascriptAnalysis" /\ kind = "JavascriptBundle"
        /\ \E tag \in tags :
             \/ tag[1] = "javascript signal"
             \/ tag \in {<<"javascript", "graphql_operations">>, <<"javascript", "websocket">>}}

(* The assets that must be there when a step is taken.                     *)
Needs(step) ==
  CASE step.do = "ensure" -> {}
    [] step.do = "enrich" -> {step.key}
    [] step.do = "relate" -> {step.key, step.to}
    [] OTHER -> step.subjects

(* The assets that are ensured before the n-th step, and by all steps.     *)
Made(steps, n) == {steps[m].key : m \in {j \in 1 .. n - 1 : steps[j].do = "ensure"}}

AllMade(steps) == {steps[m].key : m \in {j \in DOMAIN steps : steps[j].do = "ensure"}}

BodyStep(source, step) ==
  \/ step.do = "ensure" /\ step.confidence \in Confidences
  \/ step.do = "enrich" /\ Owed(step.key.kind, step.tags) \subseteq {source}
  \/ step.do = "relate"

(* A part of an ingestion of that source in which nothing is observed yet, *)
(* that may come when the assets in known have been ensured.               *)
Body(known, source, steps) ==
  /\ IsSequence(steps)
  /\ \A n \in DOMAIN steps :
       BodyStep(source, steps[n]) /\ Needs(steps[n]) \subseteq known \cup Made(steps, n)

(* A single step, and none at all.                                         *)
LEMMA One ==
  ASSUME NEW x
  PROVE  IsSequence(<<x>>) /\ Len(<<x>>) = 1 /\ DOMAIN <<x>> = {1} /\ <<x>>[1] = x
<1>1. <<x>> \in Seq({x})
  OBVIOUS
<1>2. IsSequence(<<x>>)
  BY <1>1, SequenceOf
<1>3. Len(<<x>>) = 1 /\ DOMAIN <<x>> = {1} /\ <<x>>[1] = x
  OBVIOUS
<1> QED
  BY <1>2, <1>3

LEMMA BodyOne ==
  ASSUME NEW known, NEW source, NEW step, BodyStep(source, step), Needs(step) \subseteq known
  PROVE  Body(known, source, <<step>>)
BY One DEF Body

(* What is ensured by two parts.                                           *)
LEMMA MadeByBoth ==
  ASSUME NEW s, NEW t, IsSequence(s), IsSequence(t)
  PROVE  /\ AllMade(s \o t) = AllMade(s) \cup AllMade(t)
         /\ \A n \in 1 .. Len(s) : Made(s \o t, n) = Made(s, n)
         /\ \A n \in 1 .. Len(t) : Made(s \o t, Len(s) + n) = AllMade(s) \cup Made(t, n)
<1> DEFINE u == s \o t
<1>1. /\ Len(s) \in Nat /\ DOMAIN s = 1 .. Len(s)
      /\ Len(t) \in Nat /\ DOMAIN t = 1 .. Len(t)
  BY Listed
<1>2. /\ DOMAIN u = 1 .. Len(s) + Len(t)
      /\ \A i \in 1 .. Len(s) : u[i] = s[i]
      /\ \A i \in 1 .. Len(t) : u[Len(s) + i] = t[i]
  BY Concatenated
<1> HIDE DEF u
<1>3. \A m \in DOMAIN u :
        \/ m \in 1 .. Len(s) /\ u[m] = s[m]
        \/ m - Len(s) \in 1 .. Len(t) /\ u[m] = t[m - Len(s)]
  <2> TAKE m \in DOMAIN u
  <2>1. CASE m <= Len(s)
    BY <1>1, <1>2, <2>1
  <2>2. CASE m > Len(s)
    <3>1. m - Len(s) \in 1 .. Len(t) /\ Len(s) + (m - Len(s)) = m
      BY <1>1, <1>2, <2>2
    <3> QED
      BY <1>2, <3>1
  <2> QED
    BY <1>1, <1>2, <2>1, <2>2
<1>4. /\ \A m \in 1 .. Len(s) : m \in DOMAIN u
      /\ \A m \in 1 .. Len(t) : Len(s) + m \in DOMAIN u
  BY <1>1, <1>2
<1>5. AllMade(u) = AllMade(s) \cup AllMade(t)
  <2>1. AllMade(u) \subseteq AllMade(s) \cup AllMade(t)
    BY <1>1, <1>3 DEF AllMade
  <2>2. AllMade(s) \cup AllMade(t) \subseteq AllMade(u)
    BY <1>1, <1>2, <1>4 DEF AllMade
  <2> QED
    BY <2>1, <2>2
<1>6. ASSUME NEW n \in 1 .. Len(s) PROVE Made(u, n) = Made(s, n)
  <2>1. \A m \in 1 .. n - 1 : m \in 1 .. Len(s)
    BY <1>1
  <2> QED
    BY <1>2, <2>1 DEF Made
<1>7. ASSUME NEW n \in 1 .. Len(t) PROVE Made(u, Len(s) + n) = AllMade(s) \cup Made(t, n)
  <2>1. Made(u, Len(s) + n) \subseteq AllMade(s) \cup Made(t, n)
    <3> SUFFICES ASSUME NEW m \in 1 .. Len(s) + n - 1, u[m].do = "ensure"
                 PROVE  u[m].key \in AllMade(s) \cup Made(t, n)
      BY DEF Made
    <3>1. m \in DOMAIN u
      BY <1>1, <1>2
    <3>2. CASE m \in 1 .. Len(s) /\ u[m] = s[m]
      BY <1>1, <3>2 DEF AllMade
    <3>3. CASE m - Len(s) \in 1 .. Len(t) /\ u[m] = t[m - Len(s)]
      <4>1. m - Len(s) \in 1 .. n - 1
        BY <1>1, <3>3
      <4> QED
        BY <3>3, <4>1 DEF Made
    <3> QED
      BY <1>3, <3>1, <3>2, <3>3
  <2>2. AllMade(s) \subseteq Made(u, Len(s) + n)
    <3>1. \A m \in 1 .. Len(s) : m \in 1 .. Len(s) + n - 1
      BY <1>1
    <3> QED
      BY <1>1, <1>2, <3>1 DEF AllMade, Made
  <2>3. Made(t, n) \subseteq Made(u, Len(s) + n)
    <3>1. \A m \in 1 .. n - 1 : m \in 1 .. Len(t) /\ Len(s) + m \in 1 .. Len(s) + n - 1
      BY <1>1
    <3> QED
      BY <1>2, <3>1 DEF Made
  <2> QED
    BY <2>1, <2>2, <2>3
<1> QED
  BY <1>5, <1>6, <1>7 DEF u

(* One part after the other, which may refer to what the first has ensured. *)
LEMMA BodyJoin ==
  ASSUME NEW known, NEW source, NEW s, NEW t, NEW more,
         Body(known, source, s), Body(more, source, t), more \subseteq known \cup AllMade(s)
  PROVE  Body(known, source, s \o t)
<1>0. IsSequence(s) /\ IsSequence(t)
  BY DEF Body
<1>1. /\ Len(s) \in Nat /\ DOMAIN s = 1 .. Len(s)
      /\ Len(t) \in Nat /\ DOMAIN t = 1 .. Len(t)
  BY <1>0, Listed
<1>2. /\ IsSequence(s \o t) /\ DOMAIN (s \o t) = 1 .. Len(s) + Len(t)
      /\ \A i \in 1 .. Len(s) : (s \o t)[i] = s[i]
      /\ \A i \in 1 .. Len(t) : (s \o t)[Len(s) + i] = t[i]
  BY <1>0, Concatenated
<1>3. /\ \A n \in 1 .. Len(s) : Made(s \o t, n) = Made(s, n)
      /\ \A n \in 1 .. Len(t) : Made(s \o t, Len(s) + n) = AllMade(s) \cup Made(t, n)
  BY <1>0, MadeByBoth
<1>4. ASSUME NEW n \in DOMAIN (s \o t)
      PROVE  /\ BodyStep(source, (s \o t)[n])
             /\ Needs((s \o t)[n]) \subseteq known \cup Made(s \o t, n)
  <2>1. CASE n \in 1 .. Len(s)
    BY <1>1, <1>2, <1>3, <2>1 DEF Body
  <2>2. CASE n \notin 1 .. Len(s)
    <3>1. PICK m \in 1 .. Len(t) : n = Len(s) + m
      <4>1. n - Len(s) \in 1 .. Len(t) /\ n = Len(s) + (n - Len(s))
        BY <1>1, <1>2, <2>2
      <4> QED
        BY <4>1
    <3>2. BodyStep(source, t[m]) /\ Needs(t[m]) \subseteq more \cup Made(t, m)
      BY <1>1 DEF Body
    <3>3. (s \o t)[n] = t[m] /\ Made(s \o t, n) = AllMade(s) \cup Made(t, m)
      BY <1>2, <1>3, <3>1
    <3> QED
      BY <3>2, <3>3
  <2> QED
    BY <2>1, <2>2
<1> QED
  BY <1>2, <1>4 DEF Body

(* What may come early may come later.                                     *)
LEMMA BodyLater ==
  ASSUME NEW known, NEW source, NEW s, Body(known, source, s), NEW more, known \subseteq more
  PROVE  Body(more, source, s)
BY DEF Body

(* Parts made from the elements of a list, none of which needs another.    *)
LEMMA BodyEach ==
  ASSUME NEW known, NEW source, NEW s, IsSequence(s), NEW f,
         f = [i \in DOMAIN s |-> f[i]], \A i \in DOMAIN s : Body(known, source, f[i])
  PROVE  Body(known, source, FlattenSeq(f))
<1> DEFINE n == Len(s)
           flat == FlattenSeq(f)
<1>1. n \in Nat /\ DOMAIN s = 1 .. n
  BY Listed
<1>2. \A i \in 1 .. n : IsSequence(f[i])
  BY <1>1 DEF Body
<1> HIDE DEF n
<1>3. Covers(flat, f, n)
  BY <1>1, <1>2, Flattened
<1> HIDE DEF flat
<1>4. ASSUME NEW k \in DOMAIN flat
      PROVE  BodyStep(source, flat[k]) /\ Needs(flat[k]) \subseteq known \cup Made(flat, k)
  <2>1. PICK i \in 1 .. n, j \in Nat, off \in Nat :
          /\ j \in DOMAIN f[i] /\ k = off + j
          /\ \A l \in DOMAIN f[i] : off + l \in DOMAIN flat /\ flat[off + l] = f[i][l]
    BY <1>3 DEF Covers, Within
  <2>2. j \in DOMAIN f[i] /\ DOMAIN f[i] = 1 .. Len(f[i]) /\ Len(f[i]) \in Nat
    BY <1>2, <2>1, Listed
  <2>3. flat[k] = f[i][j]
    BY <2>1, <2>2
  <2>4. BodyStep(source, f[i][j]) /\ Needs(f[i][j]) \subseteq known \cup Made(f[i], j)
    BY <1>1, <2>1 DEF Body
  <2>5. Made(f[i], j) \subseteq Made(flat, k)
    <3> SUFFICES ASSUME NEW l \in 1 .. j - 1, f[i][l].do = "ensure"
                 PROVE  f[i][l].key \in Made(flat, k)
      BY DEF Made
    <3>1. l \in DOMAIN f[i] /\ off + l \in 1 .. k - 1
      BY <2>1, <2>2
    <3>2. flat[off + l] = f[i][l]
      BY <2>1, <3>1
    <3> QED
      BY <3>1, <3>2 DEF Made
  <2> QED
    BY <2>3, <2>4, <2>5
<1> QED
  BY <1>3, <1>4 DEF Body, Covers, flat

(* A part that ensures at least the assets in made.                        *)
Makes(known, source, steps, made) == Body(known, source, steps) /\ made \subseteq AllMade(steps)

LEMMA MakesNone ==
  ASSUME NEW known, NEW source
  PROVE  Makes(known, source, <<>>, {})
<1>1. IsSequence(<<>>) /\ DOMAIN <<>> = {}
  BY DEF IsSequence
<1> QED
  BY <1>1 DEF Makes, Body

LEMMA MakesEnsure ==
  ASSUME NEW known, NEW source, NEW key, NEW confidence \in Confidences
  PROVE  Makes(known, source, <<Ensure(key, confidence)>>, {key})
<1> DEFINE step == Ensure(key, confidence)
<1>1. step.do = "ensure" /\ step.key = key /\ step.confidence = confidence
  BY DEF Ensure
<1> HIDE DEF step
<1>2. BodyStep(source, step) /\ Needs(step) = {}
  BY <1>1 DEF BodyStep, Needs
<1>3. key \in AllMade(<<step>>)
  BY <1>1, One DEF AllMade
<1> QED
  BY <1>2, <1>3, BodyOne DEF step, Makes

LEMMA MakesEnrich ==
  ASSUME NEW known, NEW source, NEW key, NEW tags, key \in known,
         Owed(key.kind, tags) \subseteq {source}
  PROVE  Makes(known, source, <<Enrich(key, tags)>>, {})
<1> DEFINE step == Enrich(key, tags)
<1>1. step.do = "enrich" /\ step.key = key /\ step.tags = tags
  BY DEF Enrich
<1> HIDE DEF step
<1>2. BodyStep(source, step) /\ Needs(step) = {key}
  BY <1>1 DEF BodyStep, Needs
<1> QED
  BY <1>2, BodyOne DEF step, Makes

LEMMA MakesRelate ==
  ASSUME NEW known, NEW source, NEW from, NEW to, NEW kind, from \in known, to \in known
  PROVE  Makes(known, source, <<Relate(from, to, kind)>>, {})
<1> DEFINE step == Relate(from, to, kind)
<1>1. step.do = "relate" /\ step.key = from /\ step.to = to
  BY DEF Relate
<1> HIDE DEF step
<1>2. BodyStep(source, step) /\ Needs(step) = {from, to}
  BY <1>1 DEF BodyStep, Needs
<1> QED
  BY <1>2, BodyOne DEF step, Makes

(* One part after the other, which may refer to what the first ensures.    *)
LEMMA MakesThen ==
  ASSUME NEW known, NEW source, NEW s, NEW t, NEW made, NEW more, NEW then, NEW all,
         Makes(known, source, s, made), Makes(more, source, t, then),
         more \subseteq known \cup made, all \subseteq made \cup then
  PROVE  Makes(known, source, s \o t, all)
<1>1. Body(known, source, s \o t)
  BY BodyJoin DEF Makes
<1>2. AllMade(s \o t) = AllMade(s) \cup AllMade(t)
  BY MadeByBoth DEF Makes, Body
<1> QED
  BY <1>1, <1>2 DEF Makes

LEMMA MakesAlso ==
  ASSUME NEW known, NEW source, NEW s, NEW t, NEW made,
         Makes(known, source, s, made), Body(made, source, t)
  PROVE  Makes(known, source, s \o t, made)
BY MakesThen DEF Makes

LEMMA MakesEach ==
  ASSUME NEW known, NEW source, NEW s, IsSequence(s), NEW f,
         f = [i \in DOMAIN s |-> f[i]], \A i \in DOMAIN s : Body(known, source, f[i])
  PROVE  Makes(known, source, FlattenSeq(f), {})
BY BodyEach DEF Makes

(* Two steps are one after the other.                                      *)
LEMMA Two ==
  ASSUME NEW x, NEW y
  PROVE  <<x, y>> = <<x>> \o <<y>>
<1> DEFINE S == {x, y}
<1>1. <<x>> \in Seq(S) /\ <<y>> \in Seq(S) /\ <<x, y>> \in Seq(S)
  OBVIOUS
<1>2. /\ Len(<<x>>) = 1 /\ Len(<<y>>) = 1 /\ Len(<<x, y>>) = 2
      /\ <<x>>[1] = x /\ <<y>>[1] = y /\ <<x, y>>[1] = x /\ <<x, y>>[2] = y
  OBVIOUS
<1> HIDE DEF S
<1>3. <<x>> \o <<y>> \in Seq(S) /\ Len(<<x>> \o <<y>>) = 2
  BY <1>1, <1>2
<1>4. (<<x>> \o <<y>>)[1] = x /\ (<<x>> \o <<y>>)[2] = y
  BY <1>1, <1>2
<1>5. \A i \in 1 .. 2 : (<<x>> \o <<y>>)[i] = <<x, y>>[i]
  BY <1>2, <1>4
<1> QED
  BY <1>1, <1>2, <1>3, <1>5, SeqEqual

(* The ways in which an asset is brought in.                               *)
LEMMA MakesFound ==
  ASSUME NEW known, NEW source, NEW key, NEW confidence \in Confidences, NEW tags,
         Owed(key.kind, tags) \subseteq {source}
  PROVE  Makes(known, source, Found(key, confidence, tags), {key})
<1>1. Makes(known, source, <<Ensure(key, confidence)>>, {key})
  BY MakesEnsure
<1>2. Makes({key}, source, <<Enrich(key, tags)>>, {})
  BY MakesEnrich, key \in {key}
<1>3. Found(key, confidence, tags) = <<Ensure(key, confidence)>> \o <<Enrich(key, tags)>>
  BY Two DEF Found
<1> QED
  BY <1>1, <1>2, <1>3, MakesThen

LEMMA FoundBody ==
  ASSUME NEW known, NEW source, NEW key, NEW confidence \in Confidences, NEW tags,
         Owed(key.kind, tags) \subseteq {source}
  PROVE  Body(known, source, Found(key, confidence, tags))
BY MakesFound DEF Makes

LEMMA MakesLinked ==
  ASSUME NEW known, NEW source, NEW from, NEW key, NEW confidence \in Confidences, NEW tags,
         NEW kind, from \in known, Owed(key.kind, tags) \subseteq {source}
  PROVE  Makes(known, source, Linked(from, key, confidence, tags, kind), {key})
<1>1. Makes(known, source, Found(key, confidence, tags), {key})
  BY MakesFound
<1>2. Makes({from, key}, source, <<Relate(from, key, kind)>>, {})
  BY MakesRelate, from \in {from, key}, key \in {from, key}
<1> QED
  BY <1>1, <1>2, MakesThen DEF Linked

LEMMA LinkedBody ==
  ASSUME NEW known, NEW source, NEW from, NEW key, NEW confidence \in Confidences, NEW tags,
         NEW kind, from \in known, Owed(key.kind, tags) \subseteq {source}
  PROVE  Body(known, source, Linked(from, key, confidence, tags, kind))
BY MakesLinked DEF Makes

LEMMA MakesJoined ==
  ASSUME NEW known, NEW source, NEW from, NEW key, NEW confidence \in Confidences,
         NEW kind, from \in known
  PROVE  Makes(known, source, Joined(from, key, confidence, kind), {key})
<1>1. Makes(known, source, <<Ensure(key, confidence)>>, {key})
  BY MakesEnsure
<1>2. Makes({from, key}, source, <<Relate(from, key, kind)>>, {})
  BY MakesRelate, from \in {from, key}, key \in {from, key}
<1>3. Joined(from, key, confidence, kind)
        = <<Ensure(key, confidence)>> \o <<Relate(from, key, kind)>>
  BY Two DEF Joined
<1> QED
  BY <1>1, <1>2, <1>3, MakesThen

LEMMA JoinedBody ==
  ASSUME NEW known, NEW source, NEW from, NEW key, NEW confidence \in Confidences,
         NEW kind, from \in known
  PROVE  Body(known, source, Joined(from, key, confidence, kind))
BY MakesJoined DEF Makes

(* Only two kinds of assets owe an observation, and only for some tags.    *)
Plain(kind) == kind \notin {"Endpoint", "JavascriptBundle"}

Harmless(tag) ==
  /\ tag[1] \notin {"api", "javascript", "javascript signal"}
  /\ tag # <<"source", "api_description">>

LEMMA HarmlessTag ==
  ASSUME NEW a, NEW b, a \notin {"api", "javascript", "javascript signal"},
         a # "source" \/ b # "api_description"
  PROVE  Harmless(<<a, b>>)
BY DEF Harmless

LEMMA OwedByKind ==
  ASSUME NEW kind, Plain(kind), NEW tags
  PROVE  Owed(kind, tags) = {}
BY DEF Owed, Plain

LEMMA OwedByTags ==
  ASSUME NEW kind, NEW tags, \A tag \in tags : Harmless(tag)
  PROVE  Owed(kind, tags) = {}
<1>1. /\ <<"api", "public_operation">>[1] = "api"
      /\ <<"javascript", "graphql_operations">>[1] = "javascript"
      /\ <<"javascript", "websocket">>[1] = "javascript"
  OBVIOUS
<1>2. \A tag \in tags : /\ tag # <<"api", "public_operation">>
                        /\ tag # <<"javascript", "graphql_operations">>
                        /\ tag # <<"javascript", "websocket">>
  BY <1>1 DEF Harmless
<1> QED
  BY <1>2 DEF Owed, Harmless

LEMMA KeyFields ==
  ASSUME NEW kind, NEW value
  PROVE  Key(kind, value).kind = kind /\ Key(kind, value).value = value
BY DEF Key

LEMMA SomeConfidences ==
  /\ "Low" \in Confidences /\ "Medium" \in Confidences
  /\ "High" \in Confidences /\ "Confirmed" \in Confidences
BY DEF Confidences

LEMMA PlainKinds ==
  /\ Plain("RootDomain") /\ Plain("Subdomain") /\ Plain("IpAddress")
  /\ Plain("DnsRecord") /\ Plain("CloudResource") /\ Plain("NetworkRange")
  /\ Plain("Asn") /\ Plain("NetworkService") /\ Plain("ThirdPartyService")
  /\ Plain("HistoricalUrl") /\ Plain("Url") /\ Plain("AuthenticationSurface")
  /\ Plain("Technology") /\ Plain("HttpService") /\ Plain("Parameter")
  /\ Plain("WebForm") /\ Plain("Api") /\ Plain("DataModel")
BY DEF Plain

(* The same ways, for an asset that owes nothing.                          *)
LEMMA PlainFound ==
  ASSUME NEW known, NEW source, NEW kind, NEW value, NEW confidence \in Confidences, NEW tags,
         Plain(kind)
  PROVE  Makes(known, source, Found(Key(kind, value), confidence, tags), {Key(kind, value)})
<1> DEFINE key == Key(kind, value)
<1>1. key.kind = kind
  BY KeyFields
<1> HIDE DEF key
<1>2. Owed(key.kind, tags) \subseteq {source}
  BY <1>1, OwedByKind
<1>3. Makes(known, source, Found(key, confidence, tags), {key})
  BY <1>2, MakesFound
<1> QED
  BY <1>3 DEF key

LEMMA PlainFoundBody ==
  ASSUME NEW known, NEW source, NEW kind, NEW value, NEW confidence \in Confidences, NEW tags,
         Plain(kind)
  PROVE  Body(known, source, Found(Key(kind, value), confidence, tags))
BY PlainFound DEF Makes

LEMMA PlainLinked ==
  ASSUME NEW known, NEW source, NEW from, NEW kind, NEW value, NEW confidence \in Confidences,
         NEW tags, NEW relation, from \in known, Plain(kind)
  PROVE  Makes(known, source, Linked(from, Key(kind, value), confidence, tags, relation),
               {Key(kind, value)})
<1> DEFINE key == Key(kind, value)
<1>1. key.kind = kind
  BY KeyFields
<1> HIDE DEF key
<1>2. Owed(key.kind, tags) \subseteq {source}
  BY <1>1, OwedByKind
<1>3. Makes(known, source, Linked(from, key, confidence, tags, relation), {key})
  BY <1>2, MakesLinked
<1> QED
  BY <1>3 DEF key

LEMMA PlainLinkedBody ==
  ASSUME NEW known, NEW source, NEW from, NEW kind, NEW value, NEW confidence \in Confidences,
         NEW tags, NEW relation, from \in known, Plain(kind)
  PROVE  Body(known, source, Linked(from, Key(kind, value), confidence, tags, relation))
BY PlainLinked DEF Makes

(* The n first elements of a list.                                         *)
LEMMA Taken ==
  ASSUME NEW s, IsSequence(s), NEW n \in Nat
  PROVE  /\ IsSequence(Take(s, n)) /\ Len(Take(s, n)) <= Len(s)
         /\ \A i \in DOMAIN Take(s, n) : i \in DOMAIN s /\ Take(s, n)[i] = s[i]
<1> DEFINE m == IF Len(s) < n THEN Len(s) ELSE n
           t == SubSeq(s, 1, m)
<1>1. s \in Seq(ToSet(s)) /\ Len(s) \in Nat /\ m \in 0 .. Len(s) /\ DOMAIN s = 1 .. Len(s)
  BY DEF IsSequence
<1> HIDE DEF m
<1>2. t \in Seq(ToSet(s)) /\ Len(t) = m /\ \A i \in 1 .. m : t[i] = s[i]
  BY <1>1
<1>3. DOMAIN t = 1 .. m
  BY <1>2
<1>4. \A i \in 1 .. m : i \in 1 .. Len(s)
  BY <1>1
<1>5. Take(s, n) = t
  BY DEF Take, m
<1>6. IsSequence(t)
  BY <1>2, SequenceOf
<1> QED
  BY <1>1, <1>2, <1>3, <1>4, <1>5, <1>6

-----------------------------------------------------------------------------
(* The tools.                                                              *)

(* The first step ensures the asset of that key.                           *)
Begins(steps, key) == 1 \in DOMAIN steps /\ steps[1].do = "ensure" /\ steps[1].key = key

LEMMA BeginsBoth ==
  ASSUME NEW s, NEW t, NEW key, IsSequence(s), IsSequence(t), Begins(s, key)
  PROVE  Begins(s \o t, key)
<1>1. /\ Len(s) \in Nat /\ Len(t) \in Nat /\ DOMAIN s = 1 .. Len(s)
      /\ DOMAIN (s \o t) = 1 .. Len(s) + Len(t)
      /\ \A i \in 1 .. Len(s) : (s \o t)[i] = s[i]
  BY Concatenated, Listed
<1>2. 1 \in 1 .. Len(s) /\ 1 \in 1 .. Len(s) + Len(t)
  BY <1>1 DEF Begins
<1> QED
  BY <1>1, <1>2 DEF Begins

LEMMA BeginsFound ==
  ASSUME NEW key, NEW confidence, NEW tags
  PROVE  Begins(Found(key, confidence, tags), key)
<1>1. Ensure(key, confidence).do = "ensure" /\ Ensure(key, confidence).key = key
  BY DEF Ensure
<1> QED
  BY <1>1 DEF Begins, Found

(* An ingestion that observes once, at its end, all that it names.         *)
ObservesAll(source, whole) ==
  \E steps, facts : /\ Makes({}, source, steps, {})
                    /\ whole = steps \o <<Observe(source, Keys(steps), facts)>>

LEMMA DnsObserves ==
  ASSUME NEW r, NEW g, IsSequence(r.addresses)
  PROVE  /\ ObservesAll("DnsQuery", DnsSteps(r, g))
         /\ Begins(DnsSteps(r, g), Key(KindOf(g, Host(r.hostname), "Subdomain"), Host(r.hostname)))
<1> DEFINE host == Key(KindOf(g, Host(r.hostname), "Subdomain"), Host(r.hostname))
           confidence == CASE r.resolved /\ ~r.wildcardMatch -> "Confirmed"
                           [] r.resolved /\ r.wildcardMatch -> "Medium"
                           [] OTHER -> "Low"
           tags == {<<"source", "dns">>, <<"dns", IF r.resolved THEN "resolved" ELSE "unresolved">>}
                   \cup Optional(r.wildcardZone, <<"dns", "wildcard_zone">>)
                   \cup Optional(r.wildcardMatch, <<"dns", "wildcard_match">>)
           Address(address) ==
             Linked(host, Key("IpAddress", Host(address)), "High", {<<"source", "dns">>},
                    "ResolvesTo")
           f == [i \in DOMAIN r.addresses |->
                   IF IsAddress(r.addresses[i]) THEN Address(r.addresses[i]) ELSE <<>>]
           steps == Found(host, confidence, tags) \o FlattenSeq(f)
<1>1. Makes({}, "DnsQuery", Found(host, confidence, tags), {host})
  <2>2. confidence \in Confidences
    BY SomeConfidences
  <2>3. \A tag \in tags : Harmless(tag)
    BY HarmlessTag DEF Optional
  <2>4. Owed(host.kind, tags) = {}
    BY <2>3, OwedByTags
  <2> QED
    BY <2>2, <2>4, MakesFound
<1>2. ASSUME NEW i \in DOMAIN r.addresses
      PROVE  Body({host}, "DnsQuery", f[i])
  <2>1. Body({host}, "DnsQuery", Address(r.addresses[i]))
    BY PlainLinkedBody, PlainKinds, SomeConfidences
  <2>2. Body({host}, "DnsQuery", <<>>)
    BY MakesNone DEF Makes
  <2> QED
    BY <2>1, <2>2
<1>3. Makes({host}, "DnsQuery", FlattenSeq(f), {})
  BY <1>2, MakesEach
<1>4. Makes({}, "DnsQuery", steps, {})
  BY <1>1, <1>3, MakesThen
<1>5. DnsSteps(r, g) = steps \o <<Observe("DnsQuery", Keys(steps), NoFacts)>>
  BY DEF DnsSteps, ForThose
<1>6. Begins(DnsSteps(r, g), host)
  <2> DEFINE first == Found(host, confidence, tags)
             others == FlattenSeq(f)
             last == <<Observe("DnsQuery", Keys(steps), NoFacts)>>
  <2>1. IsSequence(first) /\ IsSequence(others) /\ IsSequence(last) /\ Begins(first, host)
    BY <1>1, <1>3, One, BeginsFound DEF Makes, Body
  <2>2. DnsSteps(r, g) = first \o others \o last
    BY <1>5
  <2> HIDE DEF first, others, last, host
  <2>3. Begins(first \o others, host) /\ IsSequence(first \o others)
    BY <2>1, BeginsBoth, Concatenated
  <2> QED
    BY <2>1, <2>2, <2>3, BeginsBoth
<1> QED
  BY <1>4, <1>5, <1>6 DEF ObservesAll

LEMMA OwnershipObserves ==
  ASSUME NEW r, NEW g, IsSequence(r.records), IsSequence(r.providers)
  PROVE  /\ ObservesAll("DnsOwnership", OwnershipSteps(r, g))
         /\ Begins(OwnershipSteps(r, g),
                   Key(KindOf(g, Host(r.hostname), "Subdomain"), Host(r.hostname)))
<1> DEFINE src == "DnsOwnership"
           host == Key(KindOf(g, Host(r.hostname), "Subdomain"), Host(r.hostname))
           tags == {<<"source", "dns_ownership">>}
           At(part) == Part(Url("https", r.hostname, 0, "/"), part)
           Record(record) ==
             Linked(host, Key("DnsRecord", At(<<"dns", record.type, record.value>>)), "High",
                    tags \cup {<<"dns type", record.type>>}, "Exposes")
           Provider(provider) ==
             Linked(host, Key("CloudResource", At(<<"cloud", Slug(provider)>>)), "Medium",
                    tags \cup {<<"cloud", provider>>}, "HostedOn")
           all == tags \cup Optional(r.dangling, <<"dns", "dangling_candidate">>)
           records == Take(r.records, 500)
           f == [i \in DOMAIN records |-> Record(records[i])]
           h == [i \in DOMAIN r.providers |-> Provider(r.providers[i])]
           steps == Found(host, "High", all) \o FlattenSeq(f) \o FlattenSeq(h)
<1>1. Makes({}, src, Found(host, "High", all), {host})
  <2>1. \A tag \in all : Harmless(tag)
    BY HarmlessTag DEF Optional
  <2> QED
    BY <2>1, OwedByTags, MakesFound, SomeConfidences
<1>2. Makes({host}, src, FlattenSeq(f), {})
  <2>1. IsSequence(records)
    BY Taken
  <2>2. ASSUME NEW i \in DOMAIN records PROVE Body({host}, src, Record(records[i]))
    <3> DEFINE value == At(<<"dns", records[i].type, records[i].value>>)
               more == tags \cup {<<"dns type", records[i].type>>}
    <3> HIDE DEF value, more, host, src
    <3>1. Body({host}, src, Linked(host, Key("DnsRecord", value), "High", more, "Exposes"))
      BY PlainLinkedBody, PlainKinds, SomeConfidences
    <3> QED
      BY <3>1 DEF value, more
  <2> HIDE DEF records, Record, host, src
  <2> QED
    BY <2>1, <2>2, MakesEach
<1>3. Makes({host}, src, FlattenSeq(h), {})
  <2>1. ASSUME NEW i \in DOMAIN r.providers PROVE Body({host}, src, Provider(r.providers[i]))
    BY PlainLinkedBody, PlainKinds, SomeConfidences
  <2> QED
    BY <2>1, MakesEach
<1>4. Makes({}, src, Found(host, "High", all) \o FlattenSeq(f), {host})
  BY <1>1, <1>2, MakesThen
<1>5. Makes({}, src, steps, {})
  BY <1>3, <1>4, MakesThen
<1>6. OwnershipSteps(r, g) = steps \o <<Observe(src, Keys(steps), NoFacts)>>
  BY DEF OwnershipSteps, ForEach
<1>7. Begins(OwnershipSteps(r, g), host)
  <2> DEFINE first == Found(host, "High", all)
             second == FlattenSeq(f)
             third == FlattenSeq(h)
             last == <<Observe(src, Keys(steps), NoFacts)>>
  <2>1. /\ IsSequence(first) /\ IsSequence(second) /\ IsSequence(third) /\ IsSequence(last)
        /\ Begins(first, host)
    BY <1>1, <1>2, <1>3, One, BeginsFound DEF Makes, Body
  <2>2. OwnershipSteps(r, g) = first \o second \o third \o last
    BY <1>6
  <2> HIDE DEF first, second, third, last, host
  <2>3. Begins(first \o second, host) /\ IsSequence(first \o second)
    BY <2>1, BeginsBoth, Concatenated
  <2>4. Begins(first \o second \o third, host) /\ IsSequence(first \o second \o third)
    BY <2>1, <2>3, BeginsBoth, Concatenated
  <2> QED
    BY <2>1, <2>2, <2>4, BeginsBoth
<1> QED
  BY <1>5, <1>6, <1>7 DEF ObservesAll

LEMMA RdapObserves ==
  ASSUME NEW r, IsSequence(r.range), IsSequence(r.asns)
  PROVE  ObservesAll("Rdap", RdapSteps(r))
<1> DEFINE src == "Rdap"
           target == Key(HostKind(r.target, "RootDomain"), Host(r.target))
           tags == {<<"source", "rdap">>}
           At(part) == Part(Url("https", r.target, 0, "/"), part)
           Network(range) ==
             Linked(target, Key("NetworkRange", At(<<"network", range>>)), "High", tags,
                    "RelatedTo")
           Number(asn) ==
             Linked(target, Key("Asn", At(<<"asn", asn>>)), "High", tags, "HostedOn")
           asns == Take(r.asns, 50)
           f == [i \in DOMAIN r.range |-> Network(r.range[i])]
           h == [i \in DOMAIN asns |-> Number(asns[i])]
           steps == Found(target, "High", tags) \o FlattenSeq(f) \o FlattenSeq(h)
<1>1. Makes({}, src, Found(target, "High", tags), {target})
  <2>1. \A tag \in tags : Harmless(tag)
    BY HarmlessTag
  <2> QED
    BY <2>1, OwedByTags, MakesFound, SomeConfidences
<1>2. Makes({target}, src, FlattenSeq(f), {})
  <2>1. ASSUME NEW i \in DOMAIN r.range PROVE Body({target}, src, Network(r.range[i]))
    BY PlainLinkedBody, PlainKinds, SomeConfidences
  <2> QED
    BY <2>1, MakesEach
<1>3. Makes({target}, src, FlattenSeq(h), {})
  <2>1. IsSequence(asns)
    BY Taken
  <2>2. ASSUME NEW i \in DOMAIN asns PROVE Body({target}, src, Number(asns[i]))
    BY PlainLinkedBody, PlainKinds, SomeConfidences
  <2> QED
    BY <2>1, <2>2, MakesEach
<1>4. Makes({}, src, Found(target, "High", tags) \o FlattenSeq(f), {target})
  BY <1>1, <1>2, MakesThen
<1>5. Makes({}, src, steps, {})
  BY <1>3, <1>4, MakesThen
<1>6. RdapSteps(r) = steps \o <<Observe(src, Keys(steps), NoFacts)>>
  BY DEF RdapSteps, ForEach
<1> QED
  BY <1>5, <1>6 DEF ObservesAll

(* Two parts that do not need each other.                                  *)
LEMMA BodyBoth ==
  ASSUME NEW known, NEW source, NEW s, NEW t, Body(known, source, s), Body(known, source, t)
  PROVE  Body(known, source, s \o t)
BY BodyJoin

LEMMA BodyNone ==
  ASSUME NEW known, NEW source
  PROVE  Body(known, source, <<>>)
BY MakesNone DEF Makes

LEMMA ProviderBody ==
  ASSUME NEW src, NEW target, NEW name, NEW source,
         IsSequence(source.addresses), IsSequence(source.hostnames),
         IsSequence(source.services), IsSequence(source.repositories),
         IsSequence(source.pastAddresses)
  PROVE  Body({target}, src, ProviderSteps(target, name, source))
<1> DEFINE tags == {<<"source", source.provider>>}
           At(port) == Part(Url("https", name, port, "/"), <<"external-service">>)
           Address(address) ==
             Linked(target, Key("IpAddress", Host(address)), "Medium", tags, "ResolvesTo")
           Hostname(hostname) == Found(Key("Subdomain", Host(hostname)), "Medium", tags)
           Service(port) ==
             Linked(target, Key("NetworkService", At(port)), "Medium",
                    tags \cup {<<"external", "unverified">>}, "Serves")
           Repository(path) ==
             Linked(target, Key("ThirdPartyService", Url("https", "github.com", 0, path)),
                    "Medium", {<<"source", "github">>}, "References")
           Past(address) ==
             Found(Key("IpAddress", Host(address)), "Low",
                   tags \cup {<<"external", "historical">>})
           addresses == Take(source.addresses, 500)
           hostnames == Take(source.hostnames, 500)
           services == Take(source.services, 200)
           repositories == Take(source.repositories, 100)
           past == source.pastAddresses
           f1 == [i \in DOMAIN addresses |->
                    IF IsAddress(addresses[i]) THEN Address(addresses[i]) ELSE <<>>]
           f2 == [i \in DOMAIN hostnames |-> Hostname(hostnames[i])]
           f3 == [i \in DOMAIN services |-> Service(services[i])]
           f4 == [i \in DOMAIN repositories |-> Repository(repositories[i])]
           f5 == [i \in DOMAIN past |-> IF IsAddress(past[i]) THEN Past(past[i]) ELSE <<>>]
<1>0. /\ IsSequence(addresses) /\ IsSequence(hostnames) /\ IsSequence(services)
      /\ IsSequence(repositories)
  BY Taken
<1>1. ProviderSteps(target, name, source)
        = FlattenSeq(f1) \o FlattenSeq(f2) \o FlattenSeq(f3) \o FlattenSeq(f4) \o FlattenSeq(f5)
  BY DEF ProviderSteps, ForEach, ForThose
<1> HIDE DEF tags, At, addresses, hostnames, services, repositories, past
<1>2. Body({target}, src, FlattenSeq(f1))
  <2>1. ASSUME NEW i \in DOMAIN addresses PROVE Body({target}, src, f1[i])
    BY PlainLinkedBody, PlainKinds, SomeConfidences, BodyNone
  <2> QED
    BY <1>0, <2>1, BodyEach
<1>3. Body({target}, src, FlattenSeq(f2))
  <2>1. ASSUME NEW i \in DOMAIN hostnames PROVE Body({target}, src, f2[i])
    BY PlainFoundBody, PlainKinds, SomeConfidences
  <2> QED
    BY <1>0, <2>1, BodyEach
<1>4. Body({target}, src, FlattenSeq(f3))
  <2> DEFINE more == tags \cup {<<"external", "unverified">>}
  <2>1. f3 = [i \in DOMAIN services |->
                Linked(target, Key("NetworkService", At(services[i])), "Medium", more, "Serves")]
    OBVIOUS
  <2> HIDE DEF f3, more
  <2>2. ASSUME NEW i \in DOMAIN services PROVE Body({target}, src, f3[i])
    BY <2>1, PlainLinkedBody, PlainKinds, SomeConfidences
  <2> QED
    BY <1>0, <2>1, <2>2, BodyEach
<1>5. Body({target}, src, FlattenSeq(f4))
  <2>1. ASSUME NEW i \in DOMAIN repositories PROVE Body({target}, src, f4[i])
    BY PlainLinkedBody, PlainKinds, SomeConfidences
  <2> QED
    BY <1>0, <2>1, BodyEach
<1>6. Body({target}, src, FlattenSeq(f5))
  <2> DEFINE more == tags \cup {<<"external", "historical">>}
  <2>1. f5 = [i \in DOMAIN past |->
                IF IsAddress(past[i]) THEN Found(Key("IpAddress", Host(past[i])), "Low", more)
                ELSE <<>>]
    OBVIOUS
  <2> HIDE DEF f5, more
  <2>2. ASSUME NEW i \in DOMAIN past PROVE Body({target}, src, f5[i])
    BY <2>1, PlainFoundBody, PlainKinds, SomeConfidences, BodyNone
  <2>3. IsSequence(past)
    BY DEF past
  <2> QED
    BY <2>1, <2>2, <2>3, BodyEach
<1> HIDE DEF f1, f2, f3, f4, f5
<1> QED
  BY <1>1, <1>2, <1>3, <1>4, <1>5, <1>6, BodyBoth

LEMMA ExternalObserves ==
  ASSUME NEW r, IsSequence(r.sources),
         \A source \in ToSet(r.sources) : source.success =>
           /\ IsSequence(source.addresses) /\ IsSequence(source.hostnames)
           /\ IsSequence(source.services) /\ IsSequence(source.repositories)
           /\ IsSequence(source.pastAddresses)
  PROVE  ObservesAll("ExternalIntelligence", ExternalSteps(r))
<1> DEFINE src == "ExternalIntelligence"
           target == Key(HostKind(r.target, "RootDomain"), Host(r.target))
           tags == {<<"source", "external_intelligence">>}
           f == [i \in DOMAIN r.sources |->
                   IF r.sources[i].success
                   THEN ProviderSteps(target, r.target, r.sources[i]) ELSE <<>>]
           steps == Found(target, "High", tags) \o FlattenSeq(f)
<1>1. Makes({}, src, Found(target, "High", tags), {target})
  <2>1. \A tag \in tags : Harmless(tag)
    BY HarmlessTag
  <2> QED
    BY <2>1, OwedByTags, MakesFound, SomeConfidences
<1>2. Makes({target}, src, FlattenSeq(f), {})
  <2>1. ASSUME NEW i \in DOMAIN r.sources PROVE Body({target}, src, f[i])
    <3>1. r.sources[i] \in ToSet(r.sources)
      BY DEF ToSet
    <3> HIDE DEF target, src
    <3> QED
      BY <3>1, ProviderBody, BodyNone
  <2> QED
    BY <2>1, MakesEach
<1>3. Makes({}, src, steps, {})
  BY <1>1, <1>2, MakesThen
<1>4. ExternalSteps(r) = steps \o <<Observe(src, Keys(steps), NoFacts)>>
  BY DEF ExternalSteps, ForThose
<1> QED
  BY <1>3, <1>4 DEF ObservesAll

LEMMA HistoricalObserves ==
  ASSUME NEW r, IsSequence(r.subdomains), IsSequence(r.records)
  PROVE  ObservesAll("WebArchive", HistoricalSteps(r))
<1> DEFINE src == "WebArchive"
           root == Key("RootDomain", Host(r.domain))
           tags == {<<"source", "web_archive">>}
           Owned(name) == Linked(root, Key("Subdomain", Host(name)), "Low", tags, "Owns")
           Past(record) == Key("HistoricalUrl", record.url)
           Here(record) == Key("Subdomain", Host(record.url.host))
           Urls(record) ==
             Joined(root, Past(record), "Low", "References")
             \o Joined(Past(record), Key(CurrentKind(record), record.url), "Low",
                       "HistoricalVersionOf")
           Hosted(record) ==
             Owned(record.url.host) \o <<Relate(Here(record), Past(record), "References")>>
           f == [i \in DOMAIN r.subdomains |-> Owned(r.subdomains[i])]
           h == [i \in DOMAIN r.records |->
                   Urls(r.records[i])
                   \o IF Lower(r.records[i].url.host) = Lower(r.domain) THEN <<>>
                      ELSE Hosted(r.records[i])]
           steps == Found(root, "Confirmed", tags) \o FlattenSeq(f) \o FlattenSeq(h)
<1>1. HistoricalSteps(r) = steps \o <<Observe(src, Keys(steps), NoFacts)>>
  BY DEF HistoricalSteps, ForEach
<1>2. Makes({}, src, Found(root, "Confirmed", tags), {root})
  BY PlainFound, PlainKinds, SomeConfidences
<1> HIDE DEF root, src, tags
<1>3. Makes({root}, src, FlattenSeq(f), {})
  <2>1. ASSUME NEW i \in DOMAIN r.subdomains PROVE Body({root}, src, f[i])
    BY PlainLinkedBody, PlainKinds, SomeConfidences
  <2> QED
    BY <2>1, MakesEach
<1>4. ASSUME NEW record
      PROVE  Makes({root}, src, Urls(record), {Past(record)})
  <2> DEFINE past == Past(record)
             today == Key(CurrentKind(record), record.url)
  <2> HIDE DEF past, today
  <2>1. Makes({root}, src, Joined(root, past, "Low", "References"), {past})
    BY MakesJoined, SomeConfidences, root \in {root}
  <2>2. Makes({past}, src, Joined(past, today, "Low", "HistoricalVersionOf"), {today})
    BY MakesJoined, SomeConfidences, past \in {past}
  <2> QED
    BY <2>1, <2>2, MakesThen DEF past, today
<1>5. ASSUME NEW record
      PROVE  Makes({root, Past(record)}, src, Hosted(record), {})
  <2> DEFINE past == Past(record)
             host == Here(record)
  <2>1. Makes({root}, src, Owned(record.url.host), {host})
    BY PlainLinked, PlainKinds, SomeConfidences, root \in {root}
  <2> HIDE DEF past, host, Owned
  <2>2. Makes({host, past}, src, <<Relate(host, past, "References")>>, {})
    BY MakesRelate, host \in {host, past}, past \in {host, past}
  <2>3. Makes({root, past}, src, Owned(record.url.host), {host})
    BY <2>1, BodyLater DEF Makes
  <2> QED
    BY <2>2, <2>3, MakesThen DEF past, host
<1>6. Makes({root}, src, FlattenSeq(h), {})
  <2>1. ASSUME NEW i \in DOMAIN r.records PROVE Body({root}, src, h[i])
    <3> DEFINE record == r.records[i]
    <3>1. Makes({root}, src, Urls(record), {Past(record)})
      BY <1>4
    <3>2. Makes({root, Past(record)}, src, Hosted(record), {})
      BY <1>5
    <3>3. h[i] = Urls(record) \o IF Lower(record.url.host) = Lower(r.domain) THEN <<>>
                                 ELSE Hosted(record)
      OBVIOUS
    <3> HIDE DEF record, h, Urls, Hosted, Past
    <3>4. Makes({root}, src, Urls(record) \o Hosted(record), {})
      BY <3>1, <3>2, MakesThen
    <3>5. Makes({root}, src, Urls(record) \o <<>>, {})
      BY <3>1, MakesNone, MakesThen
    <3> QED
      BY <3>3, <3>4, <3>5 DEF Makes
  <2> HIDE DEF Urls, Hosted
  <2> QED
    BY <2>1, MakesEach
<1> HIDE DEF f, h
<1>7. Makes({}, src, Found(root, "Confirmed", tags) \o FlattenSeq(f), {root})
  BY <1>2, <1>3, MakesThen
<1>8. Makes({}, src, steps, {})
  BY <1>6, <1>7, MakesThen
<1> QED
  BY <1>1, <1>8 DEF ObservesAll, src

LEMMA RenderedBody ==
  ASSUME NEW src, NEW view, IsSequence(view.links), IsSequence(view.scripts)
  PROVE  Body({}, src, RenderedSteps(view))
<1> DEFINE tags == {<<"source", "adaptive_browser">>}
           page == Key("Url", view.url[1])
           linked == tags \cup {<<"browser", "dom_link">>}
           loaded == tags \cup {<<"browser", "loaded_script">>}
           rendered == tags \cup {<<"browser", "rendered">>}
           links == Take(view.links, 500)
           scripts == Take(view.scripts, 200)
           f == [i \in DOMAIN links |->
                   Linked(page, Key("Url", links[i]), "High", linked, "References")]
           h == [i \in DOMAIN scripts |->
                   Linked(page, Key("JavascriptBundle", scripts[i]), "High", loaded,
                          "References")]
<1>1. RenderedSteps(view)
        = IF view.url = <<>> THEN <<>>
          ELSE Found(page, "Confirmed", rendered) \o FlattenSeq(f) \o FlattenSeq(h)
  BY DEF RenderedSteps, ForEach
<1>2. \A kind : Owed(kind, loaded) = {}
  <2>1. \A tag \in loaded : Harmless(tag)
    BY HarmlessTag
  <2> HIDE DEF loaded
  <2> QED
    BY <2>1, OwedByTags
<1>3. IsSequence(links) /\ IsSequence(scripts)
  BY Taken
<1> HIDE DEF linked, loaded, rendered, links, scripts
<1>4. Makes({}, src, Found(page, "Confirmed", rendered), {page})
  BY PlainFound, PlainKinds, SomeConfidences
<1> HIDE DEF page
<1>5. Makes({page}, src, FlattenSeq(f), {})
  <2>1. ASSUME NEW i \in DOMAIN links PROVE Body({page}, src, f[i])
    BY PlainLinkedBody, PlainKinds, SomeConfidences
  <2> QED
    BY <1>3, <2>1, MakesEach
<1>6. Makes({page}, src, FlattenSeq(h), {})
  <2>1. ASSUME NEW i \in DOMAIN scripts PROVE Body({page}, src, h[i])
    BY <1>2, LinkedBody, SomeConfidences, page \in {page}
  <2> QED
    BY <1>3, <2>1, MakesEach
<1> HIDE DEF f, h
<1>7. Makes({}, src, Found(page, "Confirmed", rendered) \o FlattenSeq(f), {page})
  BY <1>4, <1>5, MakesThen
<1>8. Makes({}, src, Found(page, "Confirmed", rendered) \o FlattenSeq(f) \o FlattenSeq(h), {})
  BY <1>6, <1>7, MakesThen
<1> QED
  BY <1>1, <1>8, BodyNone DEF Makes

LEMMA LoadedBody ==
  ASSUME NEW src, NEW event
  PROVE  Body({}, src, LoadedSteps(event))
<1> DEFINE tags == {<<"source", "adaptive_browser">>, <<"browser resource", event.type>>,
                    <<"http status", event.status>>}
           kind == CASE event.type \in {"xhr", "fetch", "websocket", "eventsource"} -> "Endpoint"
                     [] event.type = "script" -> "JavascriptBundle"
                     [] OTHER -> "Url"
           key == Key(kind, event.url)
<1>1. LoadedSteps(event) = Found(key, "Confirmed", tags)
  BY DEF LoadedSteps
<1>2. \A tag \in tags : Harmless(tag)
  BY HarmlessTag
<1> HIDE DEF tags, key
<1> QED
  BY <1>1, <1>2, OwedByTags, FoundBody, SomeConfidences

LEMMA BrowserObserves ==
  ASSUME NEW r, IsSequence(r.views),
         \A view \in ToSet(r.views) :
           IsSequence(view.links) /\ IsSequence(view.scripts) /\ IsSequence(view.events)
  PROVE  ObservesAll("AdaptiveBrowser", BrowserSteps(r))
<1> DEFINE src == "AdaptiveBrowser"
           views == Take(r.views, 4)
           Seen(v, n) ==
             UNION {ToSet(views[w].url) : w \in 1 .. v}
             \cup UNION {{event.url : event \in ToSet(Take(views[w].events, 500))} :
                         w \in 1 .. v - 1}
             \cup {views[v].events[i].url : i \in 1 .. n - 1}
           h(v) == [n \in DOMAIN Take(views[v].events, 500) |->
                      IF views[v].events[n].url \in Seen(v, n) THEN <<>>
                      ELSE LoadedSteps(views[v].events[n])]
           f == [v \in DOMAIN views |-> RenderedSteps(views[v]) \o FlattenSeq(h(v))]
           steps == FlattenSeq(f)
<1>1. BrowserSteps(r) = steps \o <<Observe(src, Keys(steps), NoFacts)>>
  BY DEF BrowserSteps
<1>2. IsSequence(views) /\ \A v \in DOMAIN views : views[v] \in ToSet(r.views)
  BY Taken DEF ToSet
<1> HIDE DEF views, src, Seen
<1>3. ASSUME NEW v \in DOMAIN views PROVE Body({}, src, f[v])
  <2>1. /\ IsSequence(views[v].links) /\ IsSequence(views[v].scripts)
        /\ IsSequence(views[v].events)
    BY <1>2
  <2>2. Body({}, src, RenderedSteps(views[v]))
    BY <2>1, RenderedBody
  <2>3. Body({}, src, FlattenSeq(h(v)))
    <3> DEFINE events == Take(views[v].events, 500)
               g == h(v)
    <3>1. IsSequence(events)
      BY <2>1, Taken
    <3>2. g = [n \in DOMAIN events |-> g[n]]
      OBVIOUS
    <3>3. ASSUME NEW n \in DOMAIN events PROVE Body({}, src, g[n])
      BY LoadedBody, BodyNone
    <3> HIDE DEF g, events, h
    <3>4. Body({}, src, FlattenSeq(g))
      BY <3>1, <3>2, <3>3, BodyEach
    <3> QED
      BY <3>4 DEF g
  <2> HIDE DEF h
  <2> QED
    BY <2>2, <2>3, BodyBoth
<1> HIDE DEF h
<1>4. Makes({}, src, steps, {})
  BY <1>2, <1>3, MakesEach
<1> QED
  BY <1>1, <1>4 DEF ObservesAll, src

LEMMA VisualObserves ==
  ASSUME NEW r, IsSequence(r.technologies)
  PROVE  ObservesAll("VisualAnalysis", VisualSteps(r))
<1> DEFINE src == "VisualAnalysis"
           page == Key("Url", r.url)
           surface == IF r.authentication
                      THEN Joined(page, Key("AuthenticationSurface", r.url), "Medium", "Exposes")
                      ELSE <<>>
           names == Take(r.technologies, 25)
           f == [i \in DOMAIN names |->
                   Joined(page, Key("Technology", Host(names[i])), "Low", "UsesTechnology")]
           steps == <<Ensure(page, "High")>> \o surface \o FlattenSeq(f)
<1>1. VisualSteps(r) = steps \o <<Observe(src, Keys(steps), [NoFacts EXCEPT !.url = r.url])>>
  BY DEF VisualSteps, ForEach
<1>2. IsSequence(names)
  BY Taken
<1> HIDE DEF page, src, names
<1>3. Makes({}, src, <<Ensure(page, "High")>>, {page})
  BY MakesEnsure, SomeConfidences
<1>4. Makes({page}, src, surface, {})
  BY JoinedBody, SomeConfidences, BodyNone, page \in {page} DEF Makes
<1>5. Makes({page}, src, FlattenSeq(f), {})
  <2>1. ASSUME NEW i \in DOMAIN names PROVE Body({page}, src, f[i])
    BY JoinedBody, SomeConfidences, page \in {page}
  <2> QED
    BY <1>2, <2>1, MakesEach
<1> HIDE DEF f, surface
<1>6. Makes({}, src, <<Ensure(page, "High")>> \o surface, {page})
  BY <1>3, <1>4, MakesThen
<1>7. Makes({}, src, steps, {})
  BY <1>5, <1>6, MakesThen
<1> QED
  BY <1>1, <1>7 DEF ObservesAll, src

LEMMA ContentObserves ==
  ASSUME NEW r, IsSequence(r.findings)
  PROVE  ObservesAll("ContentDiscovery", ContentSteps(r))
<1> DEFINE src == "ContentDiscovery"
           service == Key("HttpService", Origin(r.base))
           Present(finding) == finding.status \notin {"missing", "none"}
           tags(finding) == {<<"source", "content_discovery">>, <<"http status", finding.status>>,
                             <<"content", "discovered">>}
           Finding(finding) ==
             Linked(service, Key("Url", finding.url), "High", tags(finding), "Exposes")
           findings == Take(r.findings, 100)
           f == [i \in DOMAIN findings |->
                   IF Present(findings[i]) THEN Finding(findings[i]) ELSE <<>>]
           steps == <<Ensure(service, "High")>> \o FlattenSeq(f)
<1>1. ContentSteps(r) = steps \o <<Observe(src, Keys(steps), NoFacts)>>
  BY DEF ContentSteps, ForThose
<1>2. IsSequence(findings)
  BY Taken
<1> HIDE DEF service, src, findings, tags, Present
<1>3. Makes({}, src, <<Ensure(service, "High")>>, {service})
  BY MakesEnsure, SomeConfidences
<1>4. Makes({service}, src, FlattenSeq(f), {})
  <2>1. ASSUME NEW i \in DOMAIN findings PROVE Body({service}, src, f[i])
    BY PlainLinkedBody, PlainKinds, SomeConfidences, BodyNone
  <2> QED
    BY <1>2, <2>1, MakesEach
<1> HIDE DEF f
<1>5. Makes({}, src, steps, {})
  BY <1>3, <1>4, MakesThen
<1> QED
  BY <1>1, <1>5 DEF ObservesAll, src

-----------------------------------------------------------------------------
(* Parts of the ingestion of a response.                                   *)

LEMMA ParameterBody ==
  ASSUME NEW src, NEW known, NEW parent \in known, NEW base, NEW context, NEW name,
         NEW location, NEW source, NEW required
  PROVE  Body(known, src, ParameterSteps(parent, base, context, name, location, source, required))
<1> DEFINE value == Part(base, <<"parameter">> \o context \o <<Slug(location), Slug(name)>>)
           tags == {<<"source", source>>, <<"parameter location", location>>}
                   \cup Optional(required, <<"parameter", "required">>)
                   \cup {<<"parameter sensitivity", kind>> : kind \in ToSet(Sensitivity(name))}
<1>1. ParameterSteps(parent, base, context, name, location, source, required)
        = IF name = "" THEN <<>>
          ELSE Linked(parent, Key("Parameter", value), "High", tags, "AcceptsInput")
  BY DEF ParameterSteps
<1> HIDE DEF value, tags
<1> QED
  BY <1>1, PlainLinkedBody, PlainKinds, SomeConfidences, BodyNone

LEMMA FormBody ==
  ASSUME NEW src, NEW page, NEW form, NEW index, IsSequence(form.inputs)
  PROVE  Body({page}, src, FormSteps(page, form, index))
<1> DEFINE key == Key("WebForm", Part(form.action, <<"form", form.method, ToString(index)>>))
           action == Key("Url", form.action)
           login == Key("AuthenticationSurface", form.action)
           tags == {<<"source", "web_page">>, <<"form method", form.method>>}
                   \cup Optional(form.password, <<"form", "password">>)
                   \cup Optional(form.upload, <<"form", "file_upload">>)
           linked == {<<"source", "web_form">>, <<"web", "discovered_link">>}
           entry == {<<"source", "web_page">>, <<"auth", "password_form">>}
           inputs == Take(form.inputs, 200)
           context == <<"form", form.method>>
           f == [i \in DOMAIN inputs |->
                   ParameterSteps(key, form.action, context, inputs[i], "form", "web_form", FALSE)]
           s1 == Linked(page, key, "High", tags, "Exposes")
           s2 == FlattenSeq(f)
           s3 == Linked(key, action, "Medium", linked, "References")
           s4 == IF form.password
                 THEN Linked(key, login, "High", entry, "AuthenticatesWith") ELSE <<>>
<1>1. FormSteps(page, form, index) = s1 \o s2 \o s3 \o s4
  BY DEF FormSteps, ForEach
<1>2. IsSequence(inputs)
  BY Taken
<1>3. Makes({page}, src, s1, {key})
  <2> HIDE DEF tags
  <2> QED
    BY PlainLinked, PlainKinds, SomeConfidences, page \in {page}
<1>4. Body({key}, src, s2)
  <2> HIDE DEF key, context, inputs
  <2>1. ASSUME NEW i \in DOMAIN inputs PROVE Body({key}, src, f[i])
    BY ParameterBody, key \in {key}
  <2> QED
    BY <1>2, <2>1, BodyEach
<1>5. Body({key}, src, s3)
  <2> HIDE DEF key, linked
  <2> QED
    BY PlainLinkedBody, PlainKinds, SomeConfidences, key \in {key}
<1>6. Body({key}, src, s4)
  <2> HIDE DEF key, entry
  <2> QED
    BY PlainLinkedBody, PlainKinds, SomeConfidences, BodyNone, key \in {key}
<1> HIDE DEF key, s1, s2, s3, s4
<1>7. Makes({page}, src, s1 \o s2, {key})
  BY <1>3, <1>4, MakesThen DEF Makes
<1>8. Makes({page}, src, s1 \o s2 \o s3, {key})
  BY <1>5, <1>7, MakesThen DEF Makes
<1>9. Makes({page}, src, s1 \o s2 \o s3 \o s4, {key})
  BY <1>6, <1>8, MakesThen DEF Makes
<1> QED
  BY <1>1, <1>9 DEF Makes

LEMMA PageBody ==
  ASSUME NEW src, NEW value, NEW r, IsSequence(r.links), IsSequence(r.forms),
         \A form \in ToSet(r.forms) : IsSequence(form.inputs)
  PROVE  Body({Key("Url", value)}, src, PageSteps(Key("Url", value), r))
<1> DEFINE url == Key("Url", value)
           tags == {<<"source", "web_page">>, <<"web", "analyzed">>}
                   \cup {<<"web signal", signal>> : signal \in r.signals}
           linked == {<<"source", "web_page">>, <<"web", "discovered_link">>}
           forms == Take(r.forms, 100)
           f == [i \in DOMAIN r.links |->
                   Linked(url, Key("Url", r.links[i]), "Medium", linked, "References")]
           h == [i \in DOMAIN forms |-> FormSteps(url, forms[i], i)]
<1>1. PageSteps(url, r) = <<Enrich(url, tags)>> \o FlattenSeq(f) \o FlattenSeq(h)
  BY DEF PageSteps, ForEach
<1>2. IsSequence(forms) /\ \A i \in DOMAIN forms : forms[i] \in ToSet(r.forms)
  BY Taken DEF ToSet
<1>3. Body({url}, src, <<Enrich(url, tags)>>)
  <2>1. Plain(url.kind)
    BY KeyFields, PlainKinds
  <2> HIDE DEF url, tags
  <2>2. Owed(url.kind, tags) \subseteq {src}
    BY <2>1, OwedByKind
  <2> QED
    BY <2>2, MakesEnrich, url \in {url} DEF Makes
<1> HIDE DEF url, tags, linked, forms
<1>4. Body({url}, src, FlattenSeq(f))
  <2>1. ASSUME NEW i \in DOMAIN r.links PROVE Body({url}, src, f[i])
    BY PlainLinkedBody, PlainKinds, SomeConfidences, url \in {url}
  <2> QED
    BY <2>1, BodyEach
<1>5. Body({url}, src, FlattenSeq(h))
  <2>1. ASSUME NEW i \in DOMAIN forms PROVE Body({url}, src, h[i])
    BY <1>2, FormBody
  <2> QED
    BY <1>2, <2>1, BodyEach
<1> HIDE DEF f, h
<1>6. Body({url}, src, <<Enrich(url, tags)>> \o FlattenSeq(f))
  BY <1>3, <1>4, BodyBoth
<1>7. Body({url}, src, <<Enrich(url, tags)>> \o FlattenSeq(f) \o FlattenSeq(h))
  BY <1>5, <1>6, BodyBoth
<1> QED
  BY <1>1, <1>7 DEF url

LEMMA ReferenceBody ==
  ASSUME NEW src, NEW script, NEW r,
         IsSequence(r.endpoints), IsSequence(r.sourceMaps), IsSequence(r.sourceMapCandidates),
         IsSequence(r.imports), IsSequence(r.apis), IsSequence(r.apiBases), IsSequence(r.auths)
  PROVE  Body({script}, src, ReferenceSteps(script, r))
<1> DEFINE profiled == {r.profiles[i].url : i \in DOMAIN r.profiles}
           javascript == {<<"source", "javascript">>}
           declared == javascript \cup {<<"web", "source_map">>}
           guessed == javascript \cup {<<"web", "source_map_candidate">>}
           imported == {<<"source", "javascript_import">>}
           base == javascript \cup {<<"api", "client_base_url">>}
           To(kind, confidence, url) == Joined(script, Key(kind, url), confidence, "References")
           Signed(kind, confidence, tags, url) ==
             Linked(script, Key(kind, url), confidence, tags, "References")
           maps == ToSet(r.sourceMaps)
           f1 == [i \in DOMAIN r.endpoints |->
                    IF r.endpoints[i] \notin profiled
                    THEN To("Endpoint", "Medium", r.endpoints[i]) ELSE <<>>]
           f2 == [i \in DOMAIN r.sourceMaps |-> Signed("Url", "Medium", declared, r.sourceMaps[i])]
           f3 == [i \in DOMAIN r.sourceMapCandidates |->
                    IF r.sourceMapCandidates[i] \notin maps
                    THEN Signed("Url", "Low", guessed, r.sourceMapCandidates[i]) ELSE <<>>]
           f4 == [i \in DOMAIN r.imports |->
                    Signed("JavascriptBundle", "Medium", imported, r.imports[i])]
           f5 == [i \in DOMAIN r.apis |-> To("Api", "Medium", r.apis[i])]
           f6 == [i \in DOMAIN r.apiBases |-> Signed("Api", "Medium", base, r.apiBases[i])]
           f7 == [i \in DOMAIN r.auths |->
                    Signed("AuthenticationSurface", "Medium", javascript, r.auths[i])]
<1>1. ReferenceSteps(script, r)
        = FlattenSeq(f1) \o FlattenSeq(f2) \o FlattenSeq(f3) \o FlattenSeq(f4) \o FlattenSeq(f5)
          \o FlattenSeq(f6) \o FlattenSeq(f7)
  BY DEF ReferenceSteps, ForEach, ForThose
<1>2. \A kind : Owed(kind, imported) = {}
  <2>1. \A tag \in imported : Harmless(tag)
    BY HarmlessTag
  <2> HIDE DEF imported
  <2> QED
    BY <2>1, OwedByTags
<1> HIDE DEF profiled, javascript, declared, guessed, imported, base, maps
<1>a. Body({script}, src, FlattenSeq(f1))
  <2>1. ASSUME NEW i \in DOMAIN r.endpoints PROVE Body({script}, src, f1[i])
    BY JoinedBody, SomeConfidences, BodyNone, script \in {script}
  <2> QED
    BY <2>1, BodyEach
<1>b. Body({script}, src, FlattenSeq(f2))
  <2>1. ASSUME NEW i \in DOMAIN r.sourceMaps PROVE Body({script}, src, f2[i])
    BY PlainLinkedBody, PlainKinds, SomeConfidences, script \in {script}
  <2> QED
    BY <2>1, BodyEach
<1>c. Body({script}, src, FlattenSeq(f3))
  <2>1. ASSUME NEW i \in DOMAIN r.sourceMapCandidates PROVE Body({script}, src, f3[i])
    BY PlainLinkedBody, PlainKinds, SomeConfidences, BodyNone, script \in {script}
  <2> QED
    BY <2>1, BodyEach
<1>d. Body({script}, src, FlattenSeq(f4))
  <2>1. ASSUME NEW i \in DOMAIN r.imports PROVE Body({script}, src, f4[i])
    BY <1>2, LinkedBody, SomeConfidences, script \in {script}
  <2> QED
    BY <2>1, BodyEach
<1>e. Body({script}, src, FlattenSeq(f5))
  <2>1. ASSUME NEW i \in DOMAIN r.apis PROVE Body({script}, src, f5[i])
    BY JoinedBody, SomeConfidences, script \in {script}
  <2> QED
    BY <2>1, BodyEach
<1>f. Body({script}, src, FlattenSeq(f6))
  <2>1. ASSUME NEW i \in DOMAIN r.apiBases PROVE Body({script}, src, f6[i])
    BY PlainLinkedBody, PlainKinds, SomeConfidences, script \in {script}
  <2> QED
    BY <2>1, BodyEach
<1>g. Body({script}, src, FlattenSeq(f7))
  <2>1. ASSUME NEW i \in DOMAIN r.auths PROVE Body({script}, src, f7[i])
    BY PlainLinkedBody, PlainKinds, SomeConfidences, script \in {script}
  <2> QED
    BY <2>1, BodyEach
<1> HIDE DEF f1, f2, f3, f4, f5, f6, f7
<1> QED
  BY <1>1, <1>a, <1>b, <1>c, <1>d, <1>e, <1>f, <1>g, BodyBoth

(* Only an analysis of scripts is owed to a script, only an API            *)
(* description to an endpoint.                                             *)
LEMMA OwedToScript ==
  ASSUME NEW tags
  PROVE  Owed("JavascriptBundle", tags) \subseteq {"JavascriptAnalysis"}
BY DEF Owed

LEMMA OwedToEndpoint ==
  ASSUME NEW tags
  PROVE  Owed("Endpoint", tags) \subseteq {"ApiDescription"}
BY DEF Owed

(* What ScriptSteps makes of a profile.                                    *)
ProfileSteps(script, profile) ==
  LET endpoint == Key("Endpoint", profile.url)
      Input(name) == ParameterSteps(endpoint, profile.url, <<"javascript">>, name, "query",
                                    "javascript", FALSE)
  IN  Linked(script, endpoint, "High",
             {<<"source", "javascript">>}
             \cup {<<"http method", method>> : method \in profile.methods}, "References")
      \o ForEach(Take(profile.parameters, 200), Input)

LEMMA ProfileBody ==
  ASSUME NEW src, NEW script, NEW profile, IsSequence(profile.parameters)
  PROVE  Body({script}, src, ProfileSteps(script, profile))
<1> DEFINE endpoint == Key("Endpoint", profile.url)
           Input(name) == ParameterSteps(endpoint, profile.url, <<"javascript">>, name, "query",
                                         "javascript", FALSE)
           tags == {<<"source", "javascript">>}
                   \cup {<<"http method", method>> : method \in profile.methods}
           names == Take(profile.parameters, 200)
           f == [i \in DOMAIN names |-> Input(names[i])]
           s == Linked(script, endpoint, "High", tags, "References")
<1>1. IsSequence(names)
  BY Taken
<1>2. \A tag \in tags : Harmless(tag)
  BY HarmlessTag
<1> HIDE DEF tags, names
<1>3. Owed(endpoint.kind, tags) \subseteq {src}
  BY <1>2, OwedByTags
<1> HIDE DEF endpoint
<1>4. Makes({script}, src, s, {endpoint})
  BY <1>3, MakesLinked, SomeConfidences, script \in {script}
<1>5. Body({endpoint}, src, FlattenSeq(f))
  <2>1. ASSUME NEW i \in DOMAIN names PROVE Body({endpoint}, src, f[i])
    BY ParameterBody, endpoint \in {endpoint}
  <2> QED
    BY <1>1, <2>1, BodyEach
<1>6. ProfileSteps(script, profile) = s \o FlattenSeq(f)
  BY DEF ProfileSteps, ForEach, s, endpoint, tags, names
<1> HIDE DEF f, s, Input
<1>7. Makes({script}, src, s \o FlattenSeq(f), {endpoint})
  BY <1>4, <1>5, MakesThen DEF Makes
<1> QED
  BY <1>6, <1>7 DEF Makes

LEMMA ScriptBody ==
  ASSUME NEW service, NEW r, IsSequence(r.profiles), IsSequence(r.endpoints),
         IsSequence(r.sourceMaps), IsSequence(r.sourceMapCandidates), IsSequence(r.imports),
         IsSequence(r.apis), IsSequence(r.apiBases), IsSequence(r.auths),
         \A profile \in ToSet(r.profiles) : IsSequence(profile.parameters)
  PROVE  Body({service}, "JavascriptAnalysis", ScriptSteps(service, r))
<1> DEFINE src == "JavascriptAnalysis"
           script == Key("JavascriptBundle", r.url)
           tags == {<<"source", "javascript">>}
                   \cup Optional(r.secrets, <<"javascript", "secret_indicator">>)
                   \cup Optional(r.graphql, <<"javascript", "graphql_operations">>)
                   \cup Optional(r.websocket, <<"javascript", "websocket">>)
                   \cup {<<"javascript signal", kind>> : kind \in r.clientSignals}
           profiles == Take(r.profiles, 500)
           f == [i \in DOMAIN profiles |-> ProfileSteps(script, profiles[i])]
           s1 == Joined(service, script, "High", "References")
           s2 == <<Enrich(script, tags)>>
           s3 == FlattenSeq(f)
           s4 == ReferenceSteps(script, r)
<1>1. ScriptSteps(service, r) = s1 \o s2 \o s3 \o s4
  BY DEF ScriptSteps, ProfileSteps, ForEach
<1>2. IsSequence(profiles) /\ \A i \in DOMAIN profiles : profiles[i] \in ToSet(r.profiles)
  BY Taken DEF ToSet
<1>3. script.kind = "JavascriptBundle"
  BY KeyFields
<1> HIDE DEF script, tags, profiles, src
<1>4. Makes({service}, src, s1, {script})
  BY MakesJoined, SomeConfidences, service \in {service}
<1>5. Body({script}, src, s2)
  <2>1. Owed(script.kind, tags) \subseteq {src}
    BY <1>3, OwedToScript DEF src
  <2> QED
    BY <2>1, MakesEnrich, script \in {script} DEF Makes
<1>6. Body({script}, src, s3)
  <2>1. ASSUME NEW i \in DOMAIN profiles PROVE Body({script}, src, f[i])
    BY <1>2, ProfileBody
  <2> QED
    BY <1>2, <2>1, BodyEach
<1>7. Body({script}, src, s4)
  BY ReferenceBody
<1> HIDE DEF s1, s2, s3, s4
<1>8. Makes({service}, src, s1 \o s2, {script})
  BY <1>4, <1>5, MakesThen DEF Makes
<1>9. Makes({service}, src, s1 \o s2 \o s3, {script})
  BY <1>6, <1>8, MakesThen DEF Makes
<1>10. Makes({service}, src, s1 \o s2 \o s3 \o s4, {script})
  BY <1>7, <1>9, MakesThen DEF Makes
<1> QED
  BY <1>1, <1>10 DEF Makes, src

LEMMA OperationBody ==
  ASSUME NEW api, NEW operation, IsSequence(operation.parameters)
  PROVE  Body({api}, "ApiDescription", OperationSteps(api, operation))
<1> DEFINE src == "ApiDescription"
           endpoint == Key("Endpoint", Part(operation.url, <<"method", operation.method>>))
           context == <<operation.method>>
           tags == {<<"source", "api_description">>, <<"http method", operation.method>>,
                    <<"api", IF operation.authenticated THEN "authentication_required"
                             ELSE "public_operation">>}
                   \cup Optional(operation.deprecated, <<"api", "deprecated">>)
           names == Take(operation.parameters, 200)
           f == [i \in DOMAIN names |->
                   ParameterSteps(endpoint, operation.url, context, names[i].name,
                                  names[i].location, "api_description", names[i].required)]
           s == Linked(api, endpoint, "High", tags, "Exposes")
<1>1. OperationSteps(api, operation) = s \o FlattenSeq(f)
  BY DEF OperationSteps, ForEach
<1>2. IsSequence(names)
  BY Taken
<1>3. endpoint.kind = "Endpoint"
  BY KeyFields
<1> HIDE DEF tags, names, endpoint, context, src
<1>4. Makes({api}, src, s, {endpoint})
  <2>1. Owed(endpoint.kind, tags) \subseteq {src}
    BY <1>3, OwedToEndpoint DEF src
  <2> QED
    BY <2>1, MakesLinked, SomeConfidences, api \in {api}
<1>5. Body({endpoint}, src, FlattenSeq(f))
  <2>1. ASSUME NEW i \in DOMAIN names PROVE Body({endpoint}, src, f[i])
    BY ParameterBody, endpoint \in {endpoint}
  <2> QED
    BY <1>2, <2>1, BodyEach
<1> HIDE DEF f, s
<1>6. Makes({api}, src, s \o FlattenSeq(f), {endpoint})
  BY <1>4, <1>5, MakesThen DEF Makes
<1> QED
  BY <1>1, <1>6 DEF Makes, src

LEMMA ApiBody ==
  ASSUME NEW r, IsSequence(r.format), IsSequence(r.operations), IsSequence(r.paths),
         IsSequence(r.servers), IsSequence(r.schemes), IsSequence(r.schemas),
         \A operation \in ToSet(r.operations) : IsSequence(operation.parameters)
  PROVE  Body({}, "ApiDescription", ApiSteps(r))
<1> DEFINE src == "ApiDescription"
           api == Key("Api", r.url)
           described == {<<"source", "api_description">>}
           profiled == {r.operations[i].url : i \in DOMAIN r.operations}
           Tags(group, name) == described \cup {<<group, name>>}
           At(part) == Part(r.url, part)
           operations == Take(r.operations, 500)
           schemes == Take(r.schemes, 100)
           f1 == [i \in DOMAIN r.format |-> <<Enrich(api, Tags("api format", r.format[i]))>>]
           f2 == [i \in DOMAIN operations |-> OperationSteps(api, operations[i])]
           f3 == [i \in DOMAIN r.paths |->
                    IF r.paths[i] \notin profiled
                    THEN Joined(api, Key("Endpoint", r.paths[i]), "High", "Exposes") ELSE <<>>]
           f4 == [i \in DOMAIN r.servers |->
                    Joined(api, Key("HttpService", r.servers[i]), "High", "HostedOn")]
           f5 == [i \in DOMAIN schemes |->
                    Linked(api, Key("AuthenticationSurface", At(<<"auth-scheme", schemes[i].name>>)),
                           "High", Tags("auth kind", schemes[i].kind), "AuthenticatesWith")]
           f6 == [i \in DOMAIN r.schemas |->
                    Linked(api, Key("DataModel", At(<<"schema", Slug(r.schemas[i])>>)), "High",
                           described, "Describes")]
           s0 == <<Ensure(api, "High")>>
<1>1. ApiSteps(r)
        = s0 \o FlattenSeq(f1) \o FlattenSeq(f2) \o FlattenSeq(f3) \o FlattenSeq(f4)
          \o FlattenSeq(f5) \o FlattenSeq(f6)
  BY DEF ApiSteps, ForEach, ForThose
<1>2. /\ IsSequence(operations) /\ IsSequence(schemes)
      /\ \A i \in DOMAIN operations : operations[i] \in ToSet(r.operations)
  BY Taken DEF ToSet
<1>3. Plain(api.kind)
  BY KeyFields, PlainKinds
<1> HIDE DEF api, described, profiled, Tags, At, operations, schemes, src
<1>4. Makes({}, src, s0, {api})
  BY MakesEnsure, SomeConfidences
<1>a. Body({api}, src, FlattenSeq(f1))
  <2>1. ASSUME NEW i \in DOMAIN r.format PROVE Body({api}, src, f1[i])
    <3> DEFINE tags == Tags("api format", r.format[i])
    <3>1. f1[i] = <<Enrich(api, tags)>>
      OBVIOUS
    <3> HIDE DEF tags, f1
    <3>2. Owed(api.kind, tags) \subseteq {src}
      BY <1>3, OwedByKind
    <3> QED
      BY <3>1, <3>2, MakesEnrich, api \in {api} DEF Makes
  <2> QED
    BY <2>1, BodyEach
<1>b. Body({api}, src, FlattenSeq(f2))
  <2>1. ASSUME NEW i \in DOMAIN operations PROVE Body({api}, src, f2[i])
    BY <1>2, OperationBody DEF src
  <2> QED
    BY <1>2, <2>1, BodyEach
<1>c. Body({api}, src, FlattenSeq(f3))
  <2>1. ASSUME NEW i \in DOMAIN r.paths PROVE Body({api}, src, f3[i])
    BY JoinedBody, SomeConfidences, BodyNone, api \in {api}
  <2> QED
    BY <2>1, BodyEach
<1>d. Body({api}, src, FlattenSeq(f4))
  <2>1. ASSUME NEW i \in DOMAIN r.servers PROVE Body({api}, src, f4[i])
    BY JoinedBody, SomeConfidences, api \in {api}
  <2> QED
    BY <2>1, BodyEach
<1>e. Body({api}, src, FlattenSeq(f5))
  <2>1. ASSUME NEW i \in DOMAIN schemes PROVE Body({api}, src, f5[i])
    <3> DEFINE value == At(<<"auth-scheme", schemes[i].name>>)
               tags == Tags("auth kind", schemes[i].kind)
    <3>1. f5[i] = Linked(api, Key("AuthenticationSurface", value), "High", tags,
                         "AuthenticatesWith")
      OBVIOUS
    <3> HIDE DEF value, tags, f5
    <3> QED
      BY <3>1, PlainLinkedBody, PlainKinds, SomeConfidences, api \in {api}
  <2> QED
    BY <1>2, <2>1, BodyEach
<1>f. Body({api}, src, FlattenSeq(f6))
  <2>1. ASSUME NEW i \in DOMAIN r.schemas PROVE Body({api}, src, f6[i])
    BY PlainLinkedBody, PlainKinds, SomeConfidences, api \in {api}
  <2> QED
    BY <2>1, BodyEach
<1> HIDE DEF f1, f2, f3, f4, f5, f6, s0
<1>g. Makes({}, src, s0 \o FlattenSeq(f1), {api})
  BY <1>4, <1>a, MakesAlso
<1>h. Makes({}, src, s0 \o FlattenSeq(f1) \o FlattenSeq(f2), {api})
  BY <1>b, <1>g, MakesAlso
<1>i. Makes({}, src, s0 \o FlattenSeq(f1) \o FlattenSeq(f2) \o FlattenSeq(f3), {api})
  BY <1>c, <1>h, MakesAlso
<1>j. Makes({}, src, s0 \o FlattenSeq(f1) \o FlattenSeq(f2) \o FlattenSeq(f3) \o FlattenSeq(f4),
            {api})
  BY <1>d, <1>i, MakesAlso
<1>k. Makes({}, src, s0 \o FlattenSeq(f1) \o FlattenSeq(f2) \o FlattenSeq(f3) \o FlattenSeq(f4)
                     \o FlattenSeq(f5), {api})
  BY <1>e, <1>j, MakesAlso
<1>l. Makes({}, src, s0 \o FlattenSeq(f1) \o FlattenSeq(f2) \o FlattenSeq(f3) \o FlattenSeq(f4)
                     \o FlattenSeq(f5) \o FlattenSeq(f6), {api})
  BY <1>f, <1>k, MakesAlso
<1> QED
  BY <1>1, <1>l DEF Makes, src

-----------------------------------------------------------------------------
(* What explains an asset, and what is owed to it.                         *)

(* A step that leads to the asset from another one.                        *)
Linking(step, key) ==
  /\ step.do = "relate" /\ SameIdentity(step.to, key) /\ ~SameIdentity(step.key, key)
  /\ key.kind # "AuthenticationSurface"

(* Once the subjects have been observed, all that was ensured is explained *)
(* and nothing is owed.                                                    *)
Settled(steps, subjects) ==
  \A n \in DOMAIN steps :
    /\ steps[n].do = "ensure" =>
         \/ \E key \in subjects : SameIdentity(key, steps[n].key)
         \/ \E m \in DOMAIN steps : m > n /\ Linking(steps[m], steps[n].key)
    /\ steps[n].do = "enrich" =>
         steps[n].key \in subjects \/ Owed(steps[n].key.kind, steps[n].tags) = {}

LEMMA SettledKeys ==
  ASSUME NEW s, NEW subjects, Keys(s) \subseteq subjects
  PROVE  Settled(s, subjects)
BY DEF Settled, Keys, SameIdentity

LEMMA SettledNone ==
  ASSUME NEW subjects
  PROVE  Settled(<<>>, subjects)
BY DEF Settled

LEMMA SettledBoth ==
  ASSUME NEW s, NEW t, NEW subjects, IsSequence(s), IsSequence(t), Settled(s, subjects),
         Settled(t, subjects)
  PROVE  Settled(s \o t, subjects)
<1> DEFINE u == s \o t
<1>1. /\ Len(s) \in Nat /\ DOMAIN s = 1 .. Len(s)
      /\ Len(t) \in Nat /\ DOMAIN t = 1 .. Len(t)
  BY Listed
<1>2. /\ DOMAIN u = 1 .. Len(s) + Len(t)
      /\ \A i \in 1 .. Len(s) : u[i] = s[i]
      /\ \A i \in 1 .. Len(t) : u[Len(s) + i] = t[i]
  BY Concatenated
<1> HIDE DEF u
<1>3. ASSUME NEW n \in DOMAIN u
      PROVE  /\ u[n].do = "ensure" =>
                  \/ \E key \in subjects : SameIdentity(key, u[n].key)
                  \/ \E m \in DOMAIN u : m > n /\ Linking(u[m], u[n].key)
             /\ u[n].do = "enrich" =>
                  u[n].key \in subjects \/ Owed(u[n].key.kind, u[n].tags) = {}
  <2>1. CASE n <= Len(s)
    <3>1. n \in DOMAIN s /\ u[n] = s[n]
      BY <1>1, <1>2, <2>1
    <3>2. \A m \in DOMAIN s : m \in DOMAIN u /\ u[m] = s[m]
      BY <1>1, <1>2
    <3> QED
      BY <3>1, <3>2 DEF Settled
  <2>2. CASE n > Len(s)
    <3> DEFINE k == n - Len(s)
    <3>1. k \in DOMAIN t /\ n = Len(s) + k
      BY <1>1, <1>2, <2>2
    <3>2. u[n] = t[k]
      BY <1>1, <1>2, <3>1
    <3>3. \A m \in DOMAIN t : Len(s) + m \in DOMAIN u /\ u[Len(s) + m] = t[m]
      BY <1>1, <1>2
    <3>4. \A m \in DOMAIN t : m > k => Len(s) + m > n
      BY <1>1, <3>1
    <3> HIDE DEF k
    <3> QED
      BY <3>1, <3>2, <3>3, <3>4 DEF Settled
  <2> QED
    BY <1>1, <1>2, <2>1, <2>2
<1> QED
  BY <1>3 DEF Settled, u

LEMMA SettledEach ==
  ASSUME NEW s, IsSequence(s), NEW subjects, NEW f, f = [i \in DOMAIN s |-> f[i]],
         \A i \in DOMAIN s : IsSequence(f[i]) /\ Settled(f[i], subjects)
  PROVE  Settled(FlattenSeq(f), subjects)
<1> DEFINE n == Len(s)
           flat == FlattenSeq(f)
<1>1. n \in Nat /\ DOMAIN s = 1 .. n
  BY Listed
<1> HIDE DEF n
<1>2. Covers(flat, f, n)
  BY <1>1, Flattened
<1> HIDE DEF flat
<1>3. ASSUME NEW k \in DOMAIN flat
      PROVE  /\ flat[k].do = "ensure" =>
                  \/ \E key \in subjects : SameIdentity(key, flat[k].key)
                  \/ \E m \in DOMAIN flat : m > k /\ Linking(flat[m], flat[k].key)
             /\ flat[k].do = "enrich" =>
                  flat[k].key \in subjects \/ Owed(flat[k].key.kind, flat[k].tags) = {}
  <2>1. PICK i \in 1 .. n, j \in Nat, off \in Nat :
          /\ j \in DOMAIN f[i] /\ k = off + j
          /\ \A l \in DOMAIN f[i] : off + l \in DOMAIN flat /\ flat[off + l] = f[i][l]
    BY <1>2 DEF Covers, Within
  <2>2. flat[k] = f[i][j]
    BY <2>1
  <2>3. \A m \in DOMAIN f[i] : m > j => off + m > k
    <3>1. DOMAIN f[i] = 1 .. Len(f[i]) /\ Len(f[i]) \in Nat
      BY <1>1, Listed
    <3> QED
      BY <2>1, <3>1
  <2>4. Settled(f[i], subjects)
    BY <1>1
  <2> QED
    BY <2>1, <2>2, <2>3, <2>4 DEF Settled
<1> QED
  BY <1>3 DEF Settled, flat

(* What is found, and is known under another spelling.                     *)
LEMMA SettledFound ==
  ASSUME NEW subjects, NEW known \in subjects, NEW key, SameIdentity(known, key),
         NEW confidence, NEW tags, Owed(key.kind, tags) = {}
  PROVE  Settled(Found(key, confidence, tags), subjects)
<1> DEFINE x == Ensure(key, confidence)
           y == Enrich(key, tags)
<1>1. x.do = "ensure" /\ x.key = key /\ y.do = "enrich" /\ y.key = key /\ y.tags = tags
  BY DEF Ensure, Enrich
<1> HIDE DEF x, y
<1>2. DOMAIN <<x, y>> = {1, 2} /\ <<x, y>>[1] = x /\ <<x, y>>[2] = y
  OBVIOUS
<1> DEFINE s == <<x, y>>
<1> HIDE DEF s
<1>3. Settled(s, subjects)
  BY <1>1, <1>2 DEF Settled, s
<1> QED
  BY <1>3 DEF Found, s, x, y

LEMMA SettledLinked ==
  ASSUME NEW subjects, NEW from, NEW key, ~SameIdentity(from, key),
         key.kind # "AuthenticationSurface", NEW confidence, NEW tags,
         Owed(key.kind, tags) = {}, NEW kind
  PROVE  Settled(Linked(from, key, confidence, tags, kind), subjects)
<1> DEFINE x == Ensure(key, confidence)
           y == Enrich(key, tags)
           z == Relate(from, key, kind)
           s == <<x, y>> \o <<z>>
<1>1. /\ x.do = "ensure" /\ x.key = key /\ y.do = "enrich" /\ y.key = key /\ y.tags = tags
      /\ z.do = "relate" /\ z.key = from /\ z.to = key
  BY DEF Ensure, Enrich, Relate
<1> HIDE DEF x, y, z
<1>2. /\ IsSequence(<<x, y>>) /\ Len(<<x, y>>) = 2
      /\ <<x, y>>[1] = x /\ <<x, y>>[2] = y
  <2>1. <<x, y>> \in Seq({x, y})
    OBVIOUS
  <2> QED
    BY <2>1, SequenceOf
<1>3. DOMAIN s = {1, 2, 3} /\ s[1] = x /\ s[2] = y /\ s[3] = z
  <2>1. /\ DOMAIN s = 1 .. 2 + 1 /\ \A i \in 1 .. 2 : s[i] = <<x, y>>[i]
        /\ \A i \in 1 .. 1 : s[2 + i] = <<z>>[i]
    BY <1>2, One, Concatenated
  <2>2. 2 + 1 = 3 /\ 1 .. 3 = {1, 2, 3} /\ 1 \in 1 .. 1 /\ 1 \in 1 .. 2 /\ 2 \in 1 .. 2
    OBVIOUS
  <2> QED
    BY <1>2, <2>1, <2>2, One
<1> HIDE DEF s
<1>4. Linking(z, key)
  BY <1>1 DEF Linking, SameIdentity
<1>5. Settled(s, subjects)
  BY <1>1, <1>3, <1>4 DEF Settled
<1> QED
  BY <1>5 DEF Linked, Found, s, x, y, z

LEMMA SettledJoined ==
  ASSUME NEW subjects, NEW from, NEW key, NEW confidence, NEW kind,
         \/ from \in subjects /\ SameIdentity(from, key)
         \/ ~SameIdentity(from, key) /\ key.kind # "AuthenticationSurface"
  PROVE  Settled(Joined(from, key, confidence, kind), subjects)
<1> DEFINE x == Ensure(key, confidence)
           z == Relate(from, key, kind)
           s == <<x, z>>
<1>1. /\ x.do = "ensure" /\ x.key = key
      /\ z.do = "relate" /\ z.key = from /\ z.to = key
  BY DEF Ensure, Relate
<1> HIDE DEF x, z
<1>2. DOMAIN s = {1, 2} /\ s[1] = x /\ s[2] = z
  OBVIOUS
<1> HIDE DEF s
<1>3. \/ \E known \in subjects : SameIdentity(known, key)
      \/ Linking(z, key)
  BY <1>1 DEF Linking, SameIdentity
<1>4. Settled(s, subjects)
  BY <1>1, <1>2, <1>3 DEF Settled
<1> QED
  BY <1>4 DEF Joined, s, x, z

-----------------------------------------------------------------------------
(* Complete ingestions.                                                    *)

Observes(step, source, key) ==
  /\ step.do = "observe" /\ step.source = source
  /\ \E subject \in step.subjects : SameIdentity(subject, key)

Explains(step, key) ==
  \/ Linking(step, key)
  \/ step.do = "observe" /\ \E subject \in step.subjects : SameIdentity(subject, key)

(* A later step explains what a step ensures, and later steps of the       *)
(* sources to which it owes that observe what a step enriches.             *)
Closing(steps, n) ==
  /\ steps[n].do = "ensure" => \E m \in DOMAIN steps : m > n /\ Explains(steps[m], steps[n].key)
  /\ steps[n].do = "enrich" =>
       \A source \in Owed(steps[n].key.kind, steps[n].tags) :
         \E m \in DOMAIN steps : m > n /\ Observes(steps[m], source, steps[n].key)

StepOK(step) ==
  /\ step.do \in {"ensure", "enrich", "relate", "observe"}
  /\ step.do = "ensure" => step.confidence \in Confidences

Complete(steps) ==
  /\ IsSequence(steps)
  /\ \A n \in DOMAIN steps :
       StepOK(steps[n]) /\ Needs(steps[n]) \subseteq Made(steps, n) /\ Closing(steps, n)

(* The keys of a part were ensured in it or before.                        *)
LEMMA KeysMade ==
  ASSUME NEW known, NEW source, NEW s, Body(known, source, s)
  PROVE  Keys(s) \subseteq known \cup AllMade(s)
<1> SUFFICES ASSUME NEW n \in DOMAIN s
             PROVE  s[n].key \in known \cup AllMade(s)
  BY DEF Keys
<1>1. Made(s, n) \subseteq AllMade(s)
  <2>1. DOMAIN s = 1 .. Len(s) /\ Len(s) \in Nat
    BY Listed DEF Body
  <2>2. \A m \in 1 .. n - 1 : m \in DOMAIN s
    BY <2>1
  <2> QED
    BY <2>2 DEF Made, AllMade
<1>2. BodyStep(source, s[n]) /\ Needs(s[n]) \subseteq known \cup Made(s, n)
  BY DEF Body
<1>3. CASE s[n].do = "ensure"
  BY <1>3 DEF AllMade
<1>4. CASE s[n].do = "enrich" \/ s[n].do = "relate"
  BY <1>1, <1>2, <1>4 DEF Needs
<1> QED
  BY <1>2, <1>3, <1>4 DEF BodyStep

LEMMA KeysBoth ==
  ASSUME NEW s, NEW t, IsSequence(s), IsSequence(t)
  PROVE  Keys(s \o t) = Keys(s) \cup Keys(t)
<1> DEFINE u == s \o t
<1>1. /\ Len(s) \in Nat /\ DOMAIN s = 1 .. Len(s)
      /\ Len(t) \in Nat /\ DOMAIN t = 1 .. Len(t)
  BY Listed
<1>2. /\ DOMAIN u = 1 .. Len(s) + Len(t)
      /\ \A i \in 1 .. Len(s) : u[i] = s[i]
      /\ \A i \in 1 .. Len(t) : u[Len(s) + i] = t[i]
  BY Concatenated
<1> HIDE DEF u
<1>3. ASSUME NEW m \in DOMAIN u
      PROVE  \/ m \in DOMAIN s /\ u[m] = s[m]
             \/ \E i \in DOMAIN t : u[m] = t[i]
  <2>1. CASE m <= Len(s)
    BY <1>1, <1>2, <2>1
  <2>2. CASE m > Len(s)
    <3>1. m - Len(s) \in DOMAIN t /\ Len(s) + (m - Len(s)) = m
      BY <1>1, <1>2, <2>2
    <3> QED
      BY <1>1, <1>2, <3>1
  <2> QED
    BY <1>1, <1>2, <2>1, <2>2
<1>4. Keys(u) \subseteq Keys(s) \cup Keys(t)
  BY <1>3 DEF Keys
<1>5. Keys(s) \subseteq Keys(u)
  <2>1. \A m \in DOMAIN s : m \in DOMAIN u /\ u[m] = s[m]
    BY <1>1, <1>2
  <2> QED
    BY <2>1 DEF Keys
<1>6. Keys(t) \subseteq Keys(u)
  <2>1. \A m \in DOMAIN t : Len(s) + m \in DOMAIN u /\ u[Len(s) + m] = t[m]
    BY <1>1, <1>2
  <2> QED
    BY <2>1 DEF Keys
<1> QED
  BY <1>4, <1>5, <1>6 DEF u

(* The shape of every ingestion but that of the target: a part in which    *)
(* nothing is observed, an observation that settles it, and more of them.  *)
LEMMA IngestedAndMore ==
  ASSUME NEW source, NEW steps, NEW subjects, NEW facts, NEW rest,
         Makes({}, source, steps, {}), Settled(steps, subjects),
         subjects \subseteq AllMade(steps), IsSequence(rest),
         \A n \in DOMAIN rest : rest[n].do = "observe" /\ rest[n].subjects \subseteq AllMade(steps)
  PROVE  Complete(steps \o <<Observe(source, subjects, facts)>> \o rest)
<1> DEFINE o == Observe(source, subjects, facts)
           p == <<o>>
           q == p \o rest
           w == steps \o q
           len == Len(steps)
<1>0. o.do = "observe" /\ o.source = source /\ o.subjects = subjects
  BY DEF Observe
<1> HIDE DEF o
<1>1. IsSequence(steps) /\ IsSequence(p) /\ IsSequence(q) /\ IsSequence(rest)
  BY One, Concatenated DEF Makes, Body
<1>2. /\ len \in Nat /\ DOMAIN steps = 1 .. len
      /\ Len(rest) \in Nat /\ DOMAIN rest = 1 .. Len(rest)
  BY <1>1, Listed
<1>3. /\ Len(q) = 1 + Len(rest) /\ DOMAIN q = 1 .. 1 + Len(rest)
      /\ q[1] = o /\ \A i \in 1 .. Len(rest) : q[1 + i] = rest[i]
  <2>1. Len(p) = 1 /\ p[1] = o /\ 1 \in 1 .. 1
    BY One
  <2> HIDE DEF p
  <2>2. /\ Len(q) = Len(p) + Len(rest) /\ DOMAIN q = 1 .. Len(p) + Len(rest)
        /\ \A i \in 1 .. Len(p) : q[i] = p[i]
        /\ \A i \in 1 .. Len(rest) : q[Len(p) + i] = rest[i]
    BY <1>1, Concatenated
  <2> HIDE DEF q
  <2> QED
    BY <2>1, <2>2
<1>4. \A i \in DOMAIN q : /\ q[i].do = "observe" /\ q[i].subjects \subseteq AllMade(steps)
                          /\ len + i \in DOMAIN w /\ w[len + i] = q[i]
  <2> TAKE i \in DOMAIN q
  <2>1. q[i].do = "observe" /\ q[i].subjects \subseteq AllMade(steps)
    <3>1. CASE i = 1
      BY <1>0, <1>3, <3>1
    <3>2. CASE i # 1
      <4>1. i - 1 \in 1 .. Len(rest) /\ 1 + (i - 1) = i
        BY <1>2, <1>3, <3>2
      <4> QED
        BY <1>2, <1>3, <4>1
    <3> QED
      BY <3>1, <3>2
  <2>2. len + i \in DOMAIN w /\ w[len + i] = q[i]
    <3> HIDE DEF q
    <3>1. DOMAIN w = 1 .. len + Len(q) /\ \A j \in 1 .. Len(q) : w[len + j] = q[j]
      BY <1>1, Concatenated
    <3> HIDE DEF w, len
    <3> QED
      BY <1>2, <1>3, <3>1
  <2> QED
    BY <2>1, <2>2
<1> HIDE DEF q
<1>5. /\ IsSequence(w) /\ DOMAIN w = 1 .. len + Len(q)
      /\ \A i \in DOMAIN steps : i \in DOMAIN w /\ w[i] = steps[i]
  <2>1. /\ IsSequence(w) /\ DOMAIN w = 1 .. len + Len(q)
        /\ \A i \in 1 .. len : w[i] = steps[i]
    BY <1>1, Concatenated
  <2> HIDE DEF w, len
  <2> QED
    BY <1>2, <1>3, <2>1
<1>6. /\ \A n \in 1 .. len : Made(w, n) = Made(steps, n)
      /\ \A n \in 1 .. Len(q) : Made(w, len + n) = AllMade(steps) \cup Made(q, n)
  BY <1>1, MadeByBoth
<1>7. len + 1 \in DOMAIN w /\ w[len + 1] = o
  <2>1. 1 \in DOMAIN q
    BY <1>2, <1>3
  <2> QED
    BY <1>3, <1>4, <2>1
<1>8. w = steps \o <<o>> \o rest
  <2> DEFINE S == ToSet(steps) \cup ToSet(p) \cup ToSet(rest)
  <2>1. steps \in Seq(S) /\ p \in Seq(S) /\ rest \in Seq(S)
    BY <1>1, SeqMonotonic DEF IsSequence
  <2> HIDE DEF S
  <2> QED
    BY <2>1, ConcatAssociative DEF q
<1> HIDE DEF w, len, p
<1>9. ASSUME NEW n \in DOMAIN w
      PROVE  StepOK(w[n]) /\ Needs(w[n]) \subseteq Made(w, n) /\ Closing(w, n)
  <2>1. CASE n <= len
    <3>1. n \in DOMAIN steps /\ w[n] = steps[n] /\ Made(w, n) = Made(steps, n)
      BY <1>2, <1>5, <1>6, <2>1
    <3>2. BodyStep(source, w[n]) /\ Needs(w[n]) \subseteq Made(w, n)
      BY <3>1 DEF Makes, Body
    <3>3. StepOK(w[n])
      BY <3>2 DEF BodyStep, StepOK
    <3>4. len + 1 > n
      BY <1>2, <2>1, <3>1
    <3>5. ASSUME w[n].do = "ensure"
          PROVE  \E m \in DOMAIN w : m > n /\ Explains(w[m], w[n].key)
      <4>1. CASE \E key \in subjects : SameIdentity(key, w[n].key)
        BY <1>0, <1>7, <3>4, <4>1 DEF Explains
      <4>2. CASE \E m \in DOMAIN steps : m > n /\ Linking(steps[m], steps[n].key)
        BY <1>5, <3>1, <4>2 DEF Explains
      <4> QED
        BY <3>1, <3>5, <4>1, <4>2 DEF Settled
    <3>6. ASSUME w[n].do = "enrich", NEW owed \in Owed(w[n].key.kind, w[n].tags)
          PROVE  \E m \in DOMAIN w : m > n /\ Observes(w[m], owed, w[n].key)
      <4>1. w[n].key \in subjects
        BY <3>1, <3>6 DEF Settled
      <4>2. owed = source
        BY <3>2, <3>6 DEF BodyStep
      <4>3. Observes(o, owed, w[n].key)
        BY <1>0, <4>1, <4>2 DEF Observes, SameIdentity
      <4> QED
        BY <1>7, <3>4, <4>3
    <3> QED
      BY <3>2, <3>3, <3>5, <3>6 DEF Closing
  <2>2. CASE n > len
    <3> DEFINE k == n - len
    <3>1. k \in DOMAIN q /\ k \in 1 .. Len(q) /\ n = len + k
      BY <1>2, <1>3, <1>5, <2>2
    <3> HIDE DEF k
    <3>2. w[n].do = "observe" /\ w[n].subjects \subseteq Made(w, n)
      BY <1>4, <1>6, <3>1
    <3> QED
      BY <3>2 DEF StepOK, Needs, Closing
  <2> QED
    BY <1>2, <1>5, <2>1, <2>2
<1> QED
  BY <1>5, <1>8, <1>9 DEF Complete, o

LEMMA IngestedOnce ==
  ASSUME NEW source, NEW steps, NEW subjects, NEW facts,
         Makes({}, source, steps, {}), Settled(steps, subjects),
         subjects \subseteq AllMade(steps)
  PROVE  Complete(steps \o <<Observe(source, subjects, facts)>>)
<1> DEFINE most == steps \o <<Observe(source, subjects, facts)>>
<1>1. IsSequence(<<>>) /\ DOMAIN <<>> = {}
  BY DEF IsSequence
<1>2. most \o <<>> = most
  <2>1. IsSequence(most)
    BY One, Concatenated DEF Makes, Body
  <2> HIDE DEF most
  <2> QED
    BY <2>1, ConcatEmptySeq DEF IsSequence
<1>3. Complete(most \o <<>>)
  BY <1>1, IngestedAndMore
<1> QED
  BY <1>2, <1>3

LEMMA ObservedAll ==
  ASSUME NEW source, NEW whole, ObservesAll(source, whole)
  PROVE  Complete(whole)
<1>1. PICK steps, facts : /\ Makes({}, source, steps, {})
                          /\ whole = steps \o <<Observe(source, Keys(steps), facts)>>
  BY DEF ObservesAll
<1>2. Keys(steps) \subseteq AllMade(steps) /\ Settled(steps, Keys(steps))
  BY <1>1, KeysMade, SettledKeys DEF Makes
<1> QED
  BY <1>1, <1>2, IngestedOnce

LEMMA FoldedHost ==
  ASSUME NEW a, NEW b, Lower(a) = Lower(b)
  PROVE  Fold(Host(a)) = Fold(Host(b))
<1> DEFINE x == Host(a)
           y == Host(b)
<1>1. /\ x = [scheme |-> "", host |-> a, port |-> 0, path |-> "", part |-> <<>>]
      /\ y = [scheme |-> "", host |-> b, port |-> 0, path |-> "", part |-> <<>>]
  BY DEF Host, Url
<1> HIDE DEF x, y
<1>2. DOMAIN x = {"scheme", "host", "port", "path", "part"} /\ DOMAIN y = DOMAIN x
  BY <1>1
<1>3. /\ x.scheme = y.scheme /\ x.port = y.port /\ x.path = y.path /\ x.part = y.part
      /\ x.host = a /\ y.host = b
  BY <1>1
<1>4. \A field \in DOMAIN x : field # "host" => x[field] = y[field]
  BY <1>2, <1>3
<1>5. \A field \in DOMAIN x : Fold(x)[field] = Fold(y)[field]
  BY <1>2, <1>3, <1>4 DEF Fold
<1>6. /\ Fold(x) = [field \in DOMAIN x |-> Fold(x)[field]]
      /\ Fold(y) = [field \in DOMAIN x |-> Fold(y)[field]]
  BY <1>2 DEF Fold
<1> QED
  BY <1>5, <1>6 DEF x, y

LEMMA CertificateComplete ==
  ASSUME NEW r, IsSequence(r.subdomains)
  PROVE  Complete(CertificateSteps(r))
<1> DEFINE src == "CertificateTransparency"
           root == Key("RootDomain", Host(r.domain))
           tags == {<<"source", "certificate_transparency">>}
           names == r.subdomains
           key(name) == Key(IF Lower(name) = Lower(r.domain) THEN "RootDomain" ELSE "Subdomain",
                            Host(name))
           f == [i \in DOMAIN names |->
                   Found(key(names[i]), "High", tags)
                   \o IF key(names[i]).kind = "RootDomain" THEN <<>>
                      ELSE <<Relate(root, key(names[i]), "Owns")>>]
           s == Found(root, "Confirmed", tags)
           steps == s \o FlattenSeq(f)
<1>1. CertificateSteps(r) = steps \o <<Observe(src, {root}, NoFacts)>>
  BY DEF CertificateSteps, ForEach
<1>2. \A kind : Owed(kind, tags) = {}
  <2>1. \A tag \in tags : Harmless(tag)
    BY HarmlessTag
  <2> HIDE DEF tags
  <2> QED
    BY <2>1, OwedByTags
<1>3. root.kind = "RootDomain" /\ root.value = Host(r.domain)
  BY KeyFields
<1>4. \A name : Lower(name) = Lower(r.domain) => Fold(Host(name)) = Fold(root.value)
  BY <1>3, FoldedHost
<1> HIDE DEF tags, src, root
<1>5. Makes({}, src, s, {root}) /\ Settled(s, {root})
  BY <1>2, <1>3, MakesFound, SettledFound, SomeConfidences, root \in {root} DEF SameIdentity
<1>6. ASSUME NEW i \in DOMAIN names
      PROVE  Body({root}, src, f[i]) /\ Settled(f[i], {root})
  <2> DEFINE name == names[i]
             k == key(name)
  <2>1. /\ k.kind = (IF Lower(name) = Lower(r.domain) THEN "RootDomain" ELSE "Subdomain")
        /\ k.value = Host(name)
    BY KeyFields
  <2>2. f[i] = Found(k, "High", tags)
               \o IF k.kind = "RootDomain" THEN <<>> ELSE <<Relate(root, k, "Owns")>>
    OBVIOUS
  <2> HIDE DEF k, name, f, key
  <2>3. CASE k.kind = "RootDomain"
    <3> DEFINE t == Found(k, "High", tags)
    <3>1. Body({root}, src, t)
      BY <1>2, FoundBody, SomeConfidences
    <3>2. t \o <<>> = t
      <4> HIDE DEF t
      <4> QED
        BY <3>1, ConcatEmptySeq DEF Body, IsSequence
    <3>3. SameIdentity(root, k)
      BY <1>3, <1>4, <2>1, <2>3 DEF SameIdentity
    <3>4. Settled(t, {root})
      BY <1>2, <3>3, SettledFound, root \in {root}
    <3> HIDE DEF t
    <3> QED
      BY <2>2, <2>3, <3>1, <3>2, <3>4 DEF t
  <2>4. CASE k.kind # "RootDomain"
    <3>1. f[i] = Linked(root, k, "High", tags, "Owns")
      BY <2>2, <2>4 DEF Linked
    <3>2. ~SameIdentity(root, k) /\ k.kind # "AuthenticationSurface"
      BY <1>3, <2>1, <2>4 DEF SameIdentity
    <3>3. Body({root}, src, f[i])
      BY <1>2, <3>1, LinkedBody, SomeConfidences, root \in {root}
    <3>4. Settled(f[i], {root})
      BY <1>2, <3>1, <3>2, SettledLinked
    <3> QED
      BY <3>3, <3>4
  <2> QED
    BY <2>3, <2>4
<1>7. f = [i \in DOMAIN names |-> f[i]]
  OBVIOUS
<1> HIDE DEF f, s
<1>8. Makes({root}, src, FlattenSeq(f), {}) /\ Settled(FlattenSeq(f), {root})
  <2>1. \A i \in DOMAIN names : IsSequence(f[i])
    BY <1>6 DEF Body
  <2> HIDE DEF names
  <2>2. IsSequence(names)
    BY DEF names
  <2>3. Settled(FlattenSeq(f), {root})
    BY <1>6, <1>7, <2>1, <2>2, SettledEach
  <2> QED
    BY <1>6, <1>7, <2>2, <2>3, MakesEach
<1>9. Makes({}, src, steps, {root})
  BY <1>5, <1>8, MakesAlso DEF Makes
<1>10. Settled(steps, {root})
  BY <1>5, <1>8, SettledBoth DEF Makes, Body
<1> HIDE DEF steps
<1> QED
  BY <1>1, <1>9, <1>10, IngestedOnce DEF Makes

LEMMA InconclusiveComplete ==
  ASSUME NEW r
  PROVE  Complete(InconclusiveSteps(r))
<1> DEFINE src == "CertificateTransparency"
           root == Key("RootDomain", Host(r.domain))
           s == <<Ensure(root, "Confirmed")>>
<1>1. InconclusiveSteps(r) = s \o <<Observe(src, {root}, NoFacts)>>
  BY Two DEF InconclusiveSteps
<1> HIDE DEF root, src
<1>2. Makes({}, src, s, {root})
  BY MakesEnsure, SomeConfidences
<1>3. Keys(s) \subseteq {root}
  BY One DEF Keys, Ensure
<1>4. Settled(s, {root})
  BY <1>3, SettledKeys
<1> HIDE DEF s
<1> QED
  BY <1>1, <1>2, <1>4, IngestedOnce DEF Makes

LEMMA TcpComplete ==
  ASSUME NEW r
  PROVE  Complete(TcpSteps(r))
<1> DEFINE src == "TcpProbe"
           host == Key(HostKind(r.hostname, "Subdomain"), Host(r.hostname))
           value == Part(Url("https", r.hostname, r.port, "/"), <<"tcp-service">>)
           service == Key("NetworkService", value)
           confidence == IF r.open THEN "Confirmed" ELSE "Medium"
           tags == {<<"source", "tcp_probe">>,
                    <<"network", IF r.open THEN "open" ELSE "closed_or_filtered">>}
           s == <<Ensure(host, "High")>>
           t == Linked(host, service, confidence, tags, "Serves")
           subjects == {host, service}
<1>1. TcpSteps(r) = s \o t \o <<Observe(src, subjects, [NoFacts EXCEPT !.port = r.port])>>
  BY DEF TcpSteps
<1>2. service.kind = "NetworkService" /\ host.kind \in {"IpAddress", "Subdomain"}
  BY KeyFields DEF HostKind
<1>3. Owed(service.kind, tags) = {}
  <2>1. Plain(service.kind)
    BY <1>2, PlainKinds
  <2> HIDE DEF service, tags
  <2> QED
    BY <2>1, OwedByKind
<1>4. confidence \in Confidences
  BY SomeConfidences
<1> HIDE DEF host, service, tags, confidence, src
<1>5. Makes({}, src, s, {host})
  BY MakesEnsure, SomeConfidences
<1>6. Makes({host}, src, t, {service})
  BY <1>3, <1>4, MakesLinked, host \in {host}
<1>7. Keys(s) \subseteq subjects
  BY One DEF Keys, Ensure
<1>8. ~SameIdentity(host, service) /\ service.kind # "AuthenticationSurface"
  BY <1>2 DEF SameIdentity
<1>9. Settled(s, subjects) /\ Settled(t, subjects)
  BY <1>3, <1>7, <1>8, SettledKeys, SettledLinked
<1> HIDE DEF s, t
<1>10. Makes({}, src, s \o t, subjects)
  BY <1>5, <1>6, MakesThen
<1>11. Settled(s \o t, subjects)
  BY <1>5, <1>6, <1>9, SettledBoth DEF Makes, Body
<1> DEFINE steps == s \o t
<1> HIDE DEF steps, subjects
<1>12. Makes({}, src, steps, {}) /\ Settled(steps, subjects) /\ subjects \subseteq AllMade(steps)
  BY <1>10, <1>11 DEF Makes, steps
<1> QED
  BY <1>1, <1>12, IngestedOnce DEF steps

LEMMA ResponseBody ==
  ASSUME NEW src, NEW host, NEW service, NEW url, NEW r,
         Plain(service.kind), Plain(url.kind)
  PROVE  /\ Makes({}, src, ResponseSteps(host, service, url, r), {host, service, url})
         /\ Keys(ResponseSteps(host, service, url, r)) \subseteq {host, service, url}
         /\ Begins(ResponseSteps(host, service, url, r), host)
<1> DEFINE live == {<<"source", "http">>, <<"http", "live">>}
           status == IF r.status = "none" THEN {} ELSE {<<"http status", r.status>>}
           served == live \cup status \cup Optional(r.tls, <<"tls", "present">>)
           seen == {<<"source", "http">>, <<"http", "observed">>} \cup status
                   \cup {<<"http content", kind>> : kind \in r.content}
           validated == {<<"source", "active_validation">>,
                         <<"validation", ValidationTag(r.status)>>}
           e1 == Ensure(host, "High")
           e2 == Ensure(service, "High")
           e3 == Ensure(url, "High")
           n1 == Enrich(host, live)
           n2 == Enrich(service, served)
           n3 == Enrich(url, seen)
           r1 == Relate(host, service, "Serves")
           r2 == Relate(service, url, "Exposes")
           known == {host, service, url}
           s1 == <<e1, e2, e3, n1, n2, n3>>
           s2 == IF r.tool = "validate_url_metadata" THEN <<Enrich(url, validated)>> ELSE <<>>
           s3 == <<r1>>
           s4 == <<r2>>
<1>1. ResponseSteps(host, service, url, r) = s1 \o s2 \o <<r1, r2>>
  BY DEF ResponseSteps
<1>2. /\ Owed(host.kind, live) \subseteq {src} /\ Owed(service.kind, served) \subseteq {src}
      /\ Owed(url.kind, seen) \subseteq {src} /\ Owed(url.kind, validated) \subseteq {src}
  <2>1. \A tag \in live : Harmless(tag)
    BY HarmlessTag
  <2> HIDE DEF live, served, seen, validated
  <2> QED
    BY <2>1, OwedByTags, OwedByKind
<1> HIDE DEF live, served, seen, validated
<1>3. /\ e1.do = "ensure" /\ e1.key = host /\ e1.confidence = "High"
      /\ e2.do = "ensure" /\ e2.key = service /\ e2.confidence = "High"
      /\ e3.do = "ensure" /\ e3.key = url /\ e3.confidence = "High"
  BY DEF Ensure
<1>4. /\ n1.do = "enrich" /\ n1.key = host /\ n1.tags = live
      /\ n2.do = "enrich" /\ n2.key = service /\ n2.tags = served
      /\ n3.do = "enrich" /\ n3.key = url /\ n3.tags = seen
  BY DEF Enrich
<1> HIDE DEF e1, e2, e3, n1, n2, n3
<1>5. IsSequence(s1)
  <2>1. s1 \in Seq({e1, e2, e3, n1, n2, n3})
    OBVIOUS
  <2> QED
    BY <2>1, SequenceOf
<1>6. /\ DOMAIN s1 = {1, 2, 3, 4, 5, 6} /\ s1[1] = e1 /\ s1[2] = e2 /\ s1[3] = e3
      /\ s1[4] = n1 /\ s1[5] = n2 /\ s1[6] = n3
  OBVIOUS
<1> HIDE DEF s1
<1>7. \A n \in DOMAIN s1 : BodyStep(src, s1[n])
  BY <1>2, <1>3, <1>4, <1>6, SomeConfidences DEF BodyStep
<1>8. \A n \in 4 .. 6 : known \subseteq Made(s1, n)
  <2> TAKE n \in 4 .. 6
  <2>1. 1 \in 1 .. n - 1 /\ 2 \in 1 .. n - 1 /\ 3 \in 1 .. n - 1
    OBVIOUS
  <2> QED
    BY <1>3, <1>6, <2>1 DEF Made
<1>9. \A n \in DOMAIN s1 : Needs(s1[n]) \subseteq {} \cup Made(s1, n)
  <2> TAKE n \in DOMAIN s1
  <2>1. CASE n \in {1, 2, 3}
    BY <1>3, <1>6, <2>1 DEF Needs
  <2>2. CASE n \in {4, 5, 6}
    <3>1. n \in 4 .. 6 /\ Needs(s1[n]) \subseteq known
      BY <1>4, <1>6, <2>2 DEF Needs
    <3> QED
      BY <1>8, <3>1
  <2> QED
    BY <1>6, <2>1, <2>2
<1>10. Makes({}, src, s1, known)
  <2>1. known \subseteq AllMade(s1)
    BY <1>3, <1>6 DEF AllMade
  <2> QED
    BY <1>5, <1>7, <1>9, <2>1 DEF Makes, Body
<1>11. Keys(s1) \subseteq known
  BY <1>3, <1>4, <1>6 DEF Keys
<1>12. Body(known, src, s2)
  BY <1>2, MakesEnrich, BodyNone, url \in known DEF Makes
<1>13. Body(known, src, s3) /\ Body(known, src, s4)
  <2>1. host \in known /\ service \in known /\ url \in known
    OBVIOUS
  <2> HIDE DEF known
  <2> QED
    BY <2>1, MakesRelate DEF Makes
<1>14. Keys(s2) \subseteq known /\ Keys(s3) \subseteq known /\ Keys(s4) \subseteq known
  <2>1. Keys(<<>>) = {}
    BY DEF Keys
  <2>2. \A x : x.key \in known => Keys(<<x>>) \subseteq known
    BY One DEF Keys
  <2>3. r1.key = host /\ r2.key = service /\ Enrich(url, validated).key = url
    BY DEF Relate, Enrich
  <2> HIDE DEF r1, r2
  <2> QED
    BY <2>1, <2>2, <2>3
<1>15. <<r1, r2>> = s3 \o s4
  BY Two
<1> HIDE DEF s2, s3, s4, known, r1, r2
<1>16. Body(known, src, s3 \o s4)
  BY <1>13, BodyBoth
<1>17. Makes({}, src, s1 \o s2, known)
  BY <1>10, <1>12, MakesAlso
<1>18. Makes({}, src, s1 \o s2 \o (s3 \o s4), known)
  BY <1>16, <1>17, MakesAlso
<1>19. /\ IsSequence(s1) /\ IsSequence(s2) /\ IsSequence(s3) /\ IsSequence(s4)
       /\ IsSequence(s1 \o s2) /\ IsSequence(s3 \o s4)
  BY <1>5, <1>12, <1>13, Concatenated DEF Body
<1>20. Keys(s1 \o s2) \subseteq known /\ Keys(s3 \o s4) \subseteq known
  BY <1>11, <1>14, <1>19, KeysBoth
<1>21. Keys(s1 \o s2 \o (s3 \o s4)) \subseteq known
  BY <1>19, <1>20, KeysBoth
<1>22. Begins(s1, host)
  BY <1>3, <1>6 DEF Begins
<1>23. Begins(s1 \o s2, host)
  BY <1>19, <1>22, BeginsBoth
<1>24. Begins(s1 \o s2 \o (s3 \o s4), host)
  BY <1>19, <1>23, BeginsBoth
<1> QED
  BY <1>1, <1>15, <1>18, <1>21, <1>24 DEF known

LEMMA HintBody ==
  ASSUME NEW src, NEW service, NEW r, IsSequence(r.hints), IsSequence(r.scripts)
  PROVE  Body({service}, src, HintSteps(service, r))
<1> DEFINE tags == {<<"source", "http_headers">>, <<"infrastructure", "provider">>}
           hints == Take(r.hints, 20)
           scripts == Take(r.scripts, 500)
           f == [i \in DOMAIN hints |->
                   Linked(service, Key("ThirdPartyService", Host(hints[i])), "High", tags,
                          "HostedOn")]
           h == [i \in DOMAIN scripts |->
                   Joined(service, Key("JavascriptBundle", scripts[i]), "High", "References")]
<1>1. HintSteps(service, r) = FlattenSeq(f) \o FlattenSeq(h)
  BY DEF HintSteps, ForEach
<1>2. IsSequence(hints) /\ IsSequence(scripts)
  BY Taken
<1> HIDE DEF tags, hints, scripts
<1>3. Body({service}, src, FlattenSeq(f))
  <2>1. ASSUME NEW i \in DOMAIN hints PROVE Body({service}, src, f[i])
    BY PlainLinkedBody, PlainKinds, SomeConfidences, service \in {service}
  <2> QED
    BY <1>2, <2>1, BodyEach
<1>4. Body({service}, src, FlattenSeq(h))
  <2>1. ASSUME NEW i \in DOMAIN scripts PROVE Body({service}, src, h[i])
    BY JoinedBody, SomeConfidences, service \in {service}
  <2> QED
    BY <1>2, <2>1, BodyEach
<1> HIDE DEF f, h
<1> QED
  BY <1>1, <1>3, <1>4, BodyBoth

(* Redirects and technologies are no subjects of the observation.          *)
LEMMA ContextBody ==
  ASSUME NEW src, NEW service, service.kind = "HttpService", NEW url, NEW r, NEW subjects,
         url \in subjects, IsSequence(r.location), IsSequence(r.technologies)
  PROVE  /\ Body({service, url}, src, ContextSteps(service, url, r))
         /\ Settled(ContextSteps(service, url, r), subjects)
<1> DEFINE f == [i \in DOMAIN r.location |->
                   Joined(url, Key("Url", r.location[i]), "High", "RedirectsTo")]
           h == [i \in DOMAIN r.technologies |->
                   Joined(service, Key("Technology", Host(r.technologies[i])), "Medium",
                          "UsesTechnology")]
           known == {service, url}
<1>1. ContextSteps(service, url, r) = FlattenSeq(f) \o FlattenSeq(h)
  BY DEF ContextSteps, ForEach
<1>2. service \in known /\ url \in known
  OBVIOUS
<1> HIDE DEF known
<1>3. ASSUME NEW i \in DOMAIN r.location
      PROVE  Body(known, src, f[i]) /\ Settled(f[i], subjects)
  <2> DEFINE key == Key("Url", r.location[i])
  <2>1. key.kind # "AuthenticationSurface"
    BY KeyFields
  <2>2. f[i] = Joined(url, key, "High", "RedirectsTo")
    OBVIOUS
  <2> HIDE DEF key, f
  <2>3. Body(known, src, f[i])
    BY <1>2, <2>2, JoinedBody, SomeConfidences
  <2>4. Settled(f[i], subjects)
    BY <2>1, <2>2, SettledJoined
  <2> QED
    BY <2>3, <2>4
<1>4. ASSUME NEW i \in DOMAIN r.technologies
      PROVE  Body(known, src, h[i]) /\ Settled(h[i], subjects)
  <2> DEFINE key == Key("Technology", Host(r.technologies[i]))
  <2>1. key.kind # "AuthenticationSurface" /\ ~SameIdentity(service, key)
    BY KeyFields DEF SameIdentity
  <2>2. h[i] = Joined(service, key, "Medium", "UsesTechnology")
    OBVIOUS
  <2> HIDE DEF key, h
  <2>3. Body(known, src, h[i])
    BY <1>2, <2>2, JoinedBody, SomeConfidences
  <2>4. Settled(h[i], subjects)
    BY <2>1, <2>2, SettledJoined
  <2> QED
    BY <2>3, <2>4
<1>5. f = [i \in DOMAIN r.location |-> f[i]] /\ h = [i \in DOMAIN r.technologies |-> h[i]]
  OBVIOUS
<1> HIDE DEF f, h
<1>6. /\ \A i \in DOMAIN r.location : IsSequence(f[i])
      /\ \A i \in DOMAIN r.technologies : IsSequence(h[i])
  BY <1>3, <1>4 DEF Body
<1>7. Body(known, src, FlattenSeq(f)) /\ Body(known, src, FlattenSeq(h))
  BY <1>3, <1>4, <1>5, BodyEach
<1>8. Settled(FlattenSeq(f), subjects) /\ Settled(FlattenSeq(h), subjects)
  BY <1>3, <1>4, <1>5, <1>6, SettledEach
<1>9. Body(known, src, FlattenSeq(f) \o FlattenSeq(h))
  BY <1>7, BodyBoth
<1>10. Settled(FlattenSeq(f) \o FlattenSeq(h), subjects)
  BY <1>7, <1>8, SettledBoth DEF Body
<1> QED
  BY <1>1, <1>9, <1>10 DEF known

(* What the body of a response adds, if anything does.                     *)
LEMMA BodyContent ==
  ASSUME NEW service, NEW r, r.tool \in HttpTools, ListsOK(r)
  PROVE  LET url == Key("Url", r.url)
         IN  Body({service, url}, HttpSource(r.tool),
                  (IF r.tool = "analyze_web_page" THEN PageSteps(url, r) ELSE <<>>)
                  \o HintSteps(service, r)
                  \o (CASE r.tool = "analyze_javascript" -> ScriptSteps(service, r)
                        [] r.tool = "describe_api" -> ApiSteps(r)
                        [] OTHER -> <<>>))
<1> DEFINE url == Key("Url", r.url)
           src == HttpSource(r.tool)
           known == {service, url}
           p == IF r.tool = "analyze_web_page" THEN PageSteps(url, r) ELSE <<>>
           h == HintSteps(service, r)
           c == CASE r.tool = "analyze_javascript" -> ScriptSteps(service, r)
                  [] r.tool = "describe_api" -> ApiSteps(r)
                  [] OTHER -> <<>>
<1>1. {service} \subseteq known /\ {url} \subseteq known /\ {} \subseteq known
  OBVIOUS
<1>2. Body(known, src, p)
  <2>1. CASE r.tool = "analyze_web_page"
    <3>1. Body({url}, src, PageSteps(url, r))
      <4> HIDE DEF src
      <4> QED
        BY <2>1, PageBody DEF ListsOK
    <3> HIDE DEF url, known, src
    <3> QED
      BY <1>1, <2>1, <3>1, BodyLater
  <2>2. CASE r.tool # "analyze_web_page"
    BY <2>2, BodyNone
  <2> QED
    BY <2>1, <2>2
<1>3. Body(known, src, h)
  <2> HIDE DEF known, src
  <2>1. IsSequence(r.hints) /\ IsSequence(r.scripts)
    BY DEF ListsOK
  <2>2. Body({service}, src, h)
    BY <2>1, HintBody
  <2> QED
    BY <1>1, <2>2, BodyLater
<1>4. Body(known, src, c)
  <2>1. CASE r.tool = "analyze_javascript"
    <3>1. src = "JavascriptAnalysis" /\ c = ScriptSteps(service, r)
      BY <2>1 DEF HttpSource
    <3>2. Body({service}, "JavascriptAnalysis", ScriptSteps(service, r))
      BY <2>1, ScriptBody DEF ListsOK
    <3> HIDE DEF known, src, c
    <3> QED
      BY <1>1, <3>1, <3>2, BodyLater
  <2>2. CASE r.tool = "describe_api"
    <3>1. src = "ApiDescription" /\ c = ApiSteps(r)
      BY <2>2 DEF HttpSource
    <3>2. Body({}, "ApiDescription", ApiSteps(r))
      BY <2>2, ApiBody DEF ListsOK
    <3> HIDE DEF known, src, c
    <3> QED
      BY <1>1, <3>1, <3>2, BodyLater
  <2>3. CASE r.tool \notin {"analyze_javascript", "describe_api"}
    BY <2>3, BodyNone
  <2> QED
    BY <2>1, <2>2, <2>3
<1> HIDE DEF known, src, p, h, c
<1>5. Body(known, src, p \o h)
  BY <1>2, <1>3, BodyBoth
<1>6. Body(known, src, p \o h \o c)
  BY <1>4, <1>5, BodyBoth
<1> QED
  BY <1>6 DEF known, src, p, h, c

LEMMA HttpComplete ==
  ASSUME NEW r, NEW g, r.tool \in HttpTools, ListsOK(r)
  PROVE  /\ Complete(HttpSteps(r, g))
         /\ Begins(HttpSteps(r, g),
                   Key(KindOf(g, Host(r.url.host), HostKind(r.url.host, "Subdomain")),
                       Host(r.url.host)))
<1> DEFINE host == Key(KindOf(g, Host(r.url.host), HostKind(r.url.host, "Subdomain")),
                       Host(r.url.host))
           service == Key("HttpService", Origin(r.url))
           url == Key("Url", r.url)
           src == HttpSource(r.tool)
           content ==
             (IF r.tool = "analyze_web_page" THEN PageSteps(url, r) ELSE <<>>)
             \o HintSteps(service, r)
             \o (CASE r.tool = "analyze_javascript" -> ScriptSteps(service, r)
                   [] r.tool = "describe_api" -> ApiSteps(r)
                   [] OTHER -> <<>>)
           listed == Declared(r)
           f == [i \in DOMAIN listed |->
                   Joined(service, Key("Url", listed[i]), "Medium", "Exposes")]
           declared == FlattenSeq(f)
           trio == {host, service, url}
           subjects == trio \cup Keys(content) \cup Keys(declared)
           facts == [NoFacts EXCEPT !.url = r.url, !.status = r.status]
           rest == IF r.tls THEN <<Observe("TlsInspection", {service, url}, NoFacts)>> ELSE <<>>
           response == ResponseSteps(host, service, url, r)
           context == ContextSteps(service, url, r)
           steps == response \o content \o context \o declared
<1>1. HttpSteps(r, g) = steps \o <<Observe(src, subjects, facts)>> \o rest
  BY DEF HttpSteps, ForEach
<1>2. /\ Makes({}, src, response, trio) /\ Keys(response) \subseteq trio
      /\ Begins(response, host)
  <2>1. Plain(service.kind) /\ Plain(url.kind)
    BY KeyFields, PlainKinds
  <2> HIDE DEF host, service, url, src
  <2> QED
    BY <2>1, ResponseBody
<1>3. Body({service, url}, src, content)
  <2> HIDE DEF service
  <2> QED
    BY BodyContent
<1>4. IsSequence(listed)
  <2>1. IsSequence(<<>>)
    BY DEF IsSequence
  <2> QED
    BY <2>1, Taken DEF Declared, ListsOK
<1>5. /\ Body({service, url}, src, context) /\ Settled(context, subjects)
  <2>1. service.kind = "HttpService" /\ url \in subjects
    BY KeyFields
  <2>2. IsSequence(r.location) /\ IsSequence(r.technologies)
    BY DEF ListsOK
  <2> HIDE DEF service, url, src, subjects
  <2> QED
    BY <2>1, <2>2, ContextBody
<1>6. rest = <<>> \/ rest = <<Observe("TlsInspection", {service, url}, NoFacts)>>
  OBVIOUS
<1> HIDE DEF listed, src, service, url, host, content, response, context, facts
<1>7. Body({service, url}, src, declared)
  <2>1. ASSUME NEW i \in DOMAIN listed PROVE Body({service, url}, src, f[i])
    BY JoinedBody, SomeConfidences, service \in {service, url}
  <2> QED
    BY <1>4, <2>1, BodyEach
<1> HIDE DEF declared, f
<1>8. {service, url} \subseteq trio /\ service \in trio /\ url \in trio
  OBVIOUS
<1> HIDE DEF trio
<1>9. Body(trio, src, content) /\ Body(trio, src, context) /\ Body(trio, src, declared)
  BY <1>3, <1>5, <1>7, <1>8, BodyLater
<1>10. Makes({}, src, response \o content, trio)
  BY <1>2, <1>9, MakesAlso
<1>11. Makes({}, src, response \o content \o context, trio)
  BY <1>9, <1>10, MakesAlso
<1>12. Makes({}, src, steps, trio)
  BY <1>9, <1>11, MakesAlso
<1>13. /\ IsSequence(response) /\ IsSequence(content) /\ IsSequence(context)
       /\ IsSequence(declared)
  BY <1>2, <1>9 DEF Makes, Body
<1>14. /\ Settled(response, subjects) /\ Settled(content, subjects)
       /\ Settled(declared, subjects)
  <2>1. Keys(response) \subseteq subjects /\ Keys(content) \subseteq subjects
        /\ Keys(declared) \subseteq subjects
    BY <1>2
  <2> HIDE DEF subjects
  <2> QED
    BY <2>1, SettledKeys
<1>15. /\ AllMade(response \o content) = AllMade(response) \cup AllMade(content)
       /\ IsSequence(response \o content) /\ IsSequence(response \o content \o context)
  BY <1>13, MadeByBoth, Concatenated
<1>16. AllMade(response \o content \o context) = AllMade(response \o content) \cup AllMade(context)
  BY <1>13, <1>15, MadeByBoth
<1>17. AllMade(steps) = AllMade(response \o content \o context) \cup AllMade(declared)
  BY <1>13, <1>15, MadeByBoth
<1>18. /\ Keys(content) \subseteq trio \cup AllMade(content)
       /\ Keys(declared) \subseteq trio \cup AllMade(declared)
  BY <1>9, KeysMade
<1>19. subjects \subseteq AllMade(steps) /\ trio \subseteq AllMade(steps)
  BY <1>12, <1>15, <1>16, <1>17, <1>18 DEF Makes
<1> HIDE DEF subjects
<1>20. Settled(response \o content, subjects)
  BY <1>13, <1>14, SettledBoth
<1>21. Settled(response \o content \o context, subjects)
  BY <1>5, <1>13, <1>15, <1>20, SettledBoth
<1>22. Settled(steps, subjects)
  BY <1>13, <1>14, <1>15, <1>21, SettledBoth
<1>23. Begins(steps, host) /\ IsSequence(steps)
  <2>1. Begins(response \o content, host)
    BY <1>2, <1>13, BeginsBoth
  <2>2. Begins(response \o content \o context, host)
    BY <1>13, <1>15, <2>1, BeginsBoth
  <2> QED
    BY <1>13, <1>15, <2>2, BeginsBoth, Concatenated
<1> HIDE DEF steps, rest
<1>24. /\ IsSequence(rest)
       /\ \A n \in DOMAIN rest : rest[n].do = "observe" /\ rest[n].subjects \subseteq AllMade(steps)
  <2> DEFINE o == Observe("TlsInspection", {service, url}, NoFacts)
  <2>1. o.do = "observe" /\ o.subjects = {service, url}
    BY DEF Observe
  <2> HIDE DEF o
  <2>2. CASE rest = <<>>
    BY <2>2 DEF IsSequence
  <2>3. CASE rest = <<o>>
    BY <1>8, <1>19, <2>1, <2>3, One
  <2> QED
    BY <1>6, <2>2, <2>3 DEF o
<1>25. Begins(HttpSteps(r, g), host)
  <2> DEFINE o == <<Observe(src, subjects, facts)>>
  <2>1. IsSequence(o) /\ HttpSteps(r, g) = steps \o o \o rest
    BY <1>1, One
  <2> HIDE DEF o
  <2>2. Begins(steps \o o, host) /\ IsSequence(steps \o o)
    BY <1>23, <2>1, BeginsBoth, Concatenated
  <2> QED
    BY <1>24, <2>1, <2>2, BeginsBoth
<1>26. Complete(HttpSteps(r, g))
  BY <1>1, <1>12, <1>19, <1>22, <1>24, IngestedAndMore DEF Makes
<1> QED
  BY <1>25, <1>26 DEF host

(* Whatever a tool brings, and whatever is known by then.                  *)
THEOREM IngestionComplete ==
  ASSUME NEW r, NEW g, r.success => ListsOK(r)
  PROVE  Complete(IngestionSteps(r, g))
<1>0. Complete(<<>>)
  <2>1. IsSequence(<<>>) /\ DOMAIN <<>> = {}
    BY DEF IsSequence
  <2> QED
    BY <2>1 DEF Complete
<1>1. CASE ~r.success
  BY <1>0, <1>1, InconclusiveComplete DEF IngestionSteps, FailureSteps
<1>2. CASE r.success /\ r.tool = "search_certificate_transparency"
  BY <1>2, CertificateComplete DEF IngestionSteps, ListsOK, HttpTools
<1>3. CASE r.success /\ r.tool = "resolve_dns"
  BY <1>3, DnsObserves, ObservedAll DEF IngestionSteps, ListsOK, HttpTools
<1>4. CASE r.success /\ r.tool = "inspect_dns_ownership"
  BY <1>4, OwnershipObserves, ObservedAll DEF IngestionSteps, ListsOK, HttpTools
<1>5. CASE r.success /\ r.tool = "inspect_rdap"
  BY <1>5, RdapObserves, ObservedAll DEF IngestionSteps, ListsOK, HttpTools
<1>6. CASE r.success /\ r.tool = "probe_tcp_service"
  BY <1>6, TcpComplete DEF IngestionSteps, HttpTools
<1>7. CASE r.success /\ r.tool = "discover_content"
  BY <1>7, ContentObserves, ObservedAll DEF IngestionSteps, ListsOK, HttpTools
<1>8. CASE r.success /\ r.tool = "lookup_web_archive"
  BY <1>8, HistoricalObserves, ObservedAll DEF IngestionSteps, ListsOK, HttpTools
<1>9. CASE r.success /\ r.tool = "analyze_visual_page"
  BY <1>9, VisualObserves, ObservedAll DEF IngestionSteps, ListsOK, HttpTools
<1>10. CASE r.success /\ r.tool = "adaptive_browser_recon"
  BY <1>10, BrowserObserves, ObservedAll DEF IngestionSteps, ListsOK, HttpTools
<1>11. CASE r.success /\ r.tool = "query_external_intelligence"
  BY <1>11, ExternalObserves, ObservedAll DEF IngestionSteps, ListsOK, HttpTools
<1>12. CASE r.success /\ r.tool \in HttpTools
  BY <1>12, HttpComplete DEF IngestionSteps, HttpTools
<1>13. CASE r.success /\ r.tool \notin {"search_certificate_transparency", "resolve_dns",
                "inspect_dns_ownership", "inspect_rdap", "probe_tcp_service", "discover_content",
                "lookup_web_archive", "analyze_visual_page", "adaptive_browser_recon",
                "query_external_intelligence"} \cup HttpTools
  BY <1>0, <1>13 DEF IngestionSteps
<1> QED
  BY <1>1, <1>2, <1>3, <1>4, <1>5, <1>6, <1>7, <1>8, <1>9, <1>10, <1>11, <1>12, <1>13

(* The target of a task is a domain or an address, and is taken for sure.  *)
LEMMA SeedsOnly ==
  ASSUME NEW target, IsSequence(target)
  PROVE  /\ IsSequence(SeedSteps(target))
         /\ \A n \in DOMAIN SeedSteps(target) :
              /\ SeedSteps(target)[n].do = "ensure"
              /\ SeedSteps(target)[n].confidence = "Confirmed"
              /\ SeedSteps(target)[n].key.kind \in {"RootDomain", "IpAddress"}
<1> DEFINE n == Len(target)
           seed(url) == Ensure(Key(HostKind(url.host, "RootDomain"), Host(url.host)), "Confirmed")
           f == [i \in DOMAIN target |-> <<seed(target[i])>>]
           steps == FlattenSeq(f)
<1>1. SeedSteps(target) = steps
  BY DEF SeedSteps, ForEach
<1>2. n \in Nat /\ DOMAIN target = 1 .. n
  BY Listed
<1>3. \A url : /\ seed(url).do = "ensure" /\ seed(url).confidence = "Confirmed"
               /\ seed(url).key.kind \in {"RootDomain", "IpAddress"}
  BY DEF Ensure, Key, HostKind
<1> HIDE DEF seed, n
<1>4. /\ f = [i \in 1 .. n |-> f[i]]
      /\ \A i \in 1 .. n : f[i] = <<seed(target[i])>>
  BY <1>2
<1>5. \A i \in 1 .. n : IsSequence(f[i]) /\ DOMAIN f[i] = {1} /\ f[i][1] = seed(target[i])
  BY <1>4, One
<1> HIDE DEF f
<1>6. Covers(steps, f, n)
  BY <1>2, <1>4, <1>5, Flattened
<1> HIDE DEF steps
<1>7. ASSUME NEW k \in DOMAIN steps
      PROVE  /\ steps[k].do = "ensure" /\ steps[k].confidence = "Confirmed"
             /\ steps[k].key.kind \in {"RootDomain", "IpAddress"}
  <2>1. PICK i \in 1 .. n, j \in Nat, off \in Nat :
          /\ j \in DOMAIN f[i] /\ k = off + j
          /\ \A l \in DOMAIN f[i] : off + l \in DOMAIN steps /\ steps[off + l] = f[i][l]
    BY <1>6 DEF Covers, Within
  <2>2. steps[k] = seed(target[i])
    BY <1>5, <2>1
  <2> QED
    BY <1>3, <2>2
<1> QED
  BY <1>1, <1>6, <1>7 DEF Covers

-----------------------------------------------------------------------------
(* What an ingestion looks up in the graph.                                *)

(* The value whose kind the ingestor looks up, and the kind it takes when  *)
(* there is no such asset.                                                 *)
Asked(r) ==
  CASE r.success /\ r.tool \in {"resolve_dns", "inspect_dns_ownership"} -> {Host(r.hostname)}
    [] r.success /\ r.tool \in HttpTools -> {Host(r.url.host)}
    [] OTHER -> {}

AskedKind(r) == IF r.tool \in HttpTools THEN HostKind(r.url.host, "Subdomain") ELSE "Subdomain"

SameValueAs(g, value) == {i \in DOMAIN g.assets : Fold(g.assets[i].value) = Fold(value)}

(* Every set of natural numbers has a least one.                           *)
LEMMA LeastOf ==
  ASSUME NEW S, S \subseteq Nat, S # {}
  PROVE  \E i \in S : \A j \in S : i <= j
<1> SUFFICES ASSUME \A i \in S : \E j \in S : ~(i <= j)
             PROVE  FALSE
  OBVIOUS
<1> DEFINE T == {n \in Nat : \A i \in S : i > n}
<1>1. 0 \in T
  <2> SUFFICES ASSUME NEW i \in S, ~(i > 0)
               PROVE  FALSE
    BY DEF T
  <2>1. i = 0 /\ \A j \in S : 0 <= j
    OBVIOUS
  <2> QED
    BY <2>1
<1>2. ASSUME NEW n \in Nat, n \in T
      PROVE  n + 1 \in T
  <2> SUFFICES ASSUME NEW i \in S, ~(i > n + 1)
               PROVE  FALSE
    BY DEF T
  <2>1. i = n + 1
    BY <1>2
  <2>2. \A j \in S : i <= j
    BY <1>2, <2>1
  <2> QED
    BY <2>2
<1> HIDE DEF T
<1>3. Nat \subseteq T
  BY <1>1, <1>2, SetInduction
<1>4. PICK i \in S : TRUE
  OBVIOUS
<1>5. i \in Nat /\ i \in T
  BY <1>3
<1> QED
  BY <1>5 DEF T

LEMMA KindFirst ==
  ASSUME NEW g, IsSequence(g.assets), NEW value, NEW otherwise,
         NEW i \in SameValueAs(g, value), \A j \in SameValueAs(g, value) : i <= j
  PROVE  KindOf(g, value, otherwise) = g.assets[i].kind
<1>1. /\ Len(g.assets) \in Nat /\ DOMAIN g.assets = 1 .. Len(g.assets)
  BY Listed
<1> DEFINE I == {j \in 1 .. Len(g.assets) : Fold(g.assets[j].value) = Fold(value)}
<1>2. I = SameValueAs(g, value)
  BY <1>1 DEF SameValueAs
<1>3. Min(I) = i
  <2>1. i \in I /\ \A j \in I : i <= j
    BY <1>2
  <2>2. I \subseteq Nat
    BY <1>1
  <2> HIDE DEF I
  <2>3. \A k \in I : (\A j \in I : k <= j) => k = i
    BY <2>1, <2>2
  <2> QED
    BY <2>1, <2>3 DEF Min
<1>4. SelectInSeq(g.assets, LAMBDA asset : Fold(asset.value) = Fold(value)) = Min(I)
  BY <1>2 DEF SelectInSeq
<1>5. i # 0
  BY <1>1 DEF SameValueAs
<1> QED
  BY <1>3, <1>4, <1>5 DEF KindOf

LEMMA KindNone ==
  ASSUME NEW g, IsSequence(g.assets), NEW value, NEW otherwise, SameValueAs(g, value) = {}
  PROVE  KindOf(g, value, otherwise) = otherwise
<1>1. /\ Len(g.assets) \in Nat /\ DOMAIN g.assets = 1 .. Len(g.assets)
  BY Listed
<1> DEFINE I == {j \in 1 .. Len(g.assets) : Fold(g.assets[j].value) = Fold(value)}
<1>2. I = {}
  BY <1>1 DEF SameValueAs
<1>3. SelectInSeq(g.assets, LAMBDA asset : Fold(asset.value) = Fold(value)) = 0
  BY <1>2 DEF SelectInSeq
<1> QED
  BY <1>3 DEF KindOf

(* The first step of an ingestion that looks a kind up ensures the asset   *)
(* of that kind.                                                           *)
LEMMA IngestionBegins ==
  ASSUME NEW r, NEW g, r.success => ListsOK(r), NEW value \in Asked(r)
  PROVE  Begins(IngestionSteps(r, g), Key(KindOf(g, value, AskedKind(r)), value))
<1>1. CASE r.success /\ r.tool = "resolve_dns"
  <2>1. value = Host(r.hostname) /\ AskedKind(r) = "Subdomain"
    BY <1>1 DEF Asked, AskedKind, HttpTools
  <2>2. IngestionSteps(r, g) = DnsSteps(r, g)
    BY <1>1 DEF IngestionSteps, HttpTools
  <2>3. IsSequence(r.addresses)
    BY <1>1 DEF ListsOK
  <2> QED
    BY <2>1, <2>2, <2>3, DnsObserves
<1>2. CASE r.success /\ r.tool = "inspect_dns_ownership"
  <2>1. value = Host(r.hostname) /\ AskedKind(r) = "Subdomain"
    BY <1>2 DEF Asked, AskedKind, HttpTools
  <2>2. IngestionSteps(r, g) = OwnershipSteps(r, g)
    BY <1>2 DEF IngestionSteps, HttpTools
  <2>3. IsSequence(r.records) /\ IsSequence(r.providers)
    BY <1>2 DEF ListsOK
  <2> QED
    BY <2>1, <2>2, <2>3, OwnershipObserves
<1>3. CASE r.success /\ r.tool \in HttpTools
  <2>1. value = Host(r.url.host) /\ AskedKind(r) = HostKind(r.url.host, "Subdomain")
    BY <1>3 DEF Asked, AskedKind, HttpTools
  <2>2. IngestionSteps(r, g) = HttpSteps(r, g)
    BY <1>3 DEF IngestionSteps, HttpTools
  <2> QED
    BY <1>3, <2>1, <2>2, HttpComplete
<1> QED
  BY <1>1, <1>2, <1>3 DEF Asked

(* No more of the graph than that kind decides which steps it takes.       *)
LEMMA IngestionSame ==
  ASSUME NEW r, NEW g, NEW h,
         \A value \in Asked(r) : KindOf(h, value, AskedKind(r)) = KindOf(g, value, AskedKind(r))
  PROVE  IngestionSteps(r, h) = IngestionSteps(r, g)
<1>1. CASE r.success /\ r.tool = "resolve_dns"
  <2>1. KindOf(h, Host(r.hostname), "Subdomain") = KindOf(g, Host(r.hostname), "Subdomain")
    BY <1>1 DEF Asked, AskedKind, HttpTools
  <2>2. DnsSteps(r, h) = DnsSteps(r, g)
    <3> DEFINE Steps(kind) ==
                 LET host == Key(kind, Host(r.hostname))
                     confidence == CASE r.resolved /\ ~r.wildcardMatch -> "Confirmed"
                                     [] r.resolved /\ r.wildcardMatch -> "Medium"
                                     [] OTHER -> "Low"
                     tags == {<<"source", "dns">>,
                              <<"dns", IF r.resolved THEN "resolved" ELSE "unresolved">>}
                             \cup Optional(r.wildcardZone, <<"dns", "wildcard_zone">>)
                             \cup Optional(r.wildcardMatch, <<"dns", "wildcard_match">>)
                     Address(address) ==
                       Linked(host, Key("IpAddress", Host(address)), "High",
                              {<<"source", "dns">>}, "ResolvesTo")
                     steps == Found(host, confidence, tags)
                              \o ForThose(r.addresses, IsAddress, Address)
                 IN  steps \o <<Observe("DnsQuery", Keys(steps), NoFacts)>>
    <3>1. \A k : DnsSteps(r, k) = Steps(KindOf(k, Host(r.hostname), "Subdomain"))
      BY DEF DnsSteps, ForThose
    <3> HIDE DEF Steps
    <3> QED
      BY <2>1, <3>1
  <2> QED
    BY <1>1, <2>2 DEF IngestionSteps, HttpTools
<1>2. CASE r.success /\ r.tool = "inspect_dns_ownership"
  <2>1. KindOf(h, Host(r.hostname), "Subdomain") = KindOf(g, Host(r.hostname), "Subdomain")
    BY <1>2 DEF Asked, AskedKind, HttpTools
  <2>2. OwnershipSteps(r, h) = OwnershipSteps(r, g)
    <3> DEFINE Steps(kind) ==
                 LET host == Key(kind, Host(r.hostname))
                     tags == {<<"source", "dns_ownership">>}
                     At(part) == Part(Url("https", r.hostname, 0, "/"), part)
                     Record(record) ==
                       Linked(host, Key("DnsRecord", At(<<"dns", record.type, record.value>>)),
                              "High", tags \cup {<<"dns type", record.type>>}, "Exposes")
                     Provider(provider) ==
                       Linked(host, Key("CloudResource", At(<<"cloud", Slug(provider)>>)),
                              "Medium", tags \cup {<<"cloud", provider>>}, "HostedOn")
                     steps == Found(host, "High",
                                    tags \cup Optional(r.dangling, <<"dns", "dangling_candidate">>))
                              \o ForEach(Take(r.records, 500), Record)
                              \o ForEach(r.providers, Provider)
                 IN  steps \o <<Observe("DnsOwnership", Keys(steps), NoFacts)>>
    <3>1. \A k : OwnershipSteps(r, k) = Steps(KindOf(k, Host(r.hostname), "Subdomain"))
      BY DEF OwnershipSteps
    <3> HIDE DEF Steps
    <3> QED
      BY <2>1, <3>1
  <2> QED
    BY <1>2, <2>2 DEF IngestionSteps, HttpTools
<1>3. CASE r.success /\ r.tool \in HttpTools
  <2>1. KindOf(h, Host(r.url.host), HostKind(r.url.host, "Subdomain")) =
          KindOf(g, Host(r.url.host), HostKind(r.url.host, "Subdomain"))
    BY <1>3 DEF Asked, AskedKind, HttpTools
  <2>2. HttpSteps(r, h) = HttpSteps(r, g)
    <3> DEFINE service == Key("HttpService", Origin(r.url))
               url == Key("Url", r.url)
               content ==
                 (IF r.tool = "analyze_web_page" THEN PageSteps(url, r) ELSE <<>>)
                 \o HintSteps(service, r)
                 \o (CASE r.tool = "analyze_javascript" -> ScriptSteps(service, r)
                       [] r.tool = "describe_api" -> ApiSteps(r)
                       [] OTHER -> <<>>)
               declared ==
                 ForEach(Declared(r),
                         LAMBDA to : Joined(service, Key("Url", to), "Medium", "Exposes"))
               Subjects(host) == {host, service, url} \cup Keys(content) \cup Keys(declared)
               facts == [NoFacts EXCEPT !.url = r.url, !.status = r.status]
               Named(host) ==
                 ResponseSteps(host, service, url, r) \o content \o ContextSteps(service, url, r)
                 \o declared \o <<Observe(HttpSource(r.tool), Subjects(host), facts)>>
                 \o (IF r.tls THEN <<Observe("TlsInspection", {service, url}, NoFacts)>> ELSE <<>>)
               Steps(kind) == Named(Key(kind, Host(r.url.host)))
    <3>1. \A k : HttpSteps(r, k) =
                   Steps(KindOf(k, Host(r.url.host), HostKind(r.url.host, "Subdomain")))
      BY DEF HttpSteps
    <3> HIDE DEF Steps
    <3> QED
      BY <2>1, <3>1
  <2> QED
    BY <1>3, <2>2 DEF IngestionSteps, HttpTools
<1>4. CASE ~(r.success /\ r.tool \in {"resolve_dns", "inspect_dns_ownership"} \cup HttpTools)
  BY <1>4 DEF IngestionSteps, HttpTools
<1> QED
  BY <1>1, <1>2, <1>3, <1>4

-----------------------------------------------------------------------------
(* Certainty.                                                              *)

(* Of two confidences, or of one and what corroborates it, the better one. *)
LEMMA Ranks ==
  /\ \A c \in Confidences : Rank[c] \in 1 .. 4
  /\ \A c, d \in Confidences : Rank[c] = Rank[d] => c = d
BY DEF Confidences, Rank

LEMMA StrongerKeeps ==
  ASSUME NEW old \in Confidences, NEW new \in Confidences
  PROVE  /\ Stronger(old, new) \in Confidences
         /\ Rank[old] <= Rank[Stronger(old, new)] /\ Rank[new] <= Rank[Stronger(old, new)]
BY Ranks DEF Stronger

LEMMA CorroboratedKeeps ==
  ASSUME NEW old \in Confidences, NEW tags
  PROVE  /\ Corroborated(old, tags) \in Confidences
         /\ Rank[old] <= Rank[Corroborated(old, tags)]
<1>1. /\ "Confirmed" \in Confidences /\ "High" \in Confidences
      /\ Rank["Confirmed"] = 4
  BY DEF Confidences, Rank
<1>2. CASE DirectlyVerified(tags)
  BY <1>1, <1>2, Ranks DEF Corroborated
<1>3. CASE ~DirectlyVerified(tags) /\ Cardinality(Sources(tags)) >= 2
  BY <1>1, <1>3, StrongerKeeps DEF Corroborated
<1>4. CASE ~DirectlyVerified(tags) /\ ~(Cardinality(Sources(tags)) >= 2)
  BY <1>4, Ranks DEF Corroborated
<1> QED
  BY <1>2, <1>3, <1>4

-----------------------------------------------------------------------------
(* The correlator.                                                         *)

(* The reason for a hypothesis of that kind about an asset, and what the   *)
(* correlator makes of it.                                                 *)
Reason(g, kind, i) ==
  \/ kind = "UndocumentedEndpoint" /\ IsUndocumentedEndpoint(g, i)
  \/ kind = "PublicSensitiveOperation" /\ IsPublicSensitiveOperation(g, i)
  \/ kind = "AuthenticationSurface" /\ IsAuthenticationSurface(g, i)
  \/ kind = "HistoricalSurface" /\ IsHistoricalSurface(g, i)
  \/ kind = "SourceMapExposure" /\ IsSourceMapExposure(g, i)
  \/ kind = "ClientSecretIndicator" /\ IsClientSecretIndicator(g, i)
  \/ kind = "ClientSecuritySignal" /\ IsClientSecuritySignal(g, i)
  \/ kind = "HighValueParameter" /\ IsHighValueParameter(g, i)
  \/ kind = "UnverifiedAsset" /\ IsUnverifiedAsset(g, i)
  \/ kind = "PotentialDanglingDns" /\ IsPotentialDanglingDns(g, i)

Conclusion(g, kind, i) ==
  CASE kind = "UndocumentedEndpoint" -> UndocumentedEndpoint(g, i)
    [] kind = "PublicSensitiveOperation" -> PublicSensitiveOperation(g, i)
    [] kind = "AuthenticationSurface" -> AuthenticationSurface(g, i)
    [] kind = "HistoricalSurface" -> HistoricalSurface(g, i)
    [] kind = "SourceMapExposure" -> SourceMapExposure(g, i)
    [] kind = "ClientSecretIndicator" -> ClientSecretIndicator(g, i)
    [] kind = "ClientSecuritySignal" -> ClientSecuritySignal(g, i)
    [] kind = "HighValueParameter" -> HighValueParameter(g, i)
    [] kind = "UnverifiedAsset" -> UnverifiedAsset(g, i)
    [] kind = "PotentialDanglingDns" -> PotentialDanglingDns(g, i)

HypothesisKinds ==
  {"UndocumentedEndpoint", "PublicSensitiveOperation", "AuthenticationSurface",
   "HistoricalSurface", "SourceMapExposure", "ClientSecretIndicator", "ClientSecuritySignal",
   "HighValueParameter", "UnverifiedAsset", "PotentialDanglingDns"}

(* A hypothesis is drawn for a reason, and is what follows from it.        *)
LEMMA Concluded ==
  ASSUME NEW g, NEW kind \in HypothesisKinds, NEW i
  PROVE  /\ Conclusion(g, kind, i).kind = kind /\ Conclusion(g, kind, i).subject = i
         /\ Conclusion(g, kind, i).priority \in {2, 3, 4}
<1>1. CASE kind = "UndocumentedEndpoint"
  BY <1>1 DEF Conclusion, UndocumentedEndpoint, Drawn
<1>2. CASE kind = "PublicSensitiveOperation"
  BY <1>2 DEF Conclusion, PublicSensitiveOperation, Drawn
<1>3. CASE kind = "AuthenticationSurface"
  BY <1>3 DEF Conclusion, AuthenticationSurface, Drawn
<1>4. CASE kind = "HistoricalSurface"
  BY <1>4 DEF Conclusion, HistoricalSurface, Unvalidated, Drawn
<1>5. CASE kind = "SourceMapExposure"
  BY <1>5 DEF Conclusion, SourceMapExposure, Unvalidated, Drawn
<1>6. CASE kind = "ClientSecretIndicator"
  BY <1>6 DEF Conclusion, ClientSecretIndicator, Drawn
<1>7. CASE kind = "ClientSecuritySignal"
  BY <1>7 DEF Conclusion, ClientSecuritySignal, Drawn
<1>8. CASE kind = "HighValueParameter"
  BY <1>8 DEF Conclusion, HighValueParameter, Drawn
<1>9. CASE kind = "UnverifiedAsset"
  BY <1>9 DEF Conclusion, UnverifiedAsset, Drawn
<1>10. CASE kind = "PotentialDanglingDns"
  BY <1>10 DEF Conclusion, PotentialDanglingDns, Drawn
<1> QED
  BY <1>1, <1>2, <1>3, <1>4, <1>5, <1>6, <1>7, <1>8, <1>9, <1>10 DEF HypothesisKinds

LEMMA DerivedCases ==
  ASSUME NEW g, NEW d \in Derived(g)
  PROVE  \E i \in DOMAIN g.assets :
           \/ IsUndocumentedEndpoint(g, i) /\ d = UndocumentedEndpoint(g, i)
           \/ IsPublicSensitiveOperation(g, i) /\ d = PublicSensitiveOperation(g, i)
           \/ IsAuthenticationSurface(g, i) /\ d = AuthenticationSurface(g, i)
           \/ IsHistoricalSurface(g, i) /\ d = HistoricalSurface(g, i)
           \/ IsSourceMapExposure(g, i) /\ d = SourceMapExposure(g, i)
           \/ IsClientSecretIndicator(g, i) /\ d = ClientSecretIndicator(g, i)
           \/ IsClientSecuritySignal(g, i) /\ d = ClientSecuritySignal(g, i)
           \/ IsHighValueParameter(g, i) /\ d = HighValueParameter(g, i)
           \/ IsUnverifiedAsset(g, i) /\ d = UnverifiedAsset(g, i)
           \/ IsPotentialDanglingDns(g, i) /\ d = PotentialDanglingDns(g, i)
BY DEF Derived

LEMMA DerivedConcludes ==
  ASSUME NEW g, NEW d \in Derived(g)
  PROVE  /\ d.subject \in DOMAIN g.assets /\ d.kind \in HypothesisKinds
         /\ Reason(g, d.kind, d.subject) /\ d = Conclusion(g, d.kind, d.subject)
         /\ d.priority \in {2, 3, 4}
<1>1. PICK i \in DOMAIN g.assets :
        \/ IsUndocumentedEndpoint(g, i) /\ d = UndocumentedEndpoint(g, i)
        \/ IsPublicSensitiveOperation(g, i) /\ d = PublicSensitiveOperation(g, i)
        \/ IsAuthenticationSurface(g, i) /\ d = AuthenticationSurface(g, i)
        \/ IsHistoricalSurface(g, i) /\ d = HistoricalSurface(g, i)
        \/ IsSourceMapExposure(g, i) /\ d = SourceMapExposure(g, i)
        \/ IsClientSecretIndicator(g, i) /\ d = ClientSecretIndicator(g, i)
        \/ IsClientSecuritySignal(g, i) /\ d = ClientSecuritySignal(g, i)
        \/ IsHighValueParameter(g, i) /\ d = HighValueParameter(g, i)
        \/ IsUnverifiedAsset(g, i) /\ d = UnverifiedAsset(g, i)
        \/ IsPotentialDanglingDns(g, i) /\ d = PotentialDanglingDns(g, i)
  BY DerivedCases
<1>2. PICK kind \in HypothesisKinds : Reason(g, kind, i) /\ d = Conclusion(g, kind, i)
  <2>1. CASE IsUndocumentedEndpoint(g, i) /\ d = UndocumentedEndpoint(g, i)
    <3>1. "UndocumentedEndpoint" \in HypothesisKinds
      BY DEF HypothesisKinds
    <3>2. Reason(g, "UndocumentedEndpoint", i) /\ d = Conclusion(g, "UndocumentedEndpoint", i)
      BY <2>1 DEF Reason, Conclusion
    <3> QED
      BY <3>1, <3>2
  <2>2. CASE IsPublicSensitiveOperation(g, i) /\ d = PublicSensitiveOperation(g, i)
    <3>1. "PublicSensitiveOperation" \in HypothesisKinds
      BY DEF HypothesisKinds
    <3>2. Reason(g, "PublicSensitiveOperation", i) /\ d = Conclusion(g, "PublicSensitiveOperation", i)
      BY <2>2 DEF Reason, Conclusion
    <3> QED
      BY <3>1, <3>2
  <2>3. CASE IsAuthenticationSurface(g, i) /\ d = AuthenticationSurface(g, i)
    <3>1. "AuthenticationSurface" \in HypothesisKinds
      BY DEF HypothesisKinds
    <3>2. Reason(g, "AuthenticationSurface", i) /\ d = Conclusion(g, "AuthenticationSurface", i)
      BY <2>3 DEF Reason, Conclusion
    <3> QED
      BY <3>1, <3>2
  <2>4. CASE IsHistoricalSurface(g, i) /\ d = HistoricalSurface(g, i)
    <3>1. "HistoricalSurface" \in HypothesisKinds
      BY DEF HypothesisKinds
    <3>2. Reason(g, "HistoricalSurface", i) /\ d = Conclusion(g, "HistoricalSurface", i)
      BY <2>4 DEF Reason, Conclusion
    <3> QED
      BY <3>1, <3>2
  <2>5. CASE IsSourceMapExposure(g, i) /\ d = SourceMapExposure(g, i)
    <3>1. "SourceMapExposure" \in HypothesisKinds
      BY DEF HypothesisKinds
    <3>2. Reason(g, "SourceMapExposure", i) /\ d = Conclusion(g, "SourceMapExposure", i)
      BY <2>5 DEF Reason, Conclusion
    <3> QED
      BY <3>1, <3>2
  <2>6. CASE IsClientSecretIndicator(g, i) /\ d = ClientSecretIndicator(g, i)
    <3>1. "ClientSecretIndicator" \in HypothesisKinds
      BY DEF HypothesisKinds
    <3>2. Reason(g, "ClientSecretIndicator", i) /\ d = Conclusion(g, "ClientSecretIndicator", i)
      BY <2>6 DEF Reason, Conclusion
    <3> QED
      BY <3>1, <3>2
  <2>7. CASE IsClientSecuritySignal(g, i) /\ d = ClientSecuritySignal(g, i)
    <3>1. "ClientSecuritySignal" \in HypothesisKinds
      BY DEF HypothesisKinds
    <3>2. Reason(g, "ClientSecuritySignal", i) /\ d = Conclusion(g, "ClientSecuritySignal", i)
      BY <2>7 DEF Reason, Conclusion
    <3> QED
      BY <3>1, <3>2
  <2>8. CASE IsHighValueParameter(g, i) /\ d = HighValueParameter(g, i)
    <3>1. "HighValueParameter" \in HypothesisKinds
      BY DEF HypothesisKinds
    <3>2. Reason(g, "HighValueParameter", i) /\ d = Conclusion(g, "HighValueParameter", i)
      BY <2>8 DEF Reason, Conclusion
    <3> QED
      BY <3>1, <3>2
  <2>9. CASE IsUnverifiedAsset(g, i) /\ d = UnverifiedAsset(g, i)
    <3>1. "UnverifiedAsset" \in HypothesisKinds
      BY DEF HypothesisKinds
    <3>2. Reason(g, "UnverifiedAsset", i) /\ d = Conclusion(g, "UnverifiedAsset", i)
      BY <2>9 DEF Reason, Conclusion
    <3> QED
      BY <3>1, <3>2
  <2>10. CASE IsPotentialDanglingDns(g, i) /\ d = PotentialDanglingDns(g, i)
    <3>1. "PotentialDanglingDns" \in HypothesisKinds
      BY DEF HypothesisKinds
    <3>2. Reason(g, "PotentialDanglingDns", i) /\ d = Conclusion(g, "PotentialDanglingDns", i)
      BY <2>10 DEF Reason, Conclusion
    <3> QED
      BY <3>1, <3>2
  <2> QED
    BY <1>1, <2>1, <2>2, <2>3, <2>4, <2>5, <2>6, <2>7, <2>8, <2>9, <2>10
<1>3. d.kind = kind /\ d.subject = i /\ d.priority \in {2, 3, 4}
  BY <1>2, Concluded
<1> QED
  BY <1>2, <1>3

LEMMA ReasonDerives ==
  ASSUME NEW g, NEW i \in DOMAIN g.assets, NEW kind, Reason(g, kind, i)
  PROVE  \E d \in Derived(g) : d.kind = kind /\ d.subject = i
<1>1. kind \in HypothesisKinds
  BY DEF Reason, HypothesisKinds
<1>2. Conclusion(g, kind, i).kind = kind /\ Conclusion(g, kind, i).subject = i
  BY <1>1, Concluded
<1>3. Conclusion(g, kind, i) \in Derived(g)
  <2>1. CASE kind = "UndocumentedEndpoint" /\ IsUndocumentedEndpoint(g, i)
    <3>1. Conclusion(g, kind, i) = UndocumentedEndpoint(g, i)
      BY <2>1 DEF Conclusion
    <3>2. UndocumentedEndpoint(g, i) \in Derived(g)
      BY <2>1 DEF Derived
    <3> QED
      BY <3>1, <3>2
  <2>2. CASE kind = "PublicSensitiveOperation" /\ IsPublicSensitiveOperation(g, i)
    <3>1. Conclusion(g, kind, i) = PublicSensitiveOperation(g, i)
      BY <2>2 DEF Conclusion
    <3>2. PublicSensitiveOperation(g, i) \in Derived(g)
      BY <2>2 DEF Derived
    <3> QED
      BY <3>1, <3>2
  <2>3. CASE kind = "AuthenticationSurface" /\ IsAuthenticationSurface(g, i)
    <3>1. Conclusion(g, kind, i) = AuthenticationSurface(g, i)
      BY <2>3 DEF Conclusion
    <3>2. AuthenticationSurface(g, i) \in Derived(g)
      BY <2>3 DEF Derived
    <3> QED
      BY <3>1, <3>2
  <2>4. CASE kind = "HistoricalSurface" /\ IsHistoricalSurface(g, i)
    <3>1. Conclusion(g, kind, i) = HistoricalSurface(g, i)
      BY <2>4 DEF Conclusion
    <3>2. HistoricalSurface(g, i) \in Derived(g)
      BY <2>4 DEF Derived
    <3> QED
      BY <3>1, <3>2
  <2>5. CASE kind = "SourceMapExposure" /\ IsSourceMapExposure(g, i)
    <3>1. Conclusion(g, kind, i) = SourceMapExposure(g, i)
      BY <2>5 DEF Conclusion
    <3>2. SourceMapExposure(g, i) \in Derived(g)
      BY <2>5 DEF Derived
    <3> QED
      BY <3>1, <3>2
  <2>6. CASE kind = "ClientSecretIndicator" /\ IsClientSecretIndicator(g, i)
    <3>1. Conclusion(g, kind, i) = ClientSecretIndicator(g, i)
      BY <2>6 DEF Conclusion
    <3>2. ClientSecretIndicator(g, i) \in Derived(g)
      BY <2>6 DEF Derived
    <3> QED
      BY <3>1, <3>2
  <2>7. CASE kind = "ClientSecuritySignal" /\ IsClientSecuritySignal(g, i)
    <3>1. Conclusion(g, kind, i) = ClientSecuritySignal(g, i)
      BY <2>7 DEF Conclusion
    <3>2. ClientSecuritySignal(g, i) \in Derived(g)
      BY <2>7 DEF Derived
    <3> QED
      BY <3>1, <3>2
  <2>8. CASE kind = "HighValueParameter" /\ IsHighValueParameter(g, i)
    <3>1. Conclusion(g, kind, i) = HighValueParameter(g, i)
      BY <2>8 DEF Conclusion
    <3>2. HighValueParameter(g, i) \in Derived(g)
      BY <2>8 DEF Derived
    <3> QED
      BY <3>1, <3>2
  <2>9. CASE kind = "UnverifiedAsset" /\ IsUnverifiedAsset(g, i)
    <3>1. Conclusion(g, kind, i) = UnverifiedAsset(g, i)
      BY <2>9 DEF Conclusion
    <3>2. UnverifiedAsset(g, i) \in Derived(g)
      BY <2>9 DEF Derived
    <3> QED
      BY <3>1, <3>2
  <2>10. CASE kind = "PotentialDanglingDns" /\ IsPotentialDanglingDns(g, i)
    <3>1. Conclusion(g, kind, i) = PotentialDanglingDns(g, i)
      BY <2>10 DEF Conclusion
    <3>2. PotentialDanglingDns(g, i) \in Derived(g)
      BY <2>10 DEF Derived
    <3> QED
      BY <3>1, <3>2
  <2> QED
    BY <2>1, <2>2, <2>3, <2>4, <2>5, <2>6, <2>7, <2>8, <2>9, <2>10 DEF Reason
<1> QED
  BY <1>2, <1>3

(* There is one about an asset of each kind.                               *)
LEMMA DerivedOnce ==
  ASSUME NEW g, NEW d \in Derived(g), NEW e \in Derived(g), SameHypothesis(d, e)
  PROVE  d = e
BY DerivedConcludes DEF SameHypothesis

(* Finitely many are drawn.                                                *)
LEMMA DerivedFinite ==
  ASSUME NEW g, IsSequence(g.assets)
  PROVE  IsFiniteSet(Derived(g))
<1> DEFINE D == Derived(g)
           T == HypothesisKinds \X DOMAIN g.assets
           f == [d \in D |-> <<d.kind, d.subject>>]
<1>1. IsFiniteSet(DOMAIN g.assets)
  <2>1. Len(g.assets) \in Nat /\ DOMAIN g.assets = 1 .. Len(g.assets)
    BY Listed
  <2> QED
    BY <2>1, FS_Interval
<1>2. IsFiniteSet(HypothesisKinds)
  <2>1. HypothesisKinds =
          {"UndocumentedEndpoint"} \cup {"PublicSensitiveOperation"} \cup {"AuthenticationSurface"}
          \cup {"HistoricalSurface"} \cup {"SourceMapExposure"} \cup {"ClientSecretIndicator"}
          \cup {"ClientSecuritySignal"} \cup {"HighValueParameter"} \cup {"UnverifiedAsset"}
          \cup {"PotentialDanglingDns"}
    BY DEF HypothesisKinds
  <2> QED
    BY <2>1, FS_Singleton, FS_Union
<1>3. IsFiniteSet(T)
  BY <1>1, <1>2, FS_Product
<1>4. f \in [D -> T]
  BY DerivedConcludes
<1>5. \A d, e \in D : f[d] = f[e] => d = e
  <2> SUFFICES ASSUME NEW d \in D, NEW e \in D, f[d] = f[e]
               PROVE  d = e
    OBVIOUS
  <2>1. d.kind = e.kind /\ d.subject = e.subject
    OBVIOUS
  <2> QED
    BY <2>1, DerivedOnce DEF SameHypothesis
<1> HIDE DEF f, T, D
<1>6. f \in Injection(D, T)
  BY <1>4, <1>5 DEF Injection, IsInjective
<1>7. IsFiniteSet(D)
  BY <1>3, <1>6, FS_Injection
<1> QED
  BY <1>7 DEF D

=============================================================================
