--------------------------- MODULE ScopeGuardProofs ---------------------------
(***************************************************************************)
(* Theorems about ScopeGuard, for every set of projects, runs and requests,*)
(* every rate, window and pause.                                           *)
(*                                                                         *)
(* The queue of a project is the tail of its grants (Tail), and whatever   *)
(* the loop popped is older than the window (Dropped).  So when a request  *)
(* is granted, the grants that are not among the last rate-1 are old.      *)
(***************************************************************************)
EXTENDS ScopeGuard, FiniteSetTheorems, TLAPS

(* How many grants of a project have left its queue.                       *)
Gone(p) == Len(granted[p]) - Len(requestTimes[p])

TailOf(p) ==
  /\ Len(requestTimes[p]) <= Len(granted[p])
  /\ \A i \in 1 .. Len(requestTimes[p]) : requestTimes[p][i] = granted[p][Gone(p) + i]

Dropped(p) == \A i \in 1 .. Gone(p) : Expired(granted[p][i])

Ordered(p) ==
  /\ \A i \in DOMAIN granted[p] : granted[p][i] <= clock
  /\ \A i, j \in DOMAIN granted[p] : i <= j => granted[p][i] <= granted[p][j]

(* The earliest time at which a run that sleeps is refused for good.       *)
Last(w) == w.until + w.left * PathPause

(* What it was first refused for is over then.                             *)
Sleeper(run) ==
  waiting[run] # Nothing =>
    LET w == waiting[run]
        p == w.request.project.id
    IN  /\ w.seen <= Len(granted[p])
        /\ \A i \in 1 .. w.seen : granted[p][i] + Window <= Last(w)

IInv ==
  /\ TypeOK
  /\ \A p \in Projects : TailOf(p) /\ Dropped(p) /\ Ordered(p)
  /\ \A run \in Runs : Sleeper(run)
  /\ RateBounded
  /\ QueueBounded

-----------------------------------------------------------------------------
(* What is left of a queue after k of its elements are popped.             *)
LEMMA RestType ==
  ASSUME NEW times \in Seq(Nat), NEW k \in 0 .. Len(times)
  PROVE  /\ Rest(times, k) \in Seq(Nat)
         /\ Len(Rest(times, k)) = Len(times) - k
         /\ \A i \in 1 .. (Len(times) - k) : Rest(times, k)[i] = times[k + i]
<1>1. Len(times) - k \in Nat
  OBVIOUS
<1>2. \A i \in 1 .. (Len(times) - k) : k + i \in 1 .. Len(times)
  OBVIOUS
<1>3. \A i \in 1 .. (Len(times) - k) : times[k + i] \in Nat
  BY <1>2
<1> QED
  BY <1>1, <1>3 DEF Rest

(* A request is for a project, with a rate up to the largest.              *)
LEMMA RequestFacts ==
  ASSUME NEW request \in Requests
  PROVE  /\ request.project.id \in Projects
         /\ request.project.rate \in Nat /\ request.project.rate <= MaxRate
  BY RequestsAssumption, TimesAssumption DEF Request, ScopeProject

(* What may be left of a queue: a tail of the grants, with nothing but old *)
(* grants before it.                                                       *)
Left(p, rest) ==
  /\ rest \in Seq(Nat)
  /\ Len(granted[p]) - Len(rest) \in 0 .. Len(granted[p])
  /\ \A i \in 1 .. Len(rest) : rest[i] = granted[p][(Len(granted[p]) - Len(rest)) + i]
  /\ \A i \in 1 .. (Len(granted[p]) - Len(rest)) : Expired(granted[p][i])

(* What the loop leaves of a queue is a tail of the grants.                *)
LEMMA Popped ==
  ASSUME IInv, NEW p \in Projects, NEW k \in 0 .. Len(requestTimes[p]),
         Pops(requestTimes[p], k)
  PROVE  /\ Left(p, Rest(requestTimes[p], k))
         /\ Len(Rest(requestTimes[p], k)) = Len(requestTimes[p]) - k
<1> DEFINE times == requestTimes[p]
           rest  == Rest(times, k)
           log   == granted[p]
           m     == Len(times)
           n     == Len(log)
<1>1. /\ times \in Seq(Nat) /\ log \in Seq(Nat) /\ m \in Nat /\ n \in Nat
      /\ m <= n /\ k \in 0 .. m
      /\ \A i \in 1 .. m : times[i] = log[n - m + i]
      /\ \A i \in 1 .. (n - m) : Expired(log[i])
  BY DEF IInv, TypeOK, TailOf, Dropped, Gone
<1>2. /\ rest \in Seq(Nat) /\ Len(rest) = m - k
      /\ \A i \in 1 .. (m - k) : rest[i] = times[k + i]
  BY <1>1, RestType
<1>3. \A i \in 1 .. k : Expired(times[i])
  BY DEF Pops
<1> HIDE DEF rest, m, n, times, log
<1>4. k \in Nat /\ k <= m
  BY <1>1
<1> DEFINE gone == n - m + k
<1>5. gone \in 0 .. n /\ n - Len(rest) = gone
  BY <1>1, <1>2, <1>4
<1>6. ASSUME NEW i \in 1 .. (m - k)
      PROVE  rest[i] = log[gone + i]
  <2>1. k + i \in 1 .. m /\ n - m + (k + i) = gone + i
    BY <1>1, <1>4, <1>6
  <2>2. rest[i] = times[k + i]
    BY <1>2, <1>6
  <2>3. times[k + i] = log[n - m + (k + i)]
    BY <1>1, <2>1
  <2> QED
    BY <2>1, <2>2, <2>3
<1>7. ASSUME NEW i \in 1 .. gone
      PROVE  Expired(log[i])
  <2>1. CASE i <= n - m
    BY <1>1, <1>4, <1>7, <2>1
  <2>2. CASE ~(i <= n - m)
    <3> DEFINE j == i - (n - m)
    <3>1. j \in 1 .. k /\ j \in 1 .. m /\ n - m + j = i
      BY <1>1, <1>4, <1>7, <2>2
    <3>2. Expired(times[j]) /\ times[j] = log[n - m + j]
      BY <1>1, <1>3, <3>1
    <3> QED
      BY <3>1, <3>2
  <2> QED
    BY <2>1, <2>2
<1> HIDE DEF gone
<1>8. /\ rest \in Seq(Nat) /\ Len(rest) = m - k
      /\ n - Len(rest) \in 0 .. n
      /\ \A i \in 1 .. Len(rest) : rest[i] = log[(n - Len(rest)) + i]
      /\ \A i \in 1 .. (n - Len(rest)) : Expired(log[i])
  BY <1>2, <1>5, <1>6, <1>7
<1> QED
  BY <1>8 DEF Left, rest, m, n, times, log

-----------------------------------------------------------------------------
(* IInv is inductive.                                                      *)

(* The invariant holds initially: nothing was granted.                     *)
LEMMA InitInv == Init => IInv
<1> SUFFICES ASSUME Init PROVE IInv
  OBVIOUS
<1>1. TypeOK
  BY DEF Init, TypeOK
<1>2. \A p \in Projects : TailOf(p) /\ Dropped(p) /\ Ordered(p)
  BY DEF Init, TailOf, Dropped, Ordered, Gone
<1>3. RateBounded /\ QueueBounded
  BY TimesAssumption DEF Init, RateBounded, QueueBounded
<1> QED
  BY <1>1, <1>2, <1>3 DEF IInv, Sleeper, Init

(* A grant: what becomes of its project's queue and grants.                *)
Gained(p) ==
  /\ granted'[p] \in Seq(Nat) /\ Len(granted'[p]) = Len(granted[p]) + 1
  /\ \A i \in 1 .. Len(granted[p]) : granted'[p][i] = granted[p][i]
  /\ granted'[p][Len(granted[p]) + 1] = clock
  /\ requestTimes'[p] \in Seq(Nat) /\ Len(requestTimes'[p]) \in 1 .. MaxRate
  /\ TailOf(p)' /\ Dropped(p)' /\ Ordered(p)'
  /\ \A i \in 1 .. (Len(granted[p]) + 1) :
       i + MaxRate <= Len(granted[p]) + 1 => clock - granted[p][i] >= Window

(* A grant adds to its project and keeps the rate.                         *)
LEMMA GrantProject ==
  ASSUME IInv, NEW request \in Requests, Grant(request)
  PROVE  Gained(request.project.id)
<1> DEFINE p     == request.project.id
           rate  == request.project.rate
           times == requestTimes[p]
           log   == granted[p]
           n     == Len(log)
<1>1. p \in Projects /\ rate \in Nat /\ rate <= MaxRate /\ MaxRate \in Nat /\ clock \in Nat
      /\ Window \in Nat
  BY RequestFacts, TimesAssumption DEF IInv, TypeOK
<1>2. PICK k \in 0 .. Len(times) :
        /\ Pops(times, k)
        /\ ~Full(Rest(times, k), rate)
        /\ requestTimes' = [requestTimes EXCEPT ![p] = Append(Rest(times, k), clock)]
  BY DEF Grant
<1> DEFINE rest == Rest(times, k)
           m    == Len(rest)
           gone == n - m
<1>3. /\ rest \in Seq(Nat) /\ m \in Nat /\ gone \in 0 .. n
      /\ \A i \in 1 .. m : rest[i] = log[gone + i]
      /\ \A i \in 1 .. gone : Expired(log[i])
  <2>1. Left(p, rest)
    BY <1>1, <1>2, Popped
  <2>2. Len(rest) \in Nat
    BY <2>1 DEF Left
  <2> QED
    BY <2>1, <2>2 DEF Left
<1>4. m < rate
  <2>1. ~(Len(rest) >= rate)
    BY <1>2 DEF Full
  <2> QED
    BY <1>1, <1>3, <2>1
<1> HIDE DEF rest
<1>5. /\ requestTimes'[p] = Append(rest, clock) /\ granted'[p] = Append(log, clock)
      /\ log \in Seq(Nat) /\ n \in Nat /\ clock' = clock
  <2>1. /\ requestTimes \in [Projects -> Seq(Nat)] /\ granted \in [Projects -> Seq(Nat)]
        /\ granted' = [granted EXCEPT ![p] = Append(@, clock)] /\ clock' = clock
    BY DEF Grant, IInv, TypeOK
  <2>2. requestTimes' = [requestTimes EXCEPT ![p] = Append(rest, clock)]
    BY <1>2 DEF rest
  <2>3. log \in Seq(Nat) /\ n \in Nat
    BY <1>1, <2>1
  <2> HIDE DEF p
  <2> QED
    BY <1>1, <2>1, <2>2, <2>3
<1>6. /\ requestTimes'[p] \in Seq(Nat) /\ Len(requestTimes'[p]) = m + 1
      /\ \A i \in 1 .. m : requestTimes'[p][i] = rest[i]
      /\ requestTimes'[p][m + 1] = clock
  BY <1>1, <1>3, <1>5
<1>7. /\ granted'[p] \in Seq(Nat) /\ Len(granted'[p]) = n + 1
      /\ DOMAIN granted'[p] = 1 .. (n + 1)
      /\ \A i \in 1 .. n : granted'[p][i] = log[i]
      /\ granted'[p][n + 1] = clock
  BY <1>1, <1>5
<1>8. /\ \A i \in 1 .. n : log[i] \in Nat /\ log[i] <= clock
      /\ \A i, j \in 1 .. n : i <= j => log[i] <= log[j]
  <2>1. Ordered(p) /\ DOMAIN log = 1 .. n
    BY <1>1, <1>5 DEF IInv
  <2>2. \A i \in 1 .. n : log[i] \in Nat
    <3> HIDE DEF log
    <3> QED
      BY <1>5
  <2> QED
    BY <2>1, <2>2 DEF Ordered
<1> HIDE DEF log, n, m
<1>9. n + 1 - (m + 1) = gone /\ gone \in Nat /\ gone <= n /\ n = gone + m
  BY <1>3, <1>5
<1> HIDE DEF gone
<1>10. Gone(p)' = gone
  <2>1. Gone(p)' = Len(granted'[p]) - Len(requestTimes'[p])
    BY DEF Gone
  <2> QED
    BY <1>3, <1>5, <1>6, <1>7, <1>9, <2>1
<1>11. TailOf(p)'
  <2>1. ASSUME NEW i \in 1 .. (m + 1)
        PROVE  requestTimes'[p][i] = granted'[p][gone + i]
    <3>1. CASE i \in 1 .. m
      <4>1. gone + i \in 1 .. n
        BY <1>3, <1>9, <3>1
      <4> QED
        BY <1>3, <1>6, <1>7, <3>1, <4>1
    <3>2. CASE i = m + 1
      <4>1. gone + i = n + 1
        BY <1>3, <1>9, <3>2
      <4> QED
        BY <1>6, <1>7, <3>2, <4>1
    <3> QED
      BY <1>3, <2>1, <3>1, <3>2
  <2>2. m + 1 <= n + 1
    BY <1>3, <1>9
  <2> QED
    BY <1>6, <1>7, <1>10, <2>1, <2>2 DEF TailOf
<1>12. Dropped(p)'
  <2>1. \A i \in 1 .. gone : i \in 1 .. n
    BY <1>5, <1>9
  <2> QED
    BY <1>3, <1>5, <1>7, <1>10, <2>1 DEF Dropped, Expired
<1>13. Ordered(p)'
  <2>2. \A i \in 1 .. (n + 1) : i \in 1 .. n \/ i = n + 1
    BY <1>5
  <2>3. \A i \in 1 .. (n + 1) : granted'[p][i] <= clock
    BY <1>1, <1>7, <1>8, <2>2
  <2>4. ASSUME NEW i \in 1 .. (n + 1), NEW j \in 1 .. (n + 1), i <= j
        PROVE  granted'[p][i] <= granted'[p][j]
    <3>1. CASE j = n + 1
      BY <1>7, <2>3, <3>1
    <3>2. CASE j \in 1 .. n
      <4>1. i \in 1 .. n
        BY <1>5, <2>4, <3>2
      <4> QED
        BY <1>7, <1>8, <2>4, <3>2, <4>1
    <3> QED
      BY <2>2, <3>1, <3>2
  <2> QED
    BY <1>5, <1>7, <2>3, <2>4 DEF Ordered
<1>14. ASSUME NEW i \in 1 .. (n + 1), i + MaxRate <= n + 1
       PROVE  clock - log[i] >= Window
  <2>1. i \in 1 .. gone
    BY <1>1, <1>3, <1>4, <1>5, <1>9, <1>14
  <2> QED
    BY <1>3, <2>1 DEF Expired
<1>15. Len(requestTimes'[p]) \in 1 .. MaxRate
  BY <1>1, <1>3, <1>4, <1>6
<1> QED
  BY <1>6, <1>7, <1>11, <1>12, <1>13, <1>14, <1>15 DEF Gained, log, n

(* A refusal: only the queue of its project changes.                       *)
(* The queue holds the youngest grants, and the oldest of them is young.   *)
Young(p, rate) ==
  \E m \in Nat :
    /\ rate <= m /\ m <= Len(granted[p])
    /\ m > 0 => ~Expired(granted[p][(Len(granted[p]) - m) + 1])

Refused(p, rate) ==
  /\ Young(p, rate)
  /\ requestTimes'[p] \in Seq(Nat)
  /\ Len(requestTimes'[p]) \in 0 .. Len(requestTimes[p])
  /\ TailOf(p)' /\ Dropped(p)' /\ Ordered(p)'

(* A refusal adds nothing and means that the rate is used up.              *)
LEMMA LimitProject ==
  ASSUME IInv, NEW request \in Requests, Limit(request)
  PROVE  Refused(request.project.id, request.project.rate)
<1> DEFINE p     == request.project.id
           rate  == request.project.rate
           times == requestTimes[p]
           log   == granted[p]
<1>1. p \in Projects /\ rate \in Nat /\ times \in Seq(Nat) /\ Len(times) \in Nat
      /\ log \in Seq(Nat) /\ Len(log) \in Nat
  BY RequestFacts DEF IInv, TypeOK
<1>2. PICK k \in 0 .. Len(times) :
        /\ Pops(times, k)
        /\ Full(Rest(times, k), rate)
        /\ requestTimes' = [requestTimes EXCEPT ![p] = Rest(times, k)]
  BY DEF Limit
<1> DEFINE rest == Rest(times, k)
<1>3. Left(p, rest) /\ Len(rest) = Len(times) - k /\ rest \in Seq(Nat)
  BY <1>1, <1>2, Popped DEF Left
<1>4. Len(rest) >= rate
  BY <1>2 DEF Full
<1>5. Len(rest) > 0 => ~Expired(rest[1])
  <2> SUFFICES ASSUME Len(rest) > 0 PROVE ~Expired(rest[1])
    OBVIOUS
  <2>1. k \in Nat /\ k < Len(times) /\ 1 \in 1 .. (Len(times) - k)
    <3> DEFINE size == Len(times)
               left == Len(rest)
    <3>1. size \in Nat /\ k \in 0 .. size /\ left = size - k /\ left > 0
      BY <1>1, <1>3
    <3> HIDE DEF size, left
    <3>2. k \in Nat /\ k < size /\ 1 \in 1 .. (size - k)
      BY <3>1
    <3> QED
      BY <3>2 DEF size
  <2>2. rest[1] = times[k + 1]
    BY <1>1, <2>1, RestType
  <2> QED
    BY <1>2, <2>1, <2>2 DEF Pops
<1> HIDE DEF rest
<1>6. requestTimes'[p] = rest /\ granted' = granted /\ clock' = clock
  BY <1>1, <1>2 DEF Limit, IInv, TypeOK, rest
<1>7. Gone(p)' = Len(log) - Len(rest)
  BY <1>6 DEF Gone
<1>8. Len(rest) \in Nat /\ Len(rest) <= Len(times) /\ Len(rest) <= Len(log)
  <2>1. Len(rest) \in Nat
    BY <1>3
  <2>2. Len(log) - Len(rest) \in 0 .. Len(log)
    BY <1>3 DEF Left
  <2>3. k \in Nat
    BY <1>1
  <2> HIDE DEF times, log
  <2> QED
    BY <1>1, <1>3, <2>1, <2>2, <2>3
<1>9. TailOf(p)'
  <2>1. \A i \in 1 .. Len(rest) : rest[i] = log[(Len(log) - Len(rest)) + i]
    BY <1>3 DEF Left
  <2> QED
    BY <1>6, <1>7, <1>8, <2>1 DEF TailOf
<1>10. Dropped(p)'
  <2>1. \A i \in 1 .. (Len(log) - Len(rest)) : Expired(log[i])
    BY <1>3 DEF Left
  <2> QED
    BY <1>6, <1>7, <2>1 DEF Dropped, Expired
<1>11. Ordered(p)'
  BY <1>1, <1>6 DEF IInv, Ordered
<1>12. Young(p, rate)
  <2>1. Len(rest) > 0 => rest[1] = log[(Len(log) - Len(rest)) + 1]
    <3>1. Len(rest) > 0 => 1 \in 1 .. Len(rest)
      BY <1>8
    <3> QED
      BY <1>3, <3>1 DEF Left
  <2>2. Len(rest) > 0 => ~Expired(log[(Len(log) - Len(rest)) + 1])
    BY <1>5, <2>1
  <2> QED
    BY <1>4, <1>8, <2>2 DEF Young
<1>13. Len(requestTimes'[p]) \in 0 .. Len(times) /\ requestTimes'[p] \in Seq(Nat)
  BY <1>1, <1>3, <1>6, <1>8
<1> QED
  BY <1>9, <1>10, <1>11, <1>12, <1>13 DEF Refused

(* What an answer of the guard does to all projects.                       *)
Answered ==
  /\ clock' = clock
  /\ requestTimes' \in [Projects -> Seq(Nat)] /\ granted' \in [Projects -> Seq(Nat)]
  /\ \A p \in Projects : TailOf(p)' /\ Dropped(p)' /\ Ordered(p)'
  /\ RateBounded' /\ QueueBounded'
  /\ \A p \in Projects :
       /\ Len(granted[p]) <= Len(granted'[p])
       /\ \A i \in 1 .. Len(granted[p]) : granted'[p][i] = granted[p][i]

(* A project nobody asks for keeps its queue and its grants.               *)
LEMMA Untouched ==
  ASSUME IInv, NEW q \in Projects, clock' = clock,
         requestTimes'[q] = requestTimes[q], granted'[q] = granted[q]
  PROVE  /\ TailOf(q)' /\ Dropped(q)' /\ Ordered(q)'
         /\ Len(granted[q]) \in Nat
         /\ Len(granted[q]) <= Len(granted'[q])
         /\ \A i \in 1 .. Len(granted[q]) : granted'[q][i] = granted[q][i]
<1>1. TailOf(q) /\ Dropped(q) /\ Ordered(q)
  BY DEF IInv
<1>2. Len(granted[q]) \in Nat
  BY DEF IInv, TypeOK
<1>3. Gone(q)' = Gone(q)
  BY DEF Gone
<1> QED
  BY <1>1, <1>2, <1>3 DEF TailOf, Dropped, Ordered, Expired

(* A grant answers a request.                                              *)
LEMMA GrantKeeps ==
  ASSUME IInv, NEW request \in Requests, Grant(request)
  PROVE  Answered
<1> DEFINE p == request.project.id
           n == Len(granted[p])
<1>1. p \in Projects /\ MaxRate \in Nat
  BY RequestFacts, TimesAssumption
<1>2. /\ granted'[p] \in Seq(Nat) /\ Len(granted'[p]) = n + 1
      /\ \A i \in 1 .. n : granted'[p][i] = granted[p][i]
      /\ granted'[p][n + 1] = clock
      /\ requestTimes'[p] \in Seq(Nat) /\ Len(requestTimes'[p]) \in 1 .. MaxRate
      /\ TailOf(p)' /\ Dropped(p)' /\ Ordered(p)'
      /\ \A i \in 1 .. (n + 1) : i + MaxRate <= n + 1 => clock - granted[p][i] >= Window
  <2>1. Gained(p)
    BY GrantProject
  <2> QED
    BY <2>1 DEF Gained
<1>3. /\ granted \in [Projects -> Seq(Nat)] /\ requestTimes \in [Projects -> Seq(Nat)]
      /\ n \in Nat /\ clock' = clock
  BY <1>1 DEF Grant, IInv, TypeOK
<1>21. \E q : requestTimes' = [requestTimes EXCEPT ![p] = q]
  BY DEF Grant
<1>22. \E q : granted' = [granted EXCEPT ![p] = q]
  BY DEF Grant
<1> HIDE DEF p
<1>4. requestTimes' \in [Projects -> Seq(Nat)] /\ granted' \in [Projects -> Seq(Nat)]
  BY <1>1, <1>2, <1>3, <1>21, <1>22
<1>5. \A q \in Projects \ {p} : requestTimes'[q] = requestTimes[q] /\ granted'[q] = granted[q]
  BY <1>1, <1>3, <1>21, <1>22
<1>6. \A q \in Projects : TailOf(q)' /\ Dropped(q)' /\ Ordered(q)'
  BY <1>2, <1>3, <1>5, Untouched
<1>7. \A q \in Projects :
        /\ Len(granted[q]) <= Len(granted'[q])
        /\ \A i \in 1 .. Len(granted[q]) : granted'[q][i] = granted[q][i]
  <2>1. Len(granted[p]) <= Len(granted'[p])
    BY <1>2, <1>3
  <2>2. \A i \in 1 .. Len(granted[p]) : granted'[p][i] = granted[p][i]
    BY <1>2
  <2> QED
    BY <1>3, <1>5, <2>1, <2>2, Untouched
<1>8. QueueBounded'
  <2>1. ASSUME NEW q \in Projects
        PROVE  Len(requestTimes'[q]) <= MaxRate
    <3>1. CASE q = p
      BY <1>1, <1>2, <3>1
    <3>2. CASE q # p
      BY <1>5, <3>2 DEF IInv, QueueBounded
    <3> QED
      BY <3>1, <3>2
  <2> QED
    BY <2>1 DEF QueueBounded
<1>9. RateBounded'
  <2> SUFFICES ASSUME NEW q \in Projects, NEW i \in DOMAIN granted'[q],
                      NEW j \in DOMAIN granted'[q], i + MaxRate <= j
               PROVE  granted'[q][j] - granted'[q][i] >= Window
    BY DEF RateBounded
  <2>1. CASE q # p
    BY <1>5, <2>1 DEF IInv, RateBounded
  <2>2. CASE q = p
    <3> DEFINE log == granted[p]
               new == granted'[p]
    <3>1. /\ DOMAIN log = 1 .. n /\ DOMAIN new = 1 .. (n + 1)
          /\ \A k \in 1 .. n : new[k] = log[k]
          /\ i \in 1 .. (n + 1) /\ j \in 1 .. (n + 1) /\ new[n + 1] = clock
      <4>1. new \in Seq(Nat) /\ Len(new) = n + 1 /\ log \in Seq(Nat) /\ Len(log) = n
        BY <1>1, <1>2, <1>3
      <4>2. DOMAIN log = 1 .. n /\ DOMAIN new = 1 .. (n + 1)
        BY <4>1
      <4>3. granted'[q] = new
        BY <2>2
      <4> QED
        BY <1>2, <4>2, <4>3
    <3>2. \A k, l \in DOMAIN log : k + MaxRate <= l => log[l] - log[k] >= Window
      BY <1>1 DEF IInv, RateBounded
    <3>3. \A k \in 1 .. (n + 1) : k + MaxRate <= n + 1 => clock - log[k] >= Window
      BY <1>2
    <3>4. MaxRate > 0
      BY <1>1, <1>2
    <3>5. i \in 1 .. n
      BY <1>1, <1>3, <3>1, <3>4
    <3> HIDE DEF log, new, n
    <3>6. CASE j = n + 1
      BY <3>1, <3>3, <3>5, <3>6, <2>2 DEF new
    <3>7. CASE j \in 1 .. n
      <4>1. new[j] = log[j] /\ new[i] = log[i] /\ log[j] - log[i] >= Window
        BY <3>1, <3>2, <3>5, <3>7
      <4> QED
        BY <4>1, <2>2 DEF new
    <3>8. j = n + 1 \/ j \in 1 .. n
      BY <1>3, <3>1
    <3> QED
      BY <3>6, <3>7, <3>8
  <2> QED
    BY <2>1, <2>2
<1> QED
  BY <1>3, <1>4, <1>6, <1>7, <1>8, <1>9 DEF Answered

(* A refusal answers a request.                                            *)
LEMMA LimitKeeps ==
  ASSUME IInv, NEW request \in Requests, Limit(request)
  PROVE  Answered
<1> DEFINE p == request.project.id
<1>1. p \in Projects /\ MaxRate \in Nat
  BY RequestFacts, TimesAssumption
<1>2. /\ requestTimes'[p] \in Seq(Nat)
      /\ Len(requestTimes'[p]) \in 0 .. Len(requestTimes[p])
      /\ TailOf(p)' /\ Dropped(p)' /\ Ordered(p)'
  <2>1. Refused(p, request.project.rate)
    BY LimitProject
  <2> QED
    BY <2>1 DEF Refused
<1>21. \E q : requestTimes' = [requestTimes EXCEPT ![p] = q]
  BY DEF Limit
<1>3. /\ clock' = clock /\ granted' = granted
      /\ granted \in [Projects -> Seq(Nat)] /\ requestTimes \in [Projects -> Seq(Nat)]
      /\ Len(requestTimes[p]) \in Nat
  BY <1>1 DEF Limit, IInv, TypeOK
<1> HIDE DEF p
<1>4. requestTimes' \in [Projects -> Seq(Nat)]
  BY <1>1, <1>2, <1>3, <1>21
<1>5. \A q \in Projects \ {p} : requestTimes'[q] = requestTimes[q]
  BY <1>1, <1>3, <1>21
<1>6. \A q \in Projects : TailOf(q)' /\ Dropped(q)' /\ Ordered(q)'
  BY <1>2, <1>3, <1>5, Untouched
<1>7. \A q \in Projects : Len(granted[q]) \in Nat
  BY <1>3
<1>8. QueueBounded'
  <2>1. ASSUME NEW q \in Projects
        PROVE  Len(requestTimes'[q]) <= MaxRate
    <3>1. Len(requestTimes[q]) <= MaxRate
      BY DEF IInv, QueueBounded
    <3>2. CASE q = p
      BY <1>1, <1>2, <1>3, <3>1, <3>2
    <3>3. CASE q # p
      BY <1>5, <3>1, <3>3
    <3> QED
      BY <3>2, <3>3
  <2> QED
    BY <2>1 DEF QueueBounded
<1>9. RateBounded'
  BY <1>3 DEF IInv, RateBounded
<1> QED
  BY <1>3, <1>4, <1>6, <1>7, <1>8, <1>9 DEF Answered

(* A sleeper's facts outlive any answer.                                   *)
LEMMA SleeperKept ==
  ASSUME IInv, Answered, NEW run \in Runs,
         waiting'[run] = Nothing \/ waiting'[run] = waiting[run]
  PROVE  Sleeper(run)'
<1> SUFFICES ASSUME waiting'[run] = waiting[run], waiting[run] # Nothing
             PROVE  Sleeper(run)'
  BY DEF Sleeper
<1> DEFINE w == waiting[run]
           p == w.request.project.id
<1>1. w \in Wait /\ w.request \in Requests /\ w.seen \in Nat
  BY DEF IInv, TypeOK, Wait
<1>2. p \in Projects
  BY <1>1, RequestFacts
<1>3. w.seen <= Len(granted[p]) /\ \A i \in 1 .. w.seen : granted[p][i] + Window <= Last(w)
  BY DEF IInv, Sleeper
<1>4. /\ Len(granted[p]) \in Nat /\ Len(granted'[p]) \in Nat
      /\ Len(granted[p]) <= Len(granted'[p])
      /\ \A i \in 1 .. Len(granted[p]) : granted'[p][i] = granted[p][i]
  <2>1. granted[p] \in Seq(Nat) /\ granted'[p] \in Seq(Nat)
    BY <1>2 DEF Answered, IInv, TypeOK
  <2>2. /\ Len(granted[p]) <= Len(granted'[p])
        /\ \A i \in 1 .. Len(granted[p]) : granted'[p][i] = granted[p][i]
    BY <1>2 DEF Answered
  <2> HIDE DEF p
  <2> QED
    BY <2>1, <2>2
<1> DEFINE seen  == w.seen
           old   == Len(granted[p])
           new   == Len(granted'[p])
<1>5. seen \in Nat /\ old \in Nat /\ new \in Nat /\ seen <= old /\ old <= new
  BY <1>1, <1>3, <1>4
<1>6. seen <= new /\ \A i \in 1 .. seen : i \in 1 .. old
  <2> HIDE DEF seen, old, new
  <2> QED
    BY <1>5
<1>7. \A i \in 1 .. w.seen : granted'[p][i] + Window <= Last(w)
  BY <1>3, <1>4, <1>6
<1> QED
  BY <1>6, <1>7 DEF Sleeper, Last

(* An answered request keeps the invariant.                                *)
LEMMA AnsweredInv ==
  ASSUME IInv, Answered, waiting' \in [Runs -> {Nothing} \cup Wait],
         \A run \in Runs : Sleeper(run)'
  PROVE  IInv'
<1>1. TypeOK'
  BY DEF IInv, TypeOK, Answered
<1> QED
  BY <1>1 DEF IInv, Answered

(* A run that falls asleep for long enough: every grant so far has left    *)
(* the window by the time it is refused for good.                          *)
LEMMA AsleepKeeps ==
  ASSUME IInv, NEW run \in Runs, NEW request \in Requests, NEW pause \in Nat, NEW left \in Nat,
         Limit(request), waiting' = [waiting EXCEPT ![run] = Asleep(request, pause, left)],
         Window <= pause + left * PathPause
  PROVE  IInv'
<1> DEFINE p == request.project.id
           w == Asleep(request, pause, left)
<1>1. Answered
  BY LimitKeeps
<1>2. p \in Projects /\ granted' = granted /\ clock \in Nat /\ Window \in Nat /\ PathPause \in Nat
  BY RequestFacts, TimesAssumption DEF Limit, IInv, TypeOK
<1>3. /\ granted[p] \in Seq(Nat) /\ Len(granted[p]) \in Nat
      /\ DOMAIN granted[p] = 1 .. Len(granted[p])
      /\ \A i \in 1 .. Len(granted[p]) : granted[p][i] <= clock /\ granted[p][i] \in Nat
  <2>1. granted[p] \in Seq(Nat) /\ Ordered(p)
    BY <1>2 DEF IInv, TypeOK
  <2>2. /\ Len(granted[p]) \in Nat /\ DOMAIN granted[p] = 1 .. Len(granted[p])
        /\ \A i \in 1 .. Len(granted[p]) : granted[p][i] \in Nat
    BY <2>1
  <2> QED
    BY <2>1, <2>2 DEF Ordered
<1>4. /\ w \in Wait /\ w.request = request /\ w.until = clock + pause /\ w.left = left
      /\ w.seen = Len(granted[p])
  BY <1>2, <1>3 DEF Wait, Asleep
<1>5. waiting' = [waiting EXCEPT ![run] = w] /\ waiting \in [Runs -> {Nothing} \cup Wait]
  BY DEF IInv, TypeOK
<1> HIDE DEF w
<1>6. waiting' \in [Runs -> {Nothing} \cup Wait]
  BY <1>4, <1>5
<1>7. Sleeper(run)'
  <2>1. waiting'[run] = w
    BY <1>5
  <2> DEFINE rest == left * PathPause
  <2>2. rest \in Nat /\ Window <= pause + rest
    BY <1>2
  <2>3. Last(w) = (clock + pause) + rest
    BY <1>4 DEF Last
  <2> HIDE DEF rest
  <2>4. \A i \in 1 .. Len(granted[p]) : granted[p][i] + Window <= Last(w)
    BY <1>2, <1>3, <2>2, <2>3
  <2>5. w.seen <= Len(granted[p]) /\ w.request.project.id = p
    BY <1>3, <1>4
  <2>6. /\ waiting'[run].seen <= Len(granted[waiting'[run].request.project.id])
        /\ \A i \in 1 .. waiting'[run].seen :
             granted[waiting'[run].request.project.id][i] + Window <= Last(waiting'[run])
    BY <1>4, <2>1, <2>4, <2>5
  <2> HIDE DEF p
  <2> QED
    BY <1>2, <2>6 DEF Sleeper, Last
<1>8. \A other \in Runs \ {run} : Sleeper(other)'
  <2>1. \A other \in Runs \ {run} : waiting'[other] = waiting[other]
    BY <1>5
  <2> QED
    BY <1>1, <2>1, SleeperKept
<1> QED
  BY <1>1, <1>6, <1>7, <1>8, AnsweredInv

(* The sleep before a retry is long enough, and so are all naps together.  *)
LEMMA RefusedKeeps ==
  ASSUME IInv, NEW run \in Runs, NEW request \in Requests,
         PrepareLimited(run, request) \/ PathLimited(run, request)
  PROVE  IInv'
<1>1. CASE PrepareLimited(run, request)
  <2>1. 0 \in Nat /\ Pause \in Nat /\ Window <= Pause + 0 * PathPause
    BY TimesAssumption
  <2> QED
    BY <1>1, <2>1, AsleepKeeps DEF PrepareLimited
<1>2. CASE PathLimited(run, request)
  <2>1. /\ MAX_RATE_RETRIES - 1 \in Nat /\ PathPause \in Nat
        /\ PathPause + (MAX_RATE_RETRIES - 1) * PathPause = MAX_RATE_RETRIES * PathPause
    BY TimesAssumption
  <2>2. Window <= PathPause + (MAX_RATE_RETRIES - 1) * PathPause
    BY <2>1, TimesAssumption
  <2> QED
    BY <1>2, <2>1, <2>2, AsleepKeeps DEF PathLimited
<1> QED
  BY <1>1, <1>2

(* The record of a run that asks again later.                              *)
Later(w, time, left) == [w EXCEPT !.until = time, !.left = left]

(* It differs in nothing else.                                             *)
LEMMA AskedAgain ==
  ASSUME NEW w \in Wait, NEW time \in Nat, NEW left \in Nat
  PROVE  /\ Later(w, time, left) \in Wait
         /\ Later(w, time, left).request = w.request /\ Later(w, time, left).seen = w.seen
         /\ Later(w, time, left).until = time /\ Later(w, time, left).left = left
  BY DEF Wait, Later

(* A path that is asked for again is refused for good no earlier.          *)
LEMMA RetryAgainKeeps ==
  ASSUME IInv, NEW run \in Runs, RetryAgain(run)
  PROVE  IInv'
<1> DEFINE w == waiting[run]
           time == clock + PathPause
           left == w.left - 1
           v == Later(w, time, left)
           p == w.request.project.id
<1>1. /\ w \in Wait /\ w # Nothing /\ w.request \in Requests /\ w.seen \in Nat /\ w.left \in Nat
      /\ w.until \in Nat /\ w.until <= clock /\ w.left > 0 /\ Limit(w.request)
      /\ clock \in Nat /\ Window \in Nat /\ PathPause \in Nat
  BY TimesAssumption DEF RetryAgain, Awake, IInv, TypeOK, Wait
<1>2. /\ v \in Wait /\ v.request = w.request /\ v.seen = w.seen
      /\ v.until = clock + PathPause /\ v.left = w.left - 1
  <2>1. time \in Nat /\ left \in Nat
    BY <1>1
  <2> HIDE DEF w, time, left
  <2>2. w \in Wait
    BY <1>1
  <2>3. v \in Wait /\ v.request = w.request /\ v.seen = w.seen
    BY <2>1, <2>2, AskedAgain
  <2>4. v.until = time /\ v.left = left
    BY <2>1, <2>2, AskedAgain
  <2> QED
    BY <2>3, <2>4 DEF time, left
<1>3. Answered /\ granted' = granted /\ p \in Projects
  BY <1>1, RequestFacts, LimitKeeps DEF Limit
<1>4. waiting' = [waiting EXCEPT ![run] = v] /\ waiting \in [Runs -> {Nothing} \cup Wait]
  BY DEF RetryAgain, Later, IInv, TypeOK
<1>5. w.seen <= Len(granted[p]) /\ \A i \in 1 .. w.seen : granted[p][i] + Window <= Last(w)
  BY <1>1 DEF IInv, Sleeper
<1>6. \A i \in 1 .. w.seen : granted[p][i] \in Nat
  <2>1. granted[p] \in Seq(Nat)
    BY <1>3 DEF IInv, TypeOK
  <2> HIDE DEF p
  <2>2. Len(granted[p]) \in Nat /\ \A i \in 1 .. Len(granted[p]) : granted[p][i] \in Nat
    BY <2>1
  <2> DEFINE n == Len(granted[p])
             m == w.seen
  <2>3. n \in Nat /\ m \in Nat /\ m <= n
    BY <1>1, <1>5, <2>2
  <2> HIDE DEF n, m
  <2>4. \A i \in 1 .. m : i \in 1 .. n
    BY <2>3
  <2> QED
    BY <2>2, <2>4 DEF n, m
<1> HIDE DEF v, w, p
<1>7. Last(w) <= Last(v) /\ Last(w) \in Int /\ Last(v) \in Int
  <2> DEFINE a == (w.left - 1) * PathPause
             b == w.left * PathPause
  <2>1. a \in Nat /\ b \in Nat /\ a + PathPause = b
    BY <1>1
  <2>2. Last(w) = w.until + b /\ Last(v) = clock + PathPause + a
    BY <1>2 DEF Last
  <2> HIDE DEF a, b
  <2> QED
    BY <1>1, <2>1, <2>2
<1>8. \A i \in 1 .. w.seen : granted[p][i] + Window <= Last(v)
  BY <1>1, <1>5, <1>6, <1>7
<1>9. waiting' \in [Runs -> {Nothing} \cup Wait]
  BY <1>2, <1>4
<1>10. Sleeper(run)'
  <2>1. waiting'[run] = v
    BY <1>4
  <2>2. /\ v.seen <= Len(granted[v.request.project.id])
        /\ \A i \in 1 .. v.seen : granted[v.request.project.id][i] + Window <= Last(v)
    BY <1>2, <1>5, <1>8 DEF p
  <2>3. /\ waiting'[run].seen <= Len(granted[waiting'[run].request.project.id])
        /\ \A i \in 1 .. waiting'[run].seen :
             granted[waiting'[run].request.project.id][i] + Window <= Last(waiting'[run])
    BY <2>1, <2>2
  <2> QED
    BY <1>3, <2>3 DEF Sleeper, Last
<1>11. \A other \in Runs \ {run} : Sleeper(other)'
  <2>1. \A other \in Runs \ {run} : waiting'[other] = waiting[other]
    BY <1>4
  <2> QED
    BY <1>3, <2>1, SleeperKept
<1> QED
  BY <1>3, <1>9, <1>10, <1>11, AnsweredInv

(* Time keeps the invariant.                                               *)
LEMMA TickKeeps ==
  ASSUME IInv, Tick \/ UNCHANGED vars
  PROVE  IInv'
<1>1. /\ clock' \in Nat /\ clock \in Nat /\ clock <= clock' /\ Window \in Nat
      /\ UNCHANGED <<requestTimes, waiting, granted>>
  BY TimesAssumption DEF IInv, TypeOK, Tick, vars
<1>2. TypeOK' /\ RateBounded' /\ QueueBounded'
  BY <1>1 DEF IInv, TypeOK, RateBounded, QueueBounded
<1>3. ASSUME NEW p \in Projects
      PROVE  TailOf(p)' /\ Dropped(p)' /\ Ordered(p)'
  <2> DEFINE log == granted[p]
  <2>1. /\ log \in Seq(Nat) /\ Len(log) \in Nat /\ DOMAIN log = 1 .. Len(log)
        /\ Len(requestTimes[p]) \in Nat
        /\ TailOf(p) /\ Dropped(p) /\ Ordered(p)
    BY <1>3 DEF IInv, TypeOK
  <2>2. \A i \in 1 .. Len(log) : log[i] \in Nat
    BY <2>1
  <2>3. Gone(p)' = Gone(p) /\ \A i \in 1 .. Gone(p) : i \in 1 .. Len(log)
    BY <1>1, <2>1 DEF Gone
  <2>4. TailOf(p)'
    BY <1>1, <2>1, <2>3 DEF TailOf
  <2>5. Dropped(p)'
    BY <1>1, <2>1, <2>2, <2>3 DEF Dropped, Expired
  <2>6. Ordered(p)'
    BY <1>1, <2>1, <2>2 DEF Ordered
  <2> QED
    BY <2>4, <2>5, <2>6
<1>4. \A run \in Runs : Sleeper(run)'
  BY <1>1 DEF IInv, Sleeper, Last
<1> QED
  BY <1>2, <1>3, <1>4 DEF IInv

(* Every step keeps the invariant.                                         *)
LEMMA StepInv == IInv /\ [Next]_vars => IInv'
<1> SUFFICES ASSUME IInv, [Next]_vars PROVE IInv'
  OBVIOUS
<1>0. waiting \in [Runs -> {Nothing} \cup Wait]
  BY DEF IInv, TypeOK
<1>1. ASSUME NEW request \in Requests, AuthorizeCommand(request)
      PROVE  IInv'
  <2>1. Answered
    BY <1>1, GrantKeeps, LimitKeeps DEF AuthorizeCommand
  <2>2. waiting' = waiting
    BY <1>1 DEF AuthorizeCommand
  <2> QED
    BY <1>0, <2>1, <2>2, SleeperKept, AnsweredInv
<1>2. ASSUME NEW request \in Requests, NEW run \in Runs, PrepareGranted(run, request)
      PROVE  IInv'
  <2>1. Answered
    BY <1>2, GrantKeeps DEF PrepareGranted
  <2>2. waiting' = waiting
    BY <1>2 DEF PrepareGranted
  <2> QED
    BY <1>0, <2>1, <2>2, SleeperKept, AnsweredInv
<1>3. ASSUME NEW run \in Runs, RetryGranted(run) \/ RetryLimited(run)
      PROVE  IInv'
  <2>1. waiting[run].request \in Requests
    BY <1>0, <1>3 DEF RetryGranted, RetryLimited, Awake, Wait
  <2>2. Answered
    BY <1>3, <2>1, GrantKeeps, LimitKeeps DEF RetryGranted, RetryLimited
  <2>3. waiting' = [waiting EXCEPT ![run] = Nothing]
    BY <1>3 DEF RetryGranted, RetryLimited
  <2>4. \A other \in Runs : waiting'[other] = Nothing \/ waiting'[other] = waiting[other]
    BY <1>0, <2>3
  <2>5. waiting' \in [Runs -> {Nothing} \cup Wait]
    BY <1>0, <2>3
  <2> QED
    BY <2>2, <2>4, <2>5, SleeperKept, AnsweredInv
<1> QED
  BY <1>1, <1>2, <1>3, RefusedKeeps, RetryAgainKeeps, TickKeeps DEF Next

(* The inductive invariant holds in every reachable state.                 *)
THEOREM Invariance == Spec => []IInv
  BY InitInv, StepInv, PTL DEF Spec

-----------------------------------------------------------------------------
(* The variables of the guard keep their types.                            *)
THEOREM TypeCorrect == Spec => []TypeOK
<1>1. IInv => TypeOK
  BY DEF IInv
<1> QED
  BY <1>1, Invariance, PTL

(* The rate of a project is never exceeded, in any window.                 *)
THEOREM RateNeverExceeded == Spec => []RateBounded
<1>1. IInv => RateBounded
  BY DEF IInv
<1> QED
  BY <1>1, Invariance, PTL

(* The queues stay as short as the rates.                                  *)
THEOREM QueuesStayShort == Spec => []QueueBounded
<1>1. IInv => QueueBounded
  BY DEF IInv
<1> QED
  BY <1>1, Invariance, PTL

(* A run alone with its project is not refused twice.                      *)
THEOREM OneRetryIsEnough == Spec => RetryRefusedWhenContended
<1>1. IInv /\ [Next]_vars =>
        [\A run \in Runs :
           RetryLimited(run) =>
             LET w == waiting[run] IN
             \/ w.request.project.rate = 0
             \/ w.seen < Len(granted[w.request.project.id])]_vars
  <2> SUFFICES ASSUME IInv, NEW run \in Runs, RetryLimited(run),
                      waiting[run].request.project.rate # 0
               PROVE  waiting[run].seen < Len(granted[waiting[run].request.project.id])
    OBVIOUS
  <2> DEFINE w == waiting[run]
             p == w.request.project.id
             n == Len(granted[p])
  <2>1. w \in Wait /\ w.request \in Requests /\ w.seen \in Nat /\ w.until \in Nat
        /\ w.until <= clock /\ Limit(w.request) /\ w # Nothing /\ w.left = 0
    BY DEF RetryLimited, Awake, IInv, TypeOK, Wait
  <2>2. /\ p \in Projects /\ w.request.project.rate \in Nat /\ w.request.project.rate # 0
        /\ granted' = granted /\ clock' = clock
    BY <2>1, RequestFacts DEF Limit
  <2>3. Young(p, w.request.project.rate)
    <3>1. Refused(p, w.request.project.rate)
      BY <2>1, LimitProject
    <3> QED
      BY <3>1 DEF Refused
  <2>4. /\ granted[p] \in Seq(Nat) /\ n \in Nat
        /\ w.seen <= n /\ \A i \in 1 .. w.seen : granted[p][i] + Window <= w.until
    <3>1. Sleeper(run) /\ granted \in [Projects -> Seq(Nat)]
      BY DEF IInv, TypeOK
    <3>2. granted[p] \in Seq(Nat) /\ n \in Nat
      BY <2>2, <3>1
    <3>3. Last(w) = w.until
      BY <2>1, TimesAssumption DEF Last
    <3> QED
      BY <2>1, <3>1, <3>2, <3>3 DEF Sleeper
  <2>5. PICK m \in Nat :
          /\ w.request.project.rate <= m /\ m <= n
          /\ m > 0 => ~Expired(granted[p][(n - m) + 1])
    BY <2>3 DEF Young
  <2> DEFINE log  == granted[p]
             seen == w.seen
             f    == (n - m) + 1
             rate == w.request.project.rate
  <2>6. /\ log \in Seq(Nat) /\ n = Len(log) /\ n \in Nat /\ m \in Nat /\ m <= n
        /\ rate \in Nat /\ rate # 0 /\ rate <= m /\ seen \in Nat /\ seen <= n
        /\ \A i \in 1 .. seen : log[i] + Window <= w.until
        /\ m > 0 => ~Expired(log[f])
        /\ f = (n - m) + 1
    BY <2>1, <2>2, <2>4, <2>5
  <2>7. seen < n
    <3> HIDE DEF log, n, seen, f, rate, w
    <3>1. f \in 1 .. n /\ m > 0
      BY <2>6
    <3>2. log[f] \in Nat /\ ~Expired(log[f])
      BY <2>6, <3>1
    <3>3. clock \in Nat /\ Window \in Nat
      BY TimesAssumption DEF IInv, TypeOK
    <3>4. ~(f \in 1 .. seen)
      <4> SUFFICES ASSUME f \in 1 .. seen PROVE FALSE
        OBVIOUS
      <4>1. log[f] + Window <= w.until
        BY <2>6
      <4> QED
        BY <2>1, <3>2, <3>3, <4>1 DEF Expired
    <3> QED
      BY <2>6, <3>1, <3>4
  <2> QED
    BY <2>7
<1> QED
  BY <1>1, Invariance, PTL DEF Spec, RetryRefusedWhenContended

(* A refusal for the rate is always justified.                             *)
THEOREM RefusalsAreJustified == Spec => DenialJustified
<1>1. IInv /\ [Next]_vars =>
        [\A request \in Requests :
           Limit(request) =>
             Cardinality(Recent(request.project.id)) >= request.project.rate]_vars
  <2> SUFFICES ASSUME IInv, NEW request \in Requests, Limit(request)
               PROVE  Cardinality(Recent(request.project.id)) >= request.project.rate
    OBVIOUS
  <2> DEFINE p    == request.project.id
             rate == request.project.rate
             log  == granted[p]
             n    == Len(log)
  <2>1. /\ p \in Projects /\ rate \in Nat /\ clock \in Nat /\ Window \in Nat
        /\ log \in Seq(Nat) /\ n \in Nat /\ DOMAIN log = 1 .. n /\ Ordered(p)
    BY RequestFacts, TimesAssumption DEF IInv, TypeOK
  <2>2. Young(p, rate)
    <3>1. Refused(p, rate)
      BY LimitProject
    <3> QED
      BY <3>1 DEF Refused
  <2>3. PICK m \in Nat :
          /\ rate <= m /\ m <= n
          /\ m > 0 => ~Expired(log[(n - m) + 1])
    BY <2>2 DEF Young
  <2> DEFINE f    == (n - m) + 1
             tail == f .. n
  <2>4. /\ \A i \in 1 .. n : log[i] \in Nat
        /\ \A i, j \in 1 .. n : i <= j => log[i] <= log[j]
    <3>1. \A i \in 1 .. n : log[i] \in Nat
      BY <2>1
    <3> QED
      BY <2>1, <3>1 DEF Ordered
  <2>5. \A i : i \in Recent(p) <=> i \in 1 .. n /\ clock - log[i] < Window
    BY <2>1 DEF Recent
  <2>6. m > 0 => ~Expired(log[f])
    BY <2>3
  <2>7. f \in Int /\ f = (n - m) + 1
    BY <2>1
  <2>8. ASSUME NEW i \in f .. n
        PROVE  i \in Recent(p)
    <3> HIDE DEF f, n, log
    <3>1. m > 0 /\ f \in 1 .. n /\ i \in 1 .. n /\ f <= i
      BY <2>1, <2>3, <2>7, <2>8
    <3>2. log[f] <= log[i] /\ log[f] \in Nat /\ log[i] \in Nat
      BY <2>4, <3>1
    <3>3. clock - log[i] < Window
      BY <2>1, <2>6, <3>1, <3>2 DEF Expired
    <3> QED
      BY <2>5, <3>1, <3>3
  <2>9. Cardinality(f .. n) = m
    <3> HIDE DEF f, n, log
    <3>1. Cardinality(f .. n) = IF f > n THEN 0 ELSE n - f + 1
      BY <2>1, <2>7, FS_Interval
    <3> QED
      BY <2>1, <2>3, <2>7, <3>1
  <2>10. IsFiniteSet(Recent(p))
    <3>1. IsFiniteSet(1 .. n) /\ Recent(p) \subseteq 1 .. n
      BY <2>1, <2>5, FS_Interval
    <3> QED
      BY <3>1, FS_Subset
  <2>11. m <= Cardinality(Recent(p)) /\ Cardinality(Recent(p)) \in Nat
    <3>1. f .. n \subseteq Recent(p)
      BY <2>8
    <3> HIDE DEF f, n, log
    <3>2. Cardinality(f .. n) <= Cardinality(Recent(p))
      BY <2>10, <3>1, FS_Subset
    <3>3. Cardinality(Recent(p)) \in Nat
      BY <2>10, FS_CardinalityType
    <3> QED
      BY <2>9, <3>2, <3>3
  <2>12. rate <= m /\ rate \in Nat
    BY <2>1, <2>3
  <2> DEFINE c == Cardinality(Recent(p))
  <2> HIDE DEF c, rate
  <2>13. c >= rate
    BY <2>11, <2>12 DEF c
  <2> QED
    BY <2>13 DEF c, rate
<1> QED
  BY <1>1, Invariance, PTL DEF Spec, DenialJustified
=============================================================================
