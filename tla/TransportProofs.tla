---------------------------- MODULE TransportProofs ----------------------------
(***************************************************************************)
(* Proofs about a request budget (RequestBudget), the three components     *)
(* that keep one, for every policy, cooldown, number of clients, crashes   *)
(* and clock changes: OpenF1Client, the hourly quota around it             *)
(* (HourlyBudget) and the guard of the FastF1 transport (TransportGuard);  *)
(* and about the leaf of a session they fill (Enrichment).                 *)
(*                                                                         *)
(* A request leaves only with its reservation, and its intent, on disk.    *)
(* As the wall clock never runs ahead of elapsed time, every request is    *)
(* covered by its timestamp, by a cooldown, or by its age, at any moment.  *)
(***************************************************************************)
EXTENDS OpenF1Client, HourlyBudget, TransportGuard, Enrichment, FiniteSetTheorems,
        SequenceTheorems, TLAPS

-----------------------------------------------------------------------------
(* RequestBudget: what its operators preserve, for every policy, history and *)
(* time.                                                                     *)

(* A sequence of times without its first k. *)
LEMMA EndOfSequence ==
  ASSUME NEW s \in Seq(Int), NEW k \in 0..Len(s)
  PROVE  /\ SubSeq(s, k + 1, Len(s)) \in Seq(Int)
         /\ Len(SubSeq(s, k + 1, Len(s))) = Len(s) - k
         /\ \A i \in 1..(Len(s) - k) : SubSeq(s, k + 1, Len(s))[i] = s[k + i]
<1>1. Len(s) \in Nat /\ k \in Nat /\ k + 1 \in Int /\ Len(s) \in Int
  OBVIOUS
<1>2. \A i \in (k + 1)..Len(s) : s[i] \in Int
  BY <1>1
<1>3. /\ SubSeq(s, k + 1, Len(s)) \in Seq(Int)
      /\ Len(SubSeq(s, k + 1, Len(s))) = IF k + 1 <= Len(s) THEN Len(s) - (k + 1) + 1 ELSE 0
      /\ \A i \in 1..(Len(s) - (k + 1) + 1) : SubSeq(s, k + 1, Len(s))[i] = s[(k + 1) + i - 1]
  BY <1>1, <1>2, SubSeqProperties
<1>4. Len(SubSeq(s, k + 1, Len(s))) = Len(s) - k
  BY <1>1, <1>3
<1>5. ASSUME NEW i \in 1..(Len(s) - k)
      PROVE  SubSeq(s, k + 1, Len(s))[i] = s[k + i]
  <2>1. i \in 1..(Len(s) - (k + 1) + 1) /\ (k + 1) + i - 1 = k + i
    BY <1>1
  <2>2. SubSeq(s, k + 1, Len(s))[i] = s[(k + 1) + i - 1]
    BY <1>3, <2>1
  <2> QED
    BY <2>1, <2>2
<1> QED
  BY <1>3, <1>4, <1>5

(* A sequence of times with one more at its end. *)
LEMMA OneMore ==
  ASSUME NEW s \in Seq(Int), NEW now \in Int
  PROVE  /\ Append(s, now) \in Seq(Int) /\ Append(s, now) # <<>>
         /\ Len(Append(s, now)) = Len(s) + 1
         /\ \A i \in 1..Len(s) : Append(s, now)[i] = s[i]
         /\ Append(s, now)[Len(s) + 1] = now
BY AppendProperties

(* What is retained of a history is its end. *)
LEMMA RetainedIsEnd ==
  ASSUME NEW b \in Budget, NEW policy \in Policy, NEW now \in Int
  PROVE  \E k \in 0..Len(b.stamps) :
            /\ Retained(b, policy, now) \in Seq(Int)
            /\ Len(Retained(b, policy, now)) = Len(b.stamps) - k
            /\ \A i \in 1..(Len(b.stamps) - k) : Retained(b, policy, now)[i] = b.stamps[k + i]
<1>1. b.stamps \in Seq(Int) /\ Len(b.stamps) \in Nat /\ DOMAIN b.stamps = 1..Len(b.stamps)
  BY DEF Budget
<1>2. IsFiniteSet(1..Len(b.stamps)) /\ Cardinality(1..Len(b.stamps)) = Len(b.stamps)
  BY <1>1, FS_Interval
<1>3. Expired(b, policy, now) \in SUBSET (1..Len(b.stamps))
  BY <1>1 DEF Expired
<1>4. Cardinality(Expired(b, policy, now)) \in 0..Len(b.stamps)
  <2>1. /\ IsFiniteSet(Expired(b, policy, now))
        /\ Cardinality(Expired(b, policy, now)) <= Cardinality(1..Len(b.stamps))
    BY <1>2, <1>3, FS_Subset
  <2>2. Cardinality(Expired(b, policy, now)) \in Nat
    BY <2>1, FS_CardinalityType
  <2> QED
    BY <1>1, <1>2, <2>1, <2>2
<1> QED
  BY <1>1, <1>4, EndOfSequence DEF Retained

(* A request that need not wait is not within a cooldown. *)
LEMMA DelayRespectsCooldown ==
  ASSUME NEW b \in Budget, NEW policy \in Policy, NEW now \in Int
  PROVE  Delay(b, policy, now) \in Nat /\ (Delay(b, policy, now) = 0 => b.notBefore <= now)
<1> DEFINE kept == Retained(b, policy, now)
<1>1. kept \in Seq(Int)
  BY RetainedIsEnd
<1>2. policy.limit \in Nat \ {0} /\ policy.interval \in Nat \ {0} /\ b.notBefore \in Int
  BY DEF Policy, Budget
<1>3. SlotDelay(b, policy, now) \in Int
  <2>1. CASE Len(kept) < policy.limit
    BY <2>1 DEF SlotDelay
  <2>2. CASE ~ (Len(kept) < policy.limit)
    <3>1. Len(kept) - policy.limit + 1 \in 1..Len(kept)
      BY <1>1, <1>2, <2>2
    <3>2. kept[Len(kept) - policy.limit + 1] \in Int
      BY <1>1, <3>1
    <3> QED
      BY <1>2, <2>2, <3>2 DEF SlotDelay
  <2> QED
    BY <2>1, <2>2
<1> QED
  BY <1>2, <1>3 DEF Delay, Larger

(* A cooldown is never shortened, and leaves the history alone. *)
LEMMA DeferredProperties ==
  ASSUME NEW b \in Budget, NEW till \in Int
  PROVE  /\ Deferred(b, till) \in Budget
         /\ Deferred(b, till).stamps = b.stamps
         /\ Deferred(b, till).notBefore >= b.notBefore
         /\ Deferred(b, till).notBefore >= till
BY DEF Deferred, Larger, Budget

(* A history in order stays so when a time is added that none is after. *)
LEMMA OneMoreInOrder ==
  ASSUME NEW s \in Seq(Int), NEW now \in Int,
         \A i \in 1..(Len(s) - 1) : s[i] <= s[i + 1],
         s # <<>> => s[Len(s)] <= now
  PROVE  \A i \in 1..(Len(Append(s, now)) - 1) : Append(s, now)[i] <= Append(s, now)[i + 1]
<1>1. Len(s) \in Nat
  OBVIOUS
<1> SUFFICES ASSUME NEW i \in 1..Len(s) PROVE Append(s, now)[i] <= Append(s, now)[i + 1]
  BY <1>1, OneMore
<1>2. CASE i < Len(s)
  <2>1. i \in 1..(Len(s) - 1) /\ i + 1 \in 1..Len(s)
    BY <1>1, <1>2
  <2> QED
    BY <2>1, OneMore
<1>3. CASE i = Len(s)
  BY <1>1, <1>3, OneMore
<1> QED
  BY <1>1, <1>2, <1>3

(* A reservation is the youngest timestamp, and keeps the order unless the  *)
(* clock went back.                                                         *)
LEMMA ReservedProperties ==
  ASSUME NEW b \in Budget, NEW policy \in Policy, NEW now \in Int
  PROVE  /\ Reserved(b, policy, now) \in Budget
         /\ Reserved(b, policy, now).notBefore = b.notBefore
         /\ Reserved(b, policy, now).stamps # <<>>
         /\ Reserved(b, policy, now).stamps[Len(Reserved(b, policy, now).stamps)] = now
         /\ InOrder(b) /\ ~ ClockWentBack(b, policy, now) => InOrder(Reserved(b, policy, now))
<1>1. PICK k \in 0..Len(b.stamps) :
        /\ Retained(b, policy, now) \in Seq(Int)
        /\ Len(Retained(b, policy, now)) = Len(b.stamps) - k
        /\ \A i \in 1..(Len(b.stamps) - k) : Retained(b, policy, now)[i] = b.stamps[k + i]
  BY RetainedIsEnd
<1>2. b.stamps \in Seq(Int) /\ b.notBefore \in Int /\ Len(b.stamps) \in Nat
  BY DEF Budget
<1>3. /\ Reserved(b, policy, now).stamps = Append(Retained(b, policy, now), now)
      /\ Reserved(b, policy, now).notBefore = b.notBefore
      /\ Reserved(b, policy, now) \in Budget
  <2>1. Append(Retained(b, policy, now), now) \in Seq(Int)
    BY <1>1, OneMore
  <2> QED
    BY <1>2, <2>1 DEF Reserved, Budget
<1>4. ASSUME InOrder(b), ~ ClockWentBack(b, policy, now)
      PROVE  InOrder(Reserved(b, policy, now))
  <2>1. \A i \in 1..(Len(Retained(b, policy, now)) - 1) :
          Retained(b, policy, now)[i] <= Retained(b, policy, now)[i + 1]
    <3> SUFFICES ASSUME NEW i \in 1..(Len(b.stamps) - k - 1)
                 PROVE  Retained(b, policy, now)[i] <= Retained(b, policy, now)[i + 1]
      BY <1>1
    <3>1. /\ i \in 1..(Len(b.stamps) - k) /\ i + 1 \in 1..(Len(b.stamps) - k)
          /\ k + i \in 1..(Len(b.stamps) - 1) /\ k + (i + 1) = (k + i) + 1
      BY <1>2
    <3>2. b.stamps[k + i] <= b.stamps[(k + i) + 1]
      BY <1>4, <3>1 DEF InOrder
    <3> QED
      BY <1>1, <3>1, <3>2
  <2>2. Retained(b, policy, now) # <<>> =>
          Retained(b, policy, now)[Len(Retained(b, policy, now))] <= now
    <3>1. Retained(b, policy, now) # <<>> =>
            Retained(b, policy, now)[Len(Retained(b, policy, now))] \in Int
      BY <1>1
    <3> QED
      BY <1>4, <3>1 DEF ClockWentBack
  <2> QED
    BY <1>1, <1>3, <2>1, <2>2, OneMoreInOrder DEF InOrder
<1>5. /\ Append(Retained(b, policy, now), now) # <<>>
      /\ Append(Retained(b, policy, now), now)[Len(Append(Retained(b, policy, now), now))] = now
  BY <1>1, OneMore
<1> QED
  BY <1>3, <1>4, <1>5

-----------------------------------------------------------------------------
(* Requests on the real clock, and the timestamps that stand for them.  The  *)
(* requests sent at the times `q`, the last `left` of them left out, are     *)
(* covered by a budget when each is older than the interval; or within its   *)
(* cooldown; or has a timestamp, at the same place from the end of the       *)
(* history (the youngest `shift` timestamps left out), that the clock `c`    *)
(* makes no older than the request is at real time `now`.                    *)
Ordered(b) == \A i, j \in DOMAIN b.stamps : i <= j => b.stamps[i] <= b.stamps[j]
Covers(b, p, s, j, now, c) ==
    \/ s + p.interval <= now
    \/ b.notBefore - c >= s + p.interval - now
    \/ j \in DOMAIN b.stamps /\ b.stamps[j] - c >= s - now
CoversAll(b, p, q, shift, left, now, c) ==
    \A i \in 1..(Len(q) - left) :
        Covers(b, p, q[i], Len(b.stamps) - shift - (Len(q) - i), now, c)

(* The requests `q` leave room for one more now; no interval has more of    *)
(* them than the limit; none is in the future.                              *)
Free(p, q, now) == \A i \in 1..(Len(q) - p.limit + 1) : q[i] + p.interval <= now
Spaced(p, q) == \A i \in 1..(Len(q) - p.limit) : q[i + p.limit] - q[i] >= p.interval
Past(q, now) == \A i \in DOMAIN q : q[i] <= now

(* How many, when it is one or none. *)
One(condition) == IF condition THEN 1 ELSE 0

LEMMA BudgetFields ==
  ASSUME NEW b \in Budget
  PROVE  /\ b.stamps \in Seq(Int) /\ b.notBefore \in Int
         /\ Len(b.stamps) \in Nat /\ DOMAIN b.stamps = 1..Len(b.stamps)
         /\ \A i \in 1..Len(b.stamps) : b.stamps[i] \in Int
<1>1. b.stamps \in Seq(Int) /\ b.notBefore \in Int
  BY DEF Budget
<1> QED
  BY <1>1

LEMMA PolicyFields ==
  ASSUME NEW p \in Policy
  PROVE  p.limit \in Nat /\ p.limit >= 1 /\ p.interval \in Nat /\ p.interval >= 1
BY DEF Policy

(* What covers a request goes on doing so, as the clock cannot run ahead. *)
LEMMA CoversLater ==
  ASSUME NEW b \in Budget, NEW p \in Policy, NEW s \in Int, NEW j \in Int,
         NEW now \in Int, NEW c \in Int, NEW later \in Int, NEW d \in Int,
         later >= now, later - now >= d - c, Covers(b, p, s, j, now, c)
  PROVE  Covers(b, p, s, j, later, d)
<1>1. p.interval \in Nat /\ b.notBefore \in Int /\ (j \in DOMAIN b.stamps => b.stamps[j] \in Int)
  BY BudgetFields, PolicyFields
<1> QED
  BY <1>1 DEF Covers

LEMMA CoversAllLater ==
  ASSUME NEW b \in Budget, NEW p \in Policy, NEW q \in Seq(Int), NEW shift \in Nat, NEW left \in Nat,
         NEW now \in Int, NEW c \in Int, NEW later \in Int, NEW d \in Int,
         later >= now, later - now >= d - c, CoversAll(b, p, q, shift, left, now, c)
  PROVE  CoversAll(b, p, q, shift, left, later, d)
<1> SUFFICES ASSUME NEW i \in 1..(Len(q) - left)
             PROVE  Covers(b, p, q[i], Len(b.stamps) - shift - (Len(q) - i), later, d)
  BY DEF CoversAll
<1>1. /\ i \in Int /\ Len(q) \in Nat /\ i \in 1..Len(q) /\ Len(b.stamps) \in Nat
      /\ Len(b.stamps) - shift - (Len(q) - i) \in Int
  BY BudgetFields
<1>2. q[i] \in Int
  BY <1>1
<1>3. Covers(b, p, q[i], Len(b.stamps) - shift - (Len(q) - i), now, c)
  BY DEF CoversAll
<1> QED
  BY <1>1, <1>2, <1>3, CoversLater

(* A timestamp more than there are requests does no harm. *)
LEMMA SpareStamp ==
  ASSUME NEW b \in Budget, NEW p \in Policy, NEW q \in Seq(Int), NEW left \in Nat,
         NEW now \in Int, NEW c \in Int, Ordered(b), CoversAll(b, p, q, 1, left, now, c)
  PROVE  CoversAll(b, p, q, 0, left, now, c)
<1> DEFINE k == Len(b.stamps)
<1> SUFFICES ASSUME NEW i \in 1..(Len(q) - left)
             PROVE  Covers(b, p, q[i], k - 0 - (Len(q) - i), now, c)
  BY DEF CoversAll
<1>1. k \in Nat /\ DOMAIN b.stamps = 1..k /\ \A j \in 1..k : b.stamps[j] \in Int
  BY BudgetFields
<1>2. /\ i \in Int /\ Len(q) \in Nat /\ i \in 1..Len(q)
  OBVIOUS
<1>3. q[i] \in Int
  BY <1>2
<1> DEFINE j == k - 1 - (Len(q) - i)
<1>4. k - 0 - (Len(q) - i) = j + 1
  BY <1>1, <1>2
<1>7. j \in Int /\ j + 1 <= k
  BY <1>1, <1>2
<1>5. Covers(b, p, q[i], j, now, c)
  BY DEF CoversAll
<1> HIDE DEF j, k
<1>6. CASE j \in 1..k /\ b.stamps[j] - c >= q[i] - now
  <2>1. j \in 1..k /\ j + 1 \in 1..k /\ j <= j + 1
    BY <1>1, <1>6, <1>7
  <2>2. b.stamps[j] <= b.stamps[j + 1]
    BY <1>1, <1>6, <2>1 DEF Ordered
  <2>3. b.stamps[j + 1] - c >= q[i] - now
    <3>1. b.stamps[j + 1] \in Int /\ b.stamps[j] \in Int
      BY <1>1, <2>1
    <3>2. b.stamps[j] <= b.stamps[j + 1] /\ b.stamps[j] - c >= q[i] - now
      BY <1>6, <2>2
    <3>3. PICK x \in Int, y \in Int, z \in Int : x = b.stamps[j] /\ y = b.stamps[j + 1] /\ z = q[i]
      BY <1>3, <3>1
    <3>4. x <= y /\ x - c >= z - now
      BY <3>2, <3>3
    <3>5. y - c >= z - now
      BY <3>4
    <3> QED
      BY <3>3, <3>5
  <2> QED
    BY <1>1, <1>4, <2>1, <2>3 DEF Covers
<1> QED
  BY <1>1, <1>4, <1>5, <1>6 DEF Covers

(* Less need be covered. *)
LEMMA LeaveOut ==
  ASSUME NEW b \in Budget, NEW p, NEW q \in Seq(Int), NEW shift, NEW now, NEW c,
         CoversAll(b, p, q, shift, 0, now, c)
  PROVE  CoversAll(b, p, q, shift, 1, now, c)
<1>1. \A i \in 1..(Len(q) - 1) : i \in 1..(Len(q) - 0)
  OBVIOUS
<1> QED
  BY <1>1 DEF CoversAll

(* A cooldown only adds cover, and one long enough covers all. *)
LEMMA DeferredCovers ==
  ASSUME NEW b \in Budget, NEW p \in Policy, NEW q \in Seq(Int), NEW shift \in Nat, NEW left \in Nat,
         NEW now \in Int, NEW c \in Int, NEW till \in Int
  PROVE  /\ Ordered(b) => Ordered(Deferred(b, till))
         /\ CoversAll(b, p, q, shift, left, now, c) =>
               CoversAll(Deferred(b, till), p, q, shift, left, now, c)
         /\ (\A i \in DOMAIN q : till - c >= q[i] + p.interval - now) =>
               CoversAll(Deferred(b, till), p, q, shift, left, now, c)
<1> DEFINE b2 == Deferred(b, till)
<1>1. b2.stamps = b.stamps /\ b2.notBefore >= b.notBefore /\ b2.notBefore >= till /\ b2 \in Budget
  BY DeferredProperties
<1>2. b.notBefore \in Int /\ b2.notBefore \in Int /\ p.interval \in Nat
  BY <1>1, BudgetFields, PolicyFields
<1> HIDE DEF b2
<1>3. Ordered(b) => Ordered(b2)
  BY <1>1 DEF Ordered
<1>4. \A i \in 1..(Len(q) - left) : i \in DOMAIN q /\ q[i] \in Int
  OBVIOUS
<1>5. ASSUME CoversAll(b, p, q, shift, left, now, c)
      PROVE  CoversAll(b2, p, q, shift, left, now, c)
  <2> SUFFICES ASSUME NEW i \in 1..(Len(q) - left)
               PROVE  Covers(b2, p, q[i], Len(b.stamps) - shift - (Len(q) - i), now, c)
    BY <1>1 DEF CoversAll
  <2>1. Covers(b, p, q[i], Len(b.stamps) - shift - (Len(q) - i), now, c)
    BY <1>5 DEF CoversAll
  <2>2. q[i] \in Int
    BY <1>4
  <2>3. b.notBefore - c >= q[i] + p.interval - now => b2.notBefore - c >= q[i] + p.interval - now
    <3> DEFINE m == q[i] + p.interval - now
    <3>1. m \in Int
      BY <1>2, <2>2
    <3>2. /\ b2.notBefore >= b.notBefore /\ b.notBefore \in Int /\ b2.notBefore \in Int
          /\ c \in Int
      BY <1>1, <1>2
    <3> HIDE DEF m
    <3>3. b.notBefore - c >= m => b2.notBefore - c >= m
      BY ONLY <3>1, <3>2
    <3> QED
      BY <3>3 DEF m
  <2> QED
    BY <1>1, <2>1, <2>3 DEF Covers
<1>6. ASSUME \A i \in DOMAIN q : till - c >= q[i] + p.interval - now
      PROVE  CoversAll(b2, p, q, shift, left, now, c)
  <2> SUFFICES ASSUME NEW i \in 1..(Len(q) - left)
               PROVE  b2.notBefore - c >= q[i] + p.interval - now
    BY DEF CoversAll, Covers
  <2> DEFINE m == q[i] + p.interval - now
  <2>1. q[i] \in Int /\ i \in DOMAIN q
    BY <1>4
  <2>2. m \in Int /\ till - c >= m
    BY <1>2, <1>6, <2>1
  <2>3. b2.notBefore >= till /\ b2.notBefore \in Int /\ till \in Int /\ c \in Int
    BY <1>1, <1>2
  <2> HIDE DEF m
  <2>4. b2.notBefore - c >= m
    BY ONLY <2>2, <2>3
  <2> QED
    BY <2>4 DEF m
<1> QED
  BY <1>3, <1>5, <1>6 DEF b2

(* What a reservation forgets has left the interval. *)
LEMMA ForgottenIsOld ==
  ASSUME NEW b \in Budget, NEW p \in Policy, NEW now \in Int, Ordered(b)
  PROVE  \E k \in 0..Len(b.stamps) :
            /\ Retained(b, p, now) \in Seq(Int)
            /\ Len(Retained(b, p, now)) = Len(b.stamps) - k
            /\ \A i \in 1..(Len(b.stamps) - k) : Retained(b, p, now)[i] = b.stamps[k + i]
            /\ \A i \in 1..k : b.stamps[i] <= now - p.interval
<1> DEFINE n == Len(b.stamps)
           gone == Expired(b, p, now)
           k == Cardinality(gone)
<1>1. /\ n \in Nat /\ DOMAIN b.stamps = 1..n /\ b.stamps \in Seq(Int)
      /\ \A i \in 1..n : b.stamps[i] \in Int
  BY BudgetFields
<1>2. gone = {i \in 1..n : b.stamps[i] <= now - p.interval}
  BY <1>1 DEF Expired
<1>3. p.interval \in Nat
  BY PolicyFields
<1> HIDE DEF gone, n
<1>4. \A m \in 0..n : IsFiniteSet(1..m) /\ Cardinality(1..m) = m
  <2> TAKE m \in 0..n
  <2>1. m \in Int /\ m >= 0
    BY <1>1
  <2> QED
    BY <2>1, FS_Interval
<1>5. ASSUME NEW m \in 0..n, gone \subseteq 1..m
      PROVE  k \in Nat /\ k <= m
  <2>1. IsFiniteSet(gone) /\ Cardinality(gone) <= Cardinality(1..m)
    BY <1>4, <1>5, FS_Subset
  <2>2. k \in Nat
    BY <2>1, FS_CardinalityType
  <2> QED
    BY <1>4, <2>1, <2>2
<1>6. k \in 0..n
  <2>1. n \in 0..n /\ gone \subseteq 1..n
    BY <1>1, <1>2
  <2> QED
    BY <1>5, <2>1
<1>7. ASSUME NEW i \in 1..k PROVE b.stamps[i] <= now - p.interval
  <2>1. i \in 1..n /\ i \in Int /\ i <= k /\ i - 1 \in 0..n
    BY <1>1, <1>6
  <2> SUFFICES ASSUME ~ (b.stamps[i] <= now - p.interval) PROVE FALSE
    OBVIOUS
  <2>2. gone \subseteq 1..(i - 1)
    <3> SUFFICES ASSUME NEW j \in gone PROVE j \in 1..(i - 1)
      OBVIOUS
    <3>1. j \in 1..n /\ b.stamps[j] <= now - p.interval
      BY <1>2
    <3>2. ~ (i <= j)
      <4> SUFFICES ASSUME i <= j PROVE FALSE
        OBVIOUS
      <4>1. b.stamps[i] <= b.stamps[j]
        BY <1>1, <2>1, <3>1 DEF Ordered
      <4>2. b.stamps[i] \in Int /\ b.stamps[j] \in Int
        BY <1>1, <2>1, <3>1
      <4> QED
        BY <1>3, <3>1, <4>1, <4>2
    <3> QED
      BY <2>1, <3>1, <3>2
  <2>3. k <= i - 1
    BY <1>5, <2>1, <2>2
  <2> QED
    BY <1>6, <2>1, <2>3
<1>8. /\ Retained(b, p, now) \in Seq(Int) /\ Len(Retained(b, p, now)) = n - k
      /\ \A i \in 1..(n - k) : Retained(b, p, now)[i] = b.stamps[k + i]
  BY <1>1, <1>6, EndOfSequence DEF Retained, gone, n
<1> HIDE DEF k
<1> QED
  BY <1>6, <1>7, <1>8 DEF n

(* A full budget lets nothing pass before its oldest slot is free. *)
LEMMA DelayRespectsSlots ==
  ASSUME NEW b \in Budget, NEW p \in Policy, NEW now \in Int, Delay(b, p, now) = 0
  PROVE  /\ b.notBefore <= now
         /\ \/ Len(Retained(b, p, now)) < p.limit
            \/ Retained(b, p, now)[Len(Retained(b, p, now)) - p.limit + 1] + p.interval <= now
<1> DEFINE kept == Retained(b, p, now)
<1>1. kept \in Seq(Int)
  BY RetainedIsEnd
<1>2. p.limit \in Nat /\ p.limit >= 1 /\ p.interval \in Nat /\ b.notBefore \in Int
  BY PolicyFields, BudgetFields
<1>3. CASE Len(kept) < p.limit
  BY <1>3, DelayRespectsCooldown
<1>4. CASE ~ (Len(kept) < p.limit)
  <2> DEFINE oldest == kept[Len(kept) - p.limit + 1]
  <2>1. Len(kept) - p.limit + 1 \in 1..Len(kept)
    BY <1>1, <1>2, <1>4
  <2>2. oldest \in Int
    BY <1>1, <2>1
  <2>3. SlotDelay(b, p, now) = oldest + p.interval - now
    BY <1>4 DEF SlotDelay
  <2> HIDE DEF oldest
  <2>4. oldest + p.interval - now <= 0
    BY <1>2, <2>2, <2>3 DEF Delay, Larger
  <2>5. oldest + p.interval <= now
    BY <1>2, <2>2, <2>4
  <2> QED
    BY <2>5, DelayRespectsCooldown DEF oldest
<1> QED
  BY <1>3, <1>4

(* A reservation made when no delay is left: the requests before the last    *)
(* limit - 1 are old, and each of the others has its timestamp as before,    *)
(* one place further from the end.  `then` is the time the clock showed when *)
(* the delay was computed, `c` what it shows now.                            *)
LEMMA ReservedCovers ==
  ASSUME NEW b \in Budget, NEW p \in Policy, NEW q \in Seq(Int), NEW now \in Int,
         NEW then \in Int, NEW c \in Int,
         Ordered(b), ~ ClockWentBack(b, p, then), Delay(b, p, then) = 0,
         CoversAll(b, p, q, 0, 0, now, then), CoversAll(b, p, q, 0, 0, now, c)
  PROVE  /\ Ordered(Reserved(b, p, then))
         /\ Free(p, q, now)
         /\ CoversAll(Reserved(b, p, then), p, q, 1, 0, now, c)
<1> DEFINE s == b.stamps
           n == Len(s)
           kept == Retained(b, p, then)
           b2 == Reserved(b, p, then)
<1>1. PICK k \in 0..n :
        /\ kept \in Seq(Int) /\ Len(kept) = n - k
        /\ \A i \in 1..(n - k) : kept[i] = s[k + i]
        /\ \A i \in 1..k : s[i] <= then - p.interval
  BY ForgottenIsOld
<1> DEFINE limit == p.limit
           interval == p.interval
           notBefore == b.notBefore
<1>2. /\ n \in Nat /\ notBefore \in Int
      /\ limit \in Nat /\ limit >= 1 /\ interval \in Nat
      /\ k \in Nat /\ k <= n
  BY <1>1, BudgetFields, PolicyFields
<1>11. DOMAIN s = 1..n /\ \A i \in 1..n : s[i] \in Int
  BY BudgetFields
<1>12. \A i \in 1..k : s[i] <= then - interval
  BY <1>1
<1>3. /\ b2 \in Budget /\ b2.notBefore = b.notBefore /\ b2.stamps = Append(kept, then)
      /\ Len(b2.stamps) = n - k + 1 /\ DOMAIN b2.stamps = 1..(n - k + 1)
      /\ \A i \in 1..(n - k) : b2.stamps[i] = s[k + i]
      /\ b2.stamps[n - k + 1] = then
  <2>1. b2 \in Budget /\ b2.notBefore = b.notBefore
    BY ReservedProperties
  <2>2. b2.stamps = Append(kept, then)
    BY DEF Reserved, Budget
  <2>3. /\ Len(b2.stamps) = Len(kept) + 1
        /\ \A i \in 1..Len(kept) : b2.stamps[i] = kept[i]
        /\ b2.stamps[Len(kept) + 1] = then
    <3>1. kept \in Seq(Int)
      BY <1>1
    <3> HIDE DEF kept, b2
    <3> QED
      BY <2>2, <3>1, OneMore
  <2>4. DOMAIN b2.stamps = 1..Len(b2.stamps)
    BY <2>1, BudgetFields
  <2> QED
    BY <1>1, <2>1, <2>2, <2>3, <2>4
<1>4. notBefore <= then /\ (n - k < limit \/ kept[n - k - limit + 1] + interval <= then)
  BY <1>1, DelayRespectsSlots
<1>13. \A x, j, d : Covers(b, p, x, j, now, d) =
          (x + interval <= now \/ notBefore - d >= x + interval - now
           \/ (j \in DOMAIN s /\ s[j] - d >= x - now))
  BY DEF Covers
<1>14. \A x, j, d : Covers(b2, p, x, j, now, d) =
          (x + interval <= now \/ notBefore - d >= x + interval - now
           \/ (j \in DOMAIN b2.stamps /\ b2.stamps[j] - d >= x - now))
  BY <1>3 DEF Covers
<1> HIDE DEF s, n, kept, b2, limit, interval, notBefore
<1>5. \A i \in 1..Len(q) : i \in Int /\ q[i] \in Int
  OBVIOUS
<1>6. Len(q) \in Nat
  OBVIOUS
\* A request whose timestamp is forgotten, or that a cooldown covered, is old.
<1>7. ASSUME NEW i \in 1..Len(q), n - (Len(q) - i) \in 1..n => s[n - (Len(q) - i)] <= then - interval
      PROVE  q[i] + interval <= now
  <2>1. Covers(b, p, q[i], n - 0 - (Len(q) - i), now, then)
    <3>1. i \in 1..(Len(q) - 0)
      BY <1>6
    <3> QED
      BY <3>1 DEF CoversAll, n, s
  <2>2. n - 0 - (Len(q) - i) = n - (Len(q) - i)
    BY <1>2, <1>5, <1>6
  <2>3. q[i] \in Int
    BY <1>5
  <2>4. CASE notBefore - then >= q[i] + interval - now
    BY <1>2, <1>4, <2>3, <2>4
  <2>5. CASE n - (Len(q) - i) \in 1..n /\ s[n - (Len(q) - i)] - then >= q[i] - now
    <3> DEFINE x == s[n - (Len(q) - i)]
               y == q[i]
    <3>1. x \in Int /\ y \in Int
      BY <1>11, <2>3, <2>5
    <3>2. x <= then - interval /\ x - then >= y - now
      BY <1>7, <2>5
    <3>3. then \in Int /\ interval \in Int /\ now \in Int
      BY <1>2
    <3> HIDE DEF x, y
    <3>4. y + interval <= now
      BY ONLY <3>1, <3>2, <3>3
    <3> QED
      BY <3>4 DEF y
  <2> QED
    BY <1>11, <1>13, <2>1, <2>2, <2>4, <2>5
<1>8. Free(p, q, now)
  <2> SUFFICES ASSUME NEW i \in 1..(Len(q) - limit + 1) PROVE q[i] + interval <= now
    BY DEF Free, interval, limit
  <2>1. i \in 1..Len(q) /\ i \in Int /\ i <= Len(q) - limit + 1
    BY <1>2, <1>6
  <2> DEFINE j == n - (Len(q) - i)
  <2>2. j \in Int /\ j <= n - limit + 1
    BY <1>2, <1>6, <2>1
  <2> HIDE DEF j
  <2>3. ASSUME j \in 1..n PROVE s[j] <= then - interval
    <3>1. CASE j <= k
      <4>1. j \in 1..k
        BY <2>3, <3>1, <1>2
      <4> QED
        BY <1>12, <4>1
    <3>2. CASE j > k
      <4> DEFINE m == n - k - limit + 1
      <4>1. m \in 1..(n - k) /\ ~ (n - k < limit) /\ k + m = n - limit + 1
        BY <1>2, <2>2, <2>3, <3>2
      <4>2. kept[m] + interval <= then /\ kept[m] = s[k + m]
        BY <1>1, <1>4, <4>1
      <4>3. j <= k + m /\ k + m \in 1..n
        BY <1>2, <2>2, <4>1
      <4>4. s[j] <= s[k + m]
        BY <1>11, <2>3, <4>3 DEF Ordered, s
      <4>5. s[j] \in Int /\ s[k + m] \in Int
        BY <1>11, <2>3, <4>3
      <4> HIDE DEF m
      <4> QED
        BY <1>2, <4>2, <4>4, <4>5
    <3> QED
      BY <1>2, <2>2, <3>1, <3>2
  <2> QED
    BY <1>7, <2>1, <2>3 DEF j
<1>9. CoversAll(b2, p, q, 1, 0, now, c)
  <2> SUFFICES ASSUME NEW i \in 1..(Len(q) - 0)
               PROVE  Covers(b2, p, q[i], Len(b2.stamps) - 1 - (Len(q) - i), now, c)
    BY DEF CoversAll
  <2>1. i \in 1..Len(q) /\ i \in Int /\ q[i] \in Int
    BY <1>5, <1>6
  <2> DEFINE j == n - (Len(q) - i)
             m == j - k
  <2>2. j \in Int /\ n - 0 - (Len(q) - i) = j
    BY <1>2, <1>6, <2>1
  <2>3. Len(b2.stamps) - 1 - (Len(q) - i) = m /\ m \in Int
    BY <1>2, <1>3, <1>6, <2>1
  <2>4. Covers(b, p, q[i], j, now, c)
    BY <2>2 DEF CoversAll, n, s
  <2>5. CASE j \in 1..n => s[j] <= then - interval
    BY <1>7, <1>14, <2>1, <2>5
  <2>6. CASE ~ (j \in 1..n => s[j] <= then - interval)
    <3>1. j \in 1..n /\ ~ (j \in 1..k)
      BY <1>12, <2>6
    <3>2. m \in 1..(n - k) /\ k + m = j
      BY <1>2, <2>2, <3>1
    <3> HIDE DEF m, j
    <3>3. b2.stamps[m] = s[j]
      BY <1>3, <3>2
    <3>4. m \in 1..(n - k + 1)
      BY <1>2, <3>2
    <3>5. m \in DOMAIN b2.stamps
      BY <1>3, <3>4
    <3>6. Covers(b2, p, q[i], m, now, c)
      BY <1>13, <1>14, <2>4, <3>3, <3>5
    <3> QED
      BY <2>3, <3>6
  <2> QED
    BY <2>5, <2>6
<1>10. Ordered(b2)
  <2> SUFFICES ASSUME NEW i \in 1..(n - k + 1), NEW j \in 1..(n - k + 1), i <= j
               PROVE  b2.stamps[i] <= b2.stamps[j]
    BY <1>3 DEF Ordered
  <2>1. n - k \in Nat
    BY <1>2
  <2>2. \A m \in 1..(n - k) : k + m \in 1..n /\ m \in Int
    BY <1>2
  <2>3. CASE j \in 1..(n - k)
    <3>1. i \in 1..(n - k) /\ k + i <= k + j
      BY <1>2, <2>1, <2>3
    <3>2. s[k + i] <= s[k + j]
      BY <1>11, <2>2, <2>3, <3>1 DEF Ordered, s
    <3> QED
      BY <1>3, <2>3, <3>1, <3>2
  <2>4. CASE j = n - k + 1 /\ i \in 1..(n - k)
    <3>1. kept # <<>> /\ kept[Len(kept)] = s[n] /\ n \in 1..n
      <4>1. n - k \in 1..(n - k) /\ k + (n - k) = n /\ n \in 1..n
        BY <1>2, <2>4
      <4>2. kept # <<>>
        BY <1>1, <4>1
      <4> QED
        BY <1>1, <4>1, <4>2
    <3>2. ~ (kept[Len(kept)] > then)
      BY <3>1 DEF ClockWentBack, kept
    <3>3. k + i \in 1..n /\ k + i <= n
      BY <2>2, <2>4
    <3>4. s[k + i] <= s[n]
      BY <1>11, <3>1, <3>3 DEF Ordered, s
    <3>5. s[k + i] \in Int /\ s[n] \in Int
      BY <1>11, <3>1, <3>3
    <3>6. s[k + i] <= then
      BY <3>1, <3>2, <3>4, <3>5
    <3> QED
      BY <1>3, <2>4, <3>6
  <2>5. CASE j = n - k + 1 /\ i = n - k + 1
    BY <1>3, <2>5
  <2> QED
    BY <2>1, <2>3, <2>4, <2>5
<1> QED
  BY <1>8, <1>9, <1>10 DEF b2

(* A request sent when one is free keeps the spacing; the reservation made  *)
(* for it is its timestamp, but for the time between the two.               *)
LEMMA SentCovers ==
  ASSUME NEW b \in Budget, NEW p \in Policy, NEW q \in Seq(Int), NEW now \in Int, NEW c \in Int,
         Past(q, now), Spaced(p, q)
  PROVE  /\ Append(q, now) \in Seq(Int) /\ Past(Append(q, now), now)
         /\ Free(p, q, now) => Spaced(p, Append(q, now))
         /\ CoversAll(b, p, q, 1, 0, now, c) => CoversAll(b, p, Append(q, now), 0, 1, now, c)
<1> DEFINE q2 == Append(q, now)
           limit == p.limit
           interval == p.interval
<1>1. /\ q2 \in Seq(Int) /\ Len(q2) = Len(q) + 1 /\ Len(q) \in Nat /\ DOMAIN q2 = 1..(Len(q) + 1)
      /\ \A i \in 1..Len(q) : q2[i] = q[i]
      /\ q2[Len(q) + 1] = now
  BY OneMore
<1>2. limit \in Nat /\ limit >= 1 /\ interval \in Nat
  BY PolicyFields
<1>3. \A i \in 1..Len(q) : q[i] \in Int /\ i \in Int
  OBVIOUS
<1> HIDE DEF q2, limit, interval
<1>4. Past(q2, now)
  <2> SUFFICES ASSUME NEW i \in 1..(Len(q) + 1) PROVE q2[i] <= now
    BY <1>1 DEF Past
  <2>1. CASE i \in 1..Len(q)
    <3>1. DOMAIN q = 1..Len(q)
      OBVIOUS
    <3> QED
      BY <1>1, <2>1, <3>1 DEF Past
  <2>2. CASE i = Len(q) + 1
    BY <1>1, <2>2
  <2> QED
    BY <1>1, <2>1, <2>2
<1>5. ASSUME Free(p, q, now) PROVE Spaced(p, q2)
  <2> SUFFICES ASSUME NEW i \in 1..(Len(q) + 1 - limit)
               PROVE  q2[i + limit] - q2[i] >= interval
    <3>1. Len(q2) - limit = Len(q) + 1 - limit
      <4>1. Len(q2) = Len(q) + 1 /\ limit \in Nat /\ Len(q) \in Nat
        BY <1>1, <1>2
      <4> QED
        BY ONLY <4>1
    <3> QED
      BY <3>1 DEF Spaced, limit, interval
  <2>1. i \in 1..Len(q) /\ i \in Int
    BY <1>1, <1>2
  <2>2. q2[i] = q[i] /\ q[i] \in Int
    BY <1>1, <1>3, <2>1
  <2>3. CASE i = Len(q) + 1 - limit
    <3>1. i + limit = Len(q) + 1
      BY <1>1, <1>2, <2>3
    <3>2. q2[i + limit] = now
      BY <1>1, <3>1
    <3>3. i \in 1..(Len(q) - limit + 1)
      BY <1>1, <1>2, <2>3
    <3>4. q[i] + interval <= now
      BY <1>5, <3>3 DEF Free, limit, interval
    <3> QED
      BY <1>2, <2>2, <3>2, <3>4
  <2>4. CASE i # Len(q) + 1 - limit
    <3>1. i \in 1..(Len(q) - limit) /\ i + limit \in 1..Len(q)
      BY <1>1, <1>2, <2>4
    <3>2. q[i + limit] - q[i] >= interval
      BY <3>1 DEF Spaced, limit, interval
    <3>3. q2[i + limit] = q[i + limit]
      BY <1>1, <3>1
    <3> QED
      BY <2>2, <3>2, <3>3
  <2> QED
    BY <2>3, <2>4
<1>6. ASSUME CoversAll(b, p, q, 1, 0, now, c)
      PROVE  CoversAll(b, p, q2, 0, 1, now, c)
  <2> SUFFICES ASSUME NEW i \in 1..Len(q)
               PROVE  Covers(b, p, q2[i], Len(b.stamps) - 0 - (Len(q2) - i), now, c)
    <3>1. Len(q2) - 1 = Len(q)
      BY <1>1
    <3> QED
      BY <3>1 DEF CoversAll
  <2>1. Len(b.stamps) - 0 - (Len(q2) - i) = Len(b.stamps) - 1 - (Len(q) - i)
    <3>1. Len(b.stamps) \in Nat
      BY BudgetFields
    <3> QED
      BY <1>1, <1>3, <3>1
  <2>2. Covers(b, p, q[i], Len(b.stamps) - 1 - (Len(q) - i), now, c)
    <3>1. i \in 1..(Len(q) - 0)
      BY <1>1
    <3> QED
      BY <1>6, <3>1 DEF CoversAll
  <2> QED
    BY <1>1, <2>1, <2>2
<1> QED
  BY <1>1, <1>4, <1>5, <1>6 DEF q2

(* A budget with its youngest timestamp moved on. *)
LEMMA MovedFields ==
  ASSUME NEW b \in Budget, NEW then \in Int
  PROVE  /\ [b EXCEPT !.stamps[Len(b.stamps)] = then] \in Budget
         /\ [b EXCEPT !.stamps[Len(b.stamps)] = then].notBefore = b.notBefore
         /\ Len([b EXCEPT !.stamps[Len(b.stamps)] = then].stamps) = Len(b.stamps)
         /\ \A i \in 1..Len(b.stamps) : [b EXCEPT !.stamps[Len(b.stamps)] = then].stamps[i] =
               IF i = Len(b.stamps) THEN then ELSE b.stamps[i]
<1> DEFINE s == b.stamps
           t == [s EXCEPT ![Len(s)] = then]
<1>1. b = [stamps |-> s, notBefore |-> b.notBefore]
  BY DEF Budget
<1>2. [b EXCEPT !.stamps[Len(b.stamps)] = then] = [stamps |-> t, notBefore |-> b.notBefore]
  BY <1>1
<1>3. s \in Seq(Int) /\ b.notBefore \in Int /\ Len(s) \in Nat /\ DOMAIN s = 1..Len(s)
      /\ \A i \in 1..Len(s) : s[i] \in Int
  BY BudgetFields
<1>4. /\ t \in Seq(Int) /\ Len(t) = Len(s)
      /\ \A i \in 1..Len(s) : t[i] = IF i = Len(s) THEN then ELSE s[i]
  <2>1. t \in [1..Len(s) -> Int] /\ DOMAIN t = 1..Len(s)
    BY <1>3
  <2>2. t \in Seq(Int)
    BY <1>3, <2>1, SeqDef
  <2>3. Len(t) = Len(s)
    BY <1>3, <2>1, <2>2, LenProperties
  <2> QED
    BY <1>3, <2>2, <2>3
<1> QED
  BY <1>2, <1>3, <1>4 DEF Budget

(* Anchoring: the reservation becomes the time of the send. *)
LEMMA AnchoredCovers ==
  ASSUME NEW b \in Budget, NEW p \in Policy, NEW q \in Seq(Int), NEW now \in Int,
         NEW then \in Int, NEW c \in Int, NEW b2 \in Budget,
         Ordered(b), b.stamps # <<>>, b.stamps[Len(b.stamps)] <= then,
         b2 = [b EXCEPT !.stamps[Len(b.stamps)] = then],
         q # <<>>, then - c >= q[Len(q)] - now,
         CoversAll(b, p, q, 0, 1, now, c)
  PROVE  Ordered(b2) /\ CoversAll(b2, p, q, 0, 0, now, c)
<1> DEFINE n == Len(b.stamps)
<1>1. /\ n \in Nat /\ DOMAIN b.stamps = 1..n /\ DOMAIN b2.stamps = 1..n /\ Len(b2.stamps) = n
      /\ b2.notBefore = b.notBefore /\ n >= 1 /\ n \in 1..n
  BY MovedFields, BudgetFields
<1>2. /\ \A i \in 1..n : b.stamps[i] \in Int /\ i \in Int
      /\ \A i \in 1..n : b2.stamps[i] = IF i = n THEN then ELSE b.stamps[i]
  BY MovedFields, BudgetFields
<1>3. Len(q) \in Nat /\ Len(q) >= 1
  OBVIOUS
<1>4. \A i \in 1..Len(q) : i \in Int /\ q[i] \in Int
  OBVIOUS
<1> HIDE DEF n
<1>5. Ordered(b2)
  <2> SUFFICES ASSUME NEW i \in 1..n, NEW j \in 1..n, i <= j PROVE b2.stamps[i] <= b2.stamps[j]
    BY <1>1 DEF Ordered
  <2>1. b.stamps[i] <= b.stamps[j] /\ b.stamps[i] <= b.stamps[n]
    BY <1>1, <1>2 DEF Ordered
  <2>2. b.stamps[i] <= then
    <3> DEFINE x == b.stamps[i]
               y == b.stamps[n]
    <3>1. y <= then /\ y \in Int /\ x \in Int /\ x <= y /\ then \in Int
      BY <1>1, <1>2, <2>1 DEF n
    <3> HIDE DEF x, y
    <3>2. x <= then
      BY ONLY <3>1
    <3> QED
      BY <3>2 DEF x
  <2>3. CASE j = n
    <3>1. b2.stamps[j] = then /\ (b2.stamps[i] = then \/ b2.stamps[i] = b.stamps[i])
      BY <1>2, <2>3
    <3>2. then <= then
      OBVIOUS
    <3> QED
      BY <2>2, <3>1, <3>2
  <2>4. CASE j # n
    <3>1. i # n
      BY <1>1, <1>2, <2>4
    <3> QED
      BY <1>2, <2>1, <2>4, <3>1
  <2> QED
    BY <2>3, <2>4
<1>6. CoversAll(b2, p, q, 0, 0, now, c)
  <2> SUFFICES ASSUME NEW i \in 1..(Len(q) - 0)
               PROVE  Covers(b2, p, q[i], Len(b2.stamps) - 0 - (Len(q) - i), now, c)
    BY DEF CoversAll
  <2> DEFINE j == n - 0 - (Len(q) - i)
  <2>1. i \in 1..Len(q) /\ i \in Int /\ q[i] \in Int
    BY <1>3, <1>4
  <2>2. CASE i = Len(q)
    <3>1. j = n
      BY <1>1, <1>3, <2>2
    <3>2. b2.stamps[n] - c >= q[i] - now
      BY <1>1, <1>2, <2>2
    <3> HIDE DEF j
    <3>3. Covers(b2, p, q[i], j, now, c)
      BY <1>1, <3>1, <3>2 DEF Covers
    <3> QED
      BY <1>1, <3>3 DEF j
  <2>3. CASE i # Len(q)
    <3>1. i \in 1..(Len(q) - 1) /\ j \in Int /\ j # n
      <4>1. i \in 1..Len(q) /\ i # Len(q) /\ Len(q) \in Nat /\ n \in Nat
        BY <1>1, <1>3, <2>1, <2>3
      <4>2. i \in 1..(Len(q) - 1)
        BY ONLY <4>1
      <4>3. n - 0 - (Len(q) - i) \in Int /\ n - 0 - (Len(q) - i) # n
        BY ONLY <4>1
      <4> QED
        BY <4>2, <4>3
    <3>2. Covers(b, p, q[i], j, now, c)
      BY <3>1 DEF CoversAll, n
    <3> HIDE DEF j
    <3>3. j \in 1..n => b2.stamps[j] = b.stamps[j]
      BY <1>2, <3>1
    <3>4. Covers(b2, p, q[i], j, now, c)
      BY <1>1, <3>2, <3>3 DEF Covers
    <3> QED
      BY <1>1, <3>4 DEF j
  <2> QED
    BY <2>2, <2>3
<1> QED
  BY <1>5, <1>6

(* Less to cover, or a timestamp to spare. *)
LEMMA WeakerCover ==
  ASSUME NEW b \in Budget, NEW p \in Policy, NEW q \in Seq(Int), NEW now \in Int, NEW c \in Int,
         NEW shift \in {0, 1}, NEW left \in {0, 1}, NEW shift2 \in {0, 1}, NEW left2 \in {0, 1},
         shift2 <= shift, left2 >= left, Ordered(b), CoversAll(b, p, q, shift, left, now, c)
  PROVE  CoversAll(b, p, q, shift2, left2, now, c)
<1>1. CoversAll(b, p, q, shift2, left, now, c)
  BY SpareStamp
<1>2. CASE left2 = left
  BY <1>1, <1>2
<1>3. CASE left = 0 /\ left2 = 1
  BY <1>1, <1>3, LeaveOut
<1> QED
  BY <1>2, <1>3

(* One more request, made now. *)
LEMMA PastMore ==
  ASSUME NEW q \in Seq(Int), NEW now \in Int, Past(q, now)
  PROVE  /\ Append(q, now) \in Seq(Int) /\ Past(Append(q, now), now)
         /\ DOMAIN Append(q, now) = 1..(Len(q) + 1) /\ DOMAIN q = 1..Len(q) /\ Len(q) \in Nat
         /\ \A i \in 1..Len(q) : Append(q, now)[i] = q[i]
         /\ Append(q, now)[Len(q) + 1] = now
<1> DEFINE q2 == Append(q, now)
<1>1. /\ q2 \in Seq(Int) /\ DOMAIN q2 = 1..(Len(q) + 1) /\ DOMAIN q = 1..Len(q) /\ Len(q) \in Nat
      /\ \A i \in 1..Len(q) : q2[i] = q[i]
      /\ q2[Len(q) + 1] = now
  BY OneMore
<1> HIDE DEF q2
<1>2. \A i \in 1..(Len(q) + 1) : i \in 1..Len(q) \/ i = Len(q) + 1
  BY <1>1
<1>3. Past(q2, now)
  BY <1>1, <1>2 DEF Past
<1> QED
  BY <1>1, <1>3 DEF q2

(* The clock gains nothing on real time. *)
LEMMA ClockNeverAhead ==
  ASSUME NEW a \in Int, NEW b \in Int, NEW r \in Int, NEW w \in Int, NEW r2 \in Int, NEW w2 \in Int,
         r2 - r >= w2 - w, a - w >= b - r
  PROVE  a - w2 >= b - r2
OBVIOUS

LEMMA SomeTimePassed ==
  ASSUME NEW a \in Int, NEW b \in Int, NEW c \in Int, a >= b
  PROVE  a - b >= c - c
OBVIOUS

-----------------------------------------------------------------------------
(* OpenF1Client. *)

Place == {"idle", "recover", "deferMinute", "deferSpacing", "forget", "ready", "probe", "pause",
          "reserveMinute", "reserveSpacing", "begin", "send", "answer", "coolMinute",
          "coolSpacing", "retry", "backoff", "anchorMinute", "anchorSpacing", "clear"}
Leaving == {"reserveMinute", "reserveSpacing", "begin", "send"}
Sent == {"send", "answer", "coolMinute", "coolSpacing", "retry", "backoff",
         "anchorMinute", "anchorSpacing", "clear"}
Unsent == {"probe", "pause", "reserveMinute", "reserveSpacing", "begin"}
Anchoring == {"anchorMinute", "anchorSpacing", "clear"}
Retrying == {"answer", "coolMinute", "coolSpacing", "retry", "backoff"}

TypeInv ==
    /\ real \in Int /\ wall \in Int /\ quiet \in Int /\ until \in Int
    /\ reservedAt \in Int /\ sentAt \in Int
    /\ minute \in Budget /\ spacing \in Budget
    /\ pc \in Place /\ next \in {"ready", "probe"}
    /\ owner \in Client \cup {NoOne}
    /\ last \in [Client -> Int]
    /\ latch \in [Client -> {"none", "failed", "denied"}]

(* A client at work owns the data root, and is not latched before the       *)
(* answer has come. *)
OwnerInv ==
    /\ pc # "idle" => owner \in Client
    /\ pc = "idle" => owner = NoOne
    /\ pc \in {"recover", "deferMinute", "deferSpacing", "forget"} => latch[owner] = "none"
    /\ pc \in Unsent \cup Retrying \cup {"send"} => latch[owner] = "none"
    /\ next = "probe" => pc \in Anchoring /\ latch[owner] = "none"

(* No intent is left while another request is prepared. *)
PendingInv ==
    /\ pc \in Unsent => pending = {}
    /\ pc = "ready" /\ latch[owner] = "none" => pending = {}
    /\ pc \in Sent => pending = {reservedAt}
    /\ pending \subseteq Int

HasAtOrAfter(b, r) == \E i \in DOMAIN b.stamps : b.stamps[i] >= r

(* The two reservations, until the intent rests on them. *)
ReservedInv ==
    /\ \A r \in pending : HasAtOrAfter(minute, r) /\ HasAtOrAfter(spacing, r)
    /\ pc \in {"reserveSpacing", "begin"} => HasAtOrAfter(minute, reservedAt)
    /\ pc = "begin" => HasAtOrAfter(spacing, reservedAt)
    /\ InOrder(minute) /\ InOrder(spacing)
    /\ pc = "reserveMinute" => ~ ClockWentBack(minute, MinutePolicy, reservedAt)
    /\ pc \in {"reserveMinute", "reserveSpacing"} =>
         ~ ClockWentBack(spacing, SpacingPolicy, reservedAt)

(* What is quiet on the real clock is in a cooldown on the wall clock. *)
QuietInv ==
    /\ quiet - real <= minute.notBefore - wall
    /\ pc \in Leaving => real >= quiet

Inv == TypeInv /\ OwnerInv /\ PendingInv /\ ReservedInv /\ QuietInv

-----------------------------------------------------------------------------
(* Who owns the data root, and whether it may go on. *)
LEMMA NextOwner ==
  ASSUME TypeInv, OwnerInv, [Next]_vars
  PROVE  OwnerInv'
<1> USE ClientAssumption DEF TypeInv, OwnerInv, Place, Unsent, Retrying, Anchoring
<1>1. ASSUME NEW c \in Client, Construct(c) \/ Enter(c)
      PROVE  OwnerInv'
  BY <1>1 DEF Construct, Enter, Abort, Forget, Latch, time, durable, try, history
<1>2. CASE Recover
  BY <1>2 DEF Recover, Abort, Forget, Latch, time, durable, try, history
<1>3. CASE RecoverFails \/ ForgetPending \/ Exit
  BY <1>3 DEF RecoverFails, ForgetPending, Exit, Abort, Forget, Latch, time, durable, try, history
<1>4. CASE DeferMinute \/ DeferSpacing
  BY <1>4 DEF DeferMinute, DeferSpacing, Abort, Forget, Latch, time, durable, try, history
<1>5. CASE Fetch \/ Wait \/ Wake \/ GiveUp
  BY <1>5 DEF Fetch, Wait, Wake, GiveUp, Sleep, Abort, Forget, Latch, time, durable, try, history
<1>6. CASE Allowed
  BY <1>6 DEF Allowed, Abort, Forget, Latch, time, durable, try, history
<1>7. CASE ReserveMinute \/ ReserveSpacing
  BY <1>7 DEF ReserveMinute, ReserveSpacing, Abort, Forget, Latch, time, durable, try, history
<1>8. CASE Begin \/ OwnedWriteFails \/ Send
  BY <1>8 DEF Begin, OwnedWriteFails, Send, Abort, Forget, Latch, time, durable, try, history
<1>9. ASSUME NEW reason \in {"denied", "failed"}, Answered \/ Refused(reason)
      PROVE  OwnerInv'
  BY <1>9 DEF Answered, Refused, Finish, Abort, Forget, Latch, time, durable, try, history
<1>10. ASSUME NEW delay \in RetryAfter, RateLimited(delay)
      PROVE  OwnerInv'
  BY <1>10 DEF RateLimited, Abort, Forget, Latch, time, durable, try, history
<1>11. CASE CoolMinute \/ CoolSpacing
  BY <1>11 DEF CoolMinute, CoolSpacing, Abort, Forget, Latch, time, durable, try, history
<1>12. CASE BackOff \/ BackedOff \/ RetryFails
  BY <1>12 DEF BackOff, BackedOff, RetryFails, Sleep, Finish, Abort, Forget, Latch, time, durable, try, history
<1>13. CASE AnchorMinute \/ AnchorSpacing
  BY <1>13 DEF AnchorMinute, AnchorSpacing, Abort, Forget, Latch, time, durable, try, history
<1>14. CASE Clear \/ AnchorFails
  BY <1>14 DEF Clear, AnchorFails, Abort, Forget, Latch, time, durable, try, history
<1>15. CASE Tick \/ SetBack \/ Crash
  BY <1>15 DEF Tick, SetBack, Crash, Abort, Forget, Latch, time, durable, try, history
<1>16. CASE UNCHANGED vars
  BY <1>16 DEF vars, time, durable, try, history
<1> QED
  BY <1>1, <1>2, <1>3, <1>4, <1>5, <1>6, <1>7, <1>8, <1>9, <1>10, <1>11, <1>12, <1>13, <1>14, <1>15, <1>16
    DEF Next

(* At most one intent is on disk, that of the request under way. *)
LEMMA NextPending ==
  ASSUME TypeInv, OwnerInv, PendingInv, [Next]_vars
  PROVE  PendingInv'
<1> USE ClientAssumption DEF TypeInv, OwnerInv, PendingInv, Place, Unsent, Sent, Anchoring
<1>1. ASSUME NEW c \in Client, Construct(c) \/ Enter(c)
      PROVE  PendingInv'
  BY <1>1 DEF Construct, Enter, Abort, Forget, Latch, time, durable, try, history
<1>2. CASE Recover
  BY <1>2 DEF Recover, Abort, Forget, Latch, time, durable, try, history
<1>3. CASE RecoverFails \/ ForgetPending \/ Exit
  BY <1>3 DEF RecoverFails, ForgetPending, Exit, Abort, Forget, Latch, time, durable, try, history
<1>4. CASE DeferMinute \/ DeferSpacing
  BY <1>4 DEF DeferMinute, DeferSpacing, Abort, Forget, Latch, time, durable, try, history
<1>5. CASE Fetch \/ Wait \/ Wake \/ GiveUp
  BY <1>5 DEF Fetch, Wait, Wake, GiveUp, Sleep, Abort, Forget, Latch, time, durable, try, history
<1>6. CASE Allowed
  BY <1>6 DEF Allowed, Abort, Forget, Latch, time, durable, try, history
<1>7. CASE ReserveMinute \/ ReserveSpacing
  BY <1>7 DEF ReserveMinute, ReserveSpacing, Abort, Forget, Latch, time, durable, try, history
<1>8. CASE Begin \/ OwnedWriteFails \/ Send
  BY <1>8 DEF Begin, OwnedWriteFails, Send, Abort, Forget, Latch, time, durable, try, history
<1>9. ASSUME NEW reason \in {"denied", "failed"}, Answered \/ Refused(reason)
      PROVE  PendingInv'
  BY <1>9 DEF Answered, Refused, Finish, Abort, Forget, Latch, time, durable, try, history
<1>10. ASSUME NEW delay \in RetryAfter, RateLimited(delay)
      PROVE  PendingInv'
  BY <1>10 DEF RateLimited, Abort, Forget, Latch, time, durable, try, history
<1>11. CASE CoolMinute \/ CoolSpacing
  BY <1>11 DEF CoolMinute, CoolSpacing, Abort, Forget, Latch, time, durable, try, history
<1>12. CASE BackOff \/ BackedOff \/ RetryFails
  BY <1>12 DEF BackOff, BackedOff, RetryFails, Sleep, Finish, Abort, Forget, Latch, time, durable, try, history
<1>13. CASE AnchorMinute \/ AnchorSpacing
  BY <1>13 DEF AnchorMinute, AnchorSpacing, Abort, Forget, Latch, time, durable, try, history
<1>14. CASE Clear \/ AnchorFails
  BY <1>14 DEF Clear, AnchorFails, Abort, Forget, Latch, time, durable, try, history
<1>15. CASE Tick \/ SetBack \/ Crash
  BY <1>15 DEF Tick, SetBack, Crash, Abort, Forget, Latch, time, durable, try, history
<1>16. CASE UNCHANGED vars
  BY <1>16 DEF vars, time, durable, try, history
<1> QED
  BY <1>1, <1>2, <1>3, <1>4, <1>5, <1>6, <1>7, <1>8, <1>9, <1>10, <1>11, <1>12, <1>13, <1>14, <1>15, <1>16
    DEF Next

(* A history in order stays so when its last time is moved on. *)
LEMMA LastMovedInOrder ==
  ASSUME NEW s \in Seq(Int), NEW now \in Int, s # <<>>, s[Len(s)] <= now,
         \A i \in 1..(Len(s) - 1) : s[i] <= s[i + 1]
  PROVE  \A i \in 1..(Len([s EXCEPT ![Len(s)] = now]) - 1) :
            [s EXCEPT ![Len(s)] = now][i] <= [s EXCEPT ![Len(s)] = now][i + 1]
<1>1. Len(s) \in Nat /\ DOMAIN s = 1..Len(s) /\ \A i \in 1..Len(s) : s[i] \in Int
  OBVIOUS
<1>2. /\ [s EXCEPT ![Len(s)] = now] \in Seq(Int)
      /\ Len([s EXCEPT ![Len(s)] = now]) = Len(s)
      /\ \A i \in 1..Len(s) : [s EXCEPT ![Len(s)] = now][i] = IF i = Len(s) THEN now ELSE s[i]
  BY <1>1
<1> SUFFICES ASSUME NEW i \in 1..(Len(s) - 1)
             PROVE  [s EXCEPT ![Len(s)] = now][i] <= [s EXCEPT ![Len(s)] = now][i + 1]
  BY <1>2
<1>3. i \in 1..Len(s) /\ i + 1 \in 1..Len(s) /\ i # Len(s)
  <2>1. Len(s) \in Nat /\ i \in 1..(Len(s) - 1)
    BY <1>1
  <2> QED
    BY ONLY <2>1
<1>4. [s EXCEPT ![Len(s)] = now][i] = s[i] /\ s[i] <= s[i + 1]
  BY <1>2, <1>3
<1>5. CASE i + 1 = Len(s)
  <2>1. [s EXCEPT ![Len(s)] = now][i + 1] = now /\ s[i + 1] <= now
    BY <1>2, <1>3, <1>5
  <2>2. s[i] \in Int /\ s[i + 1] \in Int
    BY <1>1, <1>3
  <2> QED
    BY <1>4, <2>1, <2>2
<1>6. CASE i + 1 # Len(s)
  BY <1>2, <1>3, <1>4, <1>6
<1> QED
  BY <1>5, <1>6

LEMMA AnchoredFields ==
  ASSUME NEW b \in Budget
  PROVE  Anchored(b) = [stamps |-> [b.stamps EXCEPT ![Len(b.stamps)] = sentAt],
                        notBefore |-> b.notBefore]
<1>1. b = [stamps |-> b.stamps, notBefore |-> b.notBefore]
  BY DEF Budget
<1> QED
  BY <1>1 DEF Anchored

(* Anchoring moves the youngest timestamp to when the request was sent. *)
LEMMA AnchoredProperties ==
  ASSUME NEW b \in Budget, NEW policy \in Policy, reservedAt \in Int, sentAt \in Int,
         InOrder(b), Anchorable(b, policy)
  PROVE  /\ Anchored(b) \in Budget
         /\ Anchored(b).notBefore = b.notBefore
         /\ InOrder(Anchored(b))
         /\ HasAtOrAfter(Anchored(b), reservedAt)
<1> DEFINE s == b.stamps
           t == [s EXCEPT ![Len(s)] = sentAt]
<1>1. /\ s \in Seq(Int) /\ b.notBefore \in Int /\ s # <<>> /\ sentAt >= reservedAt
      /\ s[Len(s)] = reservedAt \/ s[Len(s)] = sentAt
  BY DEF Budget, Anchorable
<1>2. Len(s) \in Nat /\ Len(s) >= 1 /\ DOMAIN s = 1..Len(s) /\ \A i \in 1..Len(s) : s[i] \in Int
  BY <1>1
<1>3. \A i \in 1..(Len(s) - 1) : s[i] <= s[i + 1]
  BY DEF InOrder
<1>4. /\ t \in Seq(Int) /\ Len(t) = Len(s) /\ DOMAIN t = 1..Len(s)
      /\ \A i \in 1..Len(s) : t[i] = IF i = Len(s) THEN sentAt ELSE s[i]
  BY <1>1, <1>2
<1>5. Anchored(b) = [stamps |-> t, notBefore |-> b.notBefore]
  BY AnchoredFields
<1>6. Anchored(b) \in Budget /\ Anchored(b).notBefore = b.notBefore /\ Anchored(b).stamps = t
  BY <1>1, <1>4, <1>5 DEF Budget
<1>7. \A i \in 1..(Len(t) - 1) : t[i] <= t[i + 1]
  <2>1. s[Len(s)] <= sentAt
    BY <1>1
  <2> QED
    BY <1>1, <1>3, <2>1, LastMovedInOrder
<1>8. Len(s) \in DOMAIN t /\ t[Len(s)] >= reservedAt
  BY <1>1, <1>2, <1>4
<1> QED
  BY <1>6, <1>7, <1>8 DEF InOrder, HasAtOrAfter

(* The state is what it is declared to be. *)
LEMMA NextType ==
  ASSUME TypeInv, OwnerInv, ReservedInv, [Next]_vars
  PROVE  TypeInv'
<1> USE ClientAssumption DEF TypeInv, OwnerInv, Place
<1>1. ASSUME NEW c \in Client, Construct(c) \/ Enter(c)
      PROVE  TypeInv'
  BY <1>1 DEF Construct, Enter, Abort, Forget, Latch, time, durable, try, history, Policy
<1>2. CASE Recover \/ RecoverFails
  BY <1>2 DEF Recover, RecoverFails, Abort, Forget, Latch, time, durable, try, history
<1>3. CASE ForgetPending \/ Exit
  BY <1>3 DEF ForgetPending, Exit, Abort, Forget, Latch, time, durable, try, history
<1>4. CASE DeferMinute
  BY <1>4, DeferredProperties DEF DeferMinute, time, durable, try, history
<1>5. CASE DeferSpacing
  BY <1>5, DeferredProperties DEF DeferSpacing, time, durable, try, history
<1>6. CASE Fetch \/ Wait \/ Wake \/ GiveUp
  BY <1>6 DEF Fetch, Wait, Wake, GiveUp, Sleep, Abort, Forget, Latch, time, durable, try, history
<1>7. CASE Allowed
  BY <1>7 DEF Allowed, Abort, Forget, Latch, time, durable, try, history
<1>8. CASE ReserveMinute
  BY <1>8, ReservedProperties DEF ReserveMinute, time, durable, try, history
<1>9. CASE ReserveSpacing
  BY <1>9, ReservedProperties DEF ReserveSpacing, time, durable, try, history
<1>10. CASE Begin \/ OwnedWriteFails \/ Send
  BY <1>10 DEF Begin, OwnedWriteFails, Send, Abort, Forget, Latch, time, durable, try, history
<1>11. ASSUME NEW reason \in {"denied", "failed"}, Answered \/ Refused(reason)
      PROVE  TypeInv'
  BY <1>11 DEF Answered, Refused, Finish, Abort, Forget, Latch, time, durable, try, history
<1>12. ASSUME NEW delay \in RetryAfter, RateLimited(delay)
      PROVE  TypeInv'
  BY <1>12 DEF RateLimited, Abort, Forget, Latch, time, durable, try, history
<1>13. CASE CoolMinute
  <2>1. minute' \in Budget
    BY <1>13, DeferredProperties DEF CoolMinute, time, durable, try, history
  <2>2. quiet' \in Int
    BY <1>13 DEF CoolMinute, Larger
  <2> QED
    BY <1>13, <2>1, <2>2 DEF CoolMinute, time, durable, try, history
<1>14. CASE CoolSpacing
  BY <1>14, DeferredProperties DEF CoolSpacing, time, durable, try, history
<1>15. CASE BackOff \/ BackedOff \/ RetryFails
  BY <1>15 DEF BackOff, BackedOff, RetryFails, Sleep, Finish, Abort, Forget, Latch, time, durable, try, history
<1>16. CASE AnchorMinute
  BY <1>16, AnchoredProperties DEF AnchorMinute, ReservedInv, time, durable, try, history
<1>17. CASE AnchorSpacing
  BY <1>17, AnchoredProperties DEF AnchorSpacing, ReservedInv, time, durable, try, history
<1>18. CASE Clear \/ AnchorFails
  BY <1>18 DEF Clear, AnchorFails, Abort, Forget, Latch, time, durable, try, history
<1>19. CASE Tick \/ SetBack \/ Crash
  BY <1>19 DEF Tick, SetBack, Crash, Abort, Forget, Latch, time, durable, try, history, Policy
<1>20. CASE UNCHANGED vars
  BY <1>20 DEF vars, time, durable, try, history
<1> QED
  BY <1>1, <1>2, <1>3, <1>4, <1>5, <1>6, <1>7, <1>8, <1>9, <1>10,
     <1>11, <1>12, <1>13, <1>14, <1>15, <1>16, <1>17, <1>18, <1>19, <1>20 DEF Next

(* A reservation stays in the budget for as long as something rests on it. *)
LEMMA NextReserved ==
  ASSUME TypeInv, PendingInv, ReservedInv, [Next]_vars
  PROVE  ReservedInv'
<1> USE ClientAssumption DEF PendingInv, ReservedInv, Unsent, Sent
<1>1. ASSUME NEW c \in Client, Construct(c) \/ Enter(c)
      PROVE  ReservedInv'
  <2>1. UNCHANGED <<durable, reservedAt>> /\ pc' \in {pc, "recover"}
    BY <1>1 DEF Construct, Enter, time, durable, try, history
  <2> QED
    BY <2>1 DEF durable
<1>2. CASE Recover \/ RecoverFails
  <2>1. /\ UNCHANGED <<minute, spacing>> /\ pending' \subseteq pending
        /\ pc' \notin {"reserveMinute", "reserveSpacing", "begin"}
    BY <1>2 DEF Recover, RecoverFails, Abort, Forget, time, durable, try, history
  <2> QED
    BY <2>1
<1>3. CASE ForgetPending \/ Exit
  <2>1. /\ UNCHANGED <<minute, spacing>> /\ pending' \subseteq pending
        /\ pc' \notin {"reserveMinute", "reserveSpacing", "begin"}
    BY <1>3 DEF ForgetPending, Exit, Abort, Forget, time, durable, try, history
  <2> QED
    BY <2>1
<1>4. CASE DeferMinute
  <2>1. /\ minute'.stamps = minute.stamps
        /\ UNCHANGED <<spacing, pending, reservedAt>>
        /\ pc' \notin {"reserveMinute", "reserveSpacing", "begin"}
    BY <1>4, DeferredProperties DEF DeferMinute, TypeInv, time, durable, try, history
  <2> QED
    BY <2>1 DEF HasAtOrAfter, InOrder
<1>5. CASE DeferSpacing
  <2>1. /\ spacing'.stamps = spacing.stamps
        /\ UNCHANGED <<minute, pending, reservedAt>>
        /\ pc' \notin {"reserveMinute", "reserveSpacing", "begin"}
    BY <1>5, DeferredProperties DEF DeferSpacing, TypeInv, time, durable, try, history
  <2> QED
    BY <2>1 DEF HasAtOrAfter, InOrder
<1>6. CASE Fetch \/ Wait \/ Wake \/ GiveUp
  <2>1. /\ UNCHANGED <<minute, spacing>> /\ pending' \subseteq pending
        /\ pc' \notin {"reserveMinute", "reserveSpacing", "begin"}
    BY <1>6 DEF Fetch, Wait, Wake, GiveUp, Sleep, Abort, Forget, time, durable, try, history
  <2> QED
    BY <2>1
<1>7. CASE Allowed
  <2>1. UNCHANGED <<minute, spacing, pending>> /\ reservedAt' = wall /\ pc' = "reserveMinute"
    BY <1>7 DEF Allowed, time, durable, try, history
  <2>2. /\ ~ ClockWentBack(minute, MinutePolicy, wall)
        /\ ~ ClockWentBack(spacing, SpacingPolicy, wall)
    BY <1>7 DEF Allowed, BudgetsReadable
  <2> QED
    BY <2>1, <2>2
<1>8. CASE ReserveMinute
  <2>1. /\ minute' = Reserved(minute, MinutePolicy, reservedAt)
        /\ UNCHANGED <<spacing, pending, reservedAt>>
        /\ pc = "reserveMinute" /\ pc' = "reserveSpacing" /\ pending = {}
    BY <1>8 DEF ReserveMinute, time, durable, try, history
  <2>2. InOrder(minute') /\ HasAtOrAfter(minute', reservedAt)
    <3>1. /\ minute' \in Budget /\ minute'.stamps # <<>>
          /\ minute'.stamps[Len(minute'.stamps)] = reservedAt /\ InOrder(minute')
      BY <2>1, ReservedProperties DEF TypeInv
    <3>2. Len(minute'.stamps) \in DOMAIN minute'.stamps
      BY <3>1 DEF Budget
    <3> QED
      BY <3>1, <3>2 DEF HasAtOrAfter, TypeInv
  <2> QED
    BY <2>1, <2>2
<1>9. CASE ReserveSpacing
  <2>1. /\ spacing' = Reserved(spacing, SpacingPolicy, reservedAt)
        /\ UNCHANGED <<minute, pending, reservedAt>>
        /\ pc = "reserveSpacing" /\ pc' = "begin" /\ pending = {}
    BY <1>9 DEF ReserveSpacing, time, durable, try, history
  <2>2. InOrder(spacing') /\ HasAtOrAfter(spacing', reservedAt)
    <3>1. /\ spacing' \in Budget /\ spacing'.stamps # <<>>
          /\ spacing'.stamps[Len(spacing'.stamps)] = reservedAt /\ InOrder(spacing')
      BY <2>1, ReservedProperties DEF TypeInv
    <3>2. Len(spacing'.stamps) \in DOMAIN spacing'.stamps
      BY <3>1 DEF Budget
    <3> QED
      BY <3>1, <3>2 DEF HasAtOrAfter, TypeInv
  <2> QED
    BY <2>1, <2>2
<1>10. CASE Begin \/ OwnedWriteFails \/ Send
  <2>1. CASE Begin
    <3>1. /\ UNCHANGED <<minute, spacing, reservedAt>> /\ pending' = {reservedAt}
          /\ pc = "begin" /\ pc' = "send"
      BY <2>1 DEF Begin, time, durable, try, history
    <3> QED
      BY <3>1
  <2>2. CASE OwnedWriteFails \/ Send
    <3>1. /\ UNCHANGED <<minute, spacing, pending>>
          /\ pc' \notin {"reserveMinute", "reserveSpacing", "begin"}
      BY <2>2 DEF OwnedWriteFails, Send, Abort, time, durable, try, history
    <3> QED
      BY <3>1
  <2> QED
    BY <1>10, <2>1, <2>2
<1>11. ASSUME NEW reason \in {"denied", "failed"}, Answered \/ Refused(reason)
      PROVE  ReservedInv'
  <2>1. /\ UNCHANGED <<minute, spacing>> /\ pending' \subseteq pending
        /\ pc' \notin {"reserveMinute", "reserveSpacing", "begin"}
    BY <1>11 DEF Answered, Refused, Finish, Abort, Forget, time, durable, try, history
  <2> QED
    BY <2>1
<1>12. ASSUME NEW delay \in RetryAfter, RateLimited(delay)
      PROVE  ReservedInv'
  <2>1. /\ UNCHANGED <<minute, spacing>> /\ pending' \subseteq pending
        /\ pc' \notin {"reserveMinute", "reserveSpacing", "begin"}
    BY <1>12 DEF RateLimited, Abort, Forget, time, durable, try, history
  <2> QED
    BY <2>1
<1>13. CASE CoolMinute
  <2>1. /\ minute'.stamps = minute.stamps
        /\ UNCHANGED <<spacing, pending, reservedAt>>
        /\ pc' \notin {"reserveMinute", "reserveSpacing", "begin"}
    BY <1>13, DeferredProperties DEF CoolMinute, TypeInv, time, durable, try, history
  <2> QED
    BY <2>1 DEF HasAtOrAfter, InOrder
<1>14. CASE CoolSpacing
  <2>1. /\ spacing'.stamps = spacing.stamps
        /\ UNCHANGED <<minute, pending, reservedAt>>
        /\ pc' \notin {"reserveMinute", "reserveSpacing", "begin"}
    BY <1>14, DeferredProperties DEF CoolSpacing, TypeInv, time, durable, try, history
  <2> QED
    BY <2>1 DEF HasAtOrAfter, InOrder
<1>15. CASE BackOff \/ BackedOff \/ RetryFails
  <2>1. /\ UNCHANGED <<minute, spacing>> /\ pending' \subseteq pending
        /\ pc' \notin {"reserveMinute", "reserveSpacing", "begin"}
    BY <1>15
      DEF BackOff, BackedOff, RetryFails, Sleep, Finish, Abort, Forget, time, durable, try, history
  <2> QED
    BY <2>1
<1>16. CASE AnchorMinute
  <2>1. /\ minute' = Anchored(minute) /\ Anchorable(minute, MinutePolicy)
        /\ UNCHANGED <<spacing, pending, reservedAt>>
        /\ pc' = "anchorSpacing" /\ pending = {reservedAt}
    BY <1>16 DEF AnchorMinute, Anchorable, time, durable, try, history
  <2>2. InOrder(minute') /\ HasAtOrAfter(minute', reservedAt)
    BY <2>1, AnchoredProperties DEF TypeInv
  <2> QED
    BY <2>1, <2>2
<1>17. CASE AnchorSpacing
  <2>1. /\ spacing' = Anchored(spacing) /\ Anchorable(spacing, SpacingPolicy)
        /\ UNCHANGED <<minute, pending, reservedAt>>
        /\ pc' = "clear" /\ pending = {reservedAt}
    BY <1>17 DEF AnchorSpacing, Anchorable, time, durable, try, history
  <2>2. InOrder(spacing') /\ HasAtOrAfter(spacing', reservedAt)
    BY <2>1, AnchoredProperties DEF TypeInv
  <2> QED
    BY <2>1, <2>2
<1>18. CASE Clear \/ AnchorFails
  <2>1. /\ UNCHANGED <<minute, spacing>> /\ pending' \subseteq pending
        /\ pc' \notin {"reserveMinute", "reserveSpacing", "begin"}
    BY <1>18 DEF Clear, AnchorFails, TypeInv, Abort, Forget, time, durable, try, history
  <2> QED
    BY <2>1
<1>19. CASE Tick \/ SetBack \/ Crash
  <2>1. CASE Tick \/ SetBack
    BY <2>1 DEF Tick, SetBack, time, durable, try, history
  <2>2. CASE Crash
    <3>1. UNCHANGED <<minute, spacing, pending>> /\ pc' = "idle"
      BY <2>2 DEF Crash, time, durable, try, history
    <3> QED
      BY <3>1
  <2> QED
    BY <1>19, <2>1, <2>2
<1>20. CASE UNCHANGED vars
  BY <1>20 DEF vars, time, durable, try, history
<1> QED
  BY <1>1, <1>2, <1>3, <1>4, <1>5, <1>6, <1>7, <1>8, <1>9, <1>10,
     <1>11, <1>12, <1>13, <1>14, <1>15, <1>16, <1>17, <1>18, <1>19, <1>20 DEF Next

(* The budget's cooldown covers what a provider asked for. *)
LEMMA NextQuiet ==
  ASSUME TypeInv, OwnerInv, ReservedInv, QuietInv, [Next]_vars
  PROVE  QuietInv'
<1> USE DEF QuietInv
<1>1. ASSUME NEW c \in Client, Construct(c) \/ Enter(c)
      PROVE  QuietInv'
  <2>1. UNCHANGED <<quiet, real, wall, minute>> /\ (pc' \in Leaving => pc \in Leaving)
    BY <1>1 DEF Construct, Enter, Abort, Forget, Leaving, time, durable, try, history
  <2> QED
    BY <2>1
<1>2. CASE Recover \/ RecoverFails
  <2>1. UNCHANGED <<quiet, real, wall, minute>> /\ (pc' \in Leaving => pc \in Leaving)
    BY <1>2 DEF Recover, RecoverFails, Abort, Forget, Leaving, time, durable, try, history
  <2> QED
    BY <2>1
<1>3. CASE ForgetPending \/ Exit
  <2>1. UNCHANGED <<quiet, real, wall, minute>> /\ (pc' \in Leaving => pc \in Leaving)
    BY <1>3 DEF ForgetPending, Exit, Abort, Forget, Leaving, time, durable, try, history
  <2> QED
    BY <2>1
<1>4. CASE DeferMinute
  <2>1. UNCHANGED <<quiet, real, wall>> /\ (pc' \in Leaving => pc \in Leaving)
    BY <1>4 DEF DeferMinute, Leaving, time, durable, try, history
  <2>2. minute'.notBefore >= minute.notBefore /\ minute'.notBefore \in Int
    BY <1>4, DeferredProperties DEF DeferMinute, TypeInv, Budget, time, durable, try, history
  <2>3. minute.notBefore \in Int /\ quiet \in Int /\ real \in Int /\ wall \in Int
    BY DEF TypeInv, Budget
  <2> QED
    BY <2>1, <2>2, <2>3
<1>5. CASE DeferSpacing
  <2>1. UNCHANGED <<quiet, real, wall, minute>> /\ (pc' \in Leaving => pc \in Leaving)
    BY <1>5 DEF DeferSpacing, Abort, Forget, Leaving, time, durable, try, history
  <2> QED
    BY <2>1
<1>6. CASE Fetch \/ Wait \/ Wake \/ GiveUp
  <2>1. UNCHANGED <<quiet, real, wall, minute>> /\ (pc' \in Leaving => pc \in Leaving)
    BY <1>6
      DEF Fetch, Wait, Wake, GiveUp, Sleep, Abort, Forget, Leaving, time, durable, try, history
  <2> QED
    BY <2>1
<1>7. CASE Allowed
  <2>1. UNCHANGED <<quiet, real, wall, minute>> /\ TotalDelay = 0
    BY <1>7 DEF Allowed, time, durable, try, history
  <2>2. minute.notBefore <= wall
    <3>1. /\ Delay(minute, MinutePolicy, wall) \in Nat
          /\ Delay(minute, MinutePolicy, wall) = 0 => minute.notBefore <= wall
          /\ Delay(spacing, SpacingPolicy, wall) \in Nat
      BY ClientAssumption, DelayRespectsCooldown DEF TypeInv
    <3>2. LocalDelay \in Int
      BY ClientAssumption, <1>7 DEF LocalDelay, Larger, Allowed, TypeInv, OwnerInv, Unsent, Policy
    <3>3. Delay(minute, MinutePolicy, wall) = 0
      BY <2>1, <3>1, <3>2 DEF TotalDelay, Larger
    <3> QED
      BY <3>1, <3>3
  <2>3. minute.notBefore \in Int /\ quiet \in Int /\ real \in Int /\ wall \in Int
    BY DEF TypeInv, Budget
  <2> QED
    BY <2>1, <2>2, <2>3
<1>8. CASE ReserveMinute
  <2>1. UNCHANGED <<quiet, real, wall>> /\ (pc' \in Leaving => pc \in Leaving)
    BY <1>8 DEF ReserveMinute, Leaving, time, durable, try, history
  <2>2. minute'.notBefore >= minute.notBefore /\ minute'.notBefore \in Int
    <3>1. minute'.notBefore = minute.notBefore
      BY <1>8, ClientAssumption, ReservedProperties DEF ReserveMinute, TypeInv
    <3> QED
      BY <3>1 DEF TypeInv, Budget
  <2>3. minute.notBefore \in Int /\ quiet \in Int /\ real \in Int /\ wall \in Int
    BY DEF TypeInv, Budget
  <2> QED
    BY <2>1, <2>2, <2>3
<1>9. CASE ReserveSpacing
  <2>1. UNCHANGED <<quiet, real, wall, minute>> /\ (pc' \in Leaving => pc \in Leaving)
    BY <1>9 DEF ReserveSpacing, Abort, Forget, Leaving, time, durable, try, history
  <2> QED
    BY <2>1
<1>10. CASE Begin \/ OwnedWriteFails \/ Send
  <2>1. UNCHANGED <<quiet, real, wall, minute>> /\ (pc' \in Leaving => pc \in Leaving)
    BY <1>10 DEF Begin, OwnedWriteFails, Send, Abort, Forget, Leaving, time, durable, try, history
  <2> QED
    BY <2>1
<1>11. ASSUME NEW reason \in {"denied", "failed"}, Answered \/ Refused(reason)
      PROVE  QuietInv'
  <2>1. UNCHANGED <<quiet, real, wall, minute>> /\ (pc' \in Leaving => pc \in Leaving)
    BY <1>11 DEF Answered, Refused, Finish, Abort, Forget, Leaving, time, durable, try, history
  <2> QED
    BY <2>1
<1>12. ASSUME NEW delay \in RetryAfter, RateLimited(delay)
      PROVE  QuietInv'
  <2>1. UNCHANGED <<quiet, real, wall, minute>> /\ (pc' \in Leaving => pc \in Leaving)
    BY <1>12 DEF RateLimited, Abort, Forget, Leaving, time, durable, try, history
  <2> QED
    BY <2>1
<1>13. CASE CoolMinute
  <2>1. /\ UNCHANGED <<real, wall>> /\ pc' = "coolSpacing"
        /\ minute' = Deferred(minute, until)
        /\ quiet' = Larger(quiet, real + (until - wall))
    BY <1>13 DEF CoolMinute, time, durable, try, history
  <2>2. /\ minute'.notBefore >= minute.notBefore /\ minute'.notBefore >= until
        /\ minute' \in Budget
    BY <2>1, DeferredProperties DEF TypeInv
  <2>3. minute'.notBefore \in Int /\ minute.notBefore \in Int
    BY <2>2 DEF TypeInv, Budget
  <2>4. quiet \in Int /\ real \in Int /\ wall \in Int /\ until \in Int
    BY DEF TypeInv
  <2>5. quiet' - real <= minute'.notBefore - wall
    BY <2>1, <2>2, <2>3, <2>4 DEF Larger
  <2> QED
    BY <2>1, <2>5 DEF Leaving
<1>14. CASE CoolSpacing
  <2>1. UNCHANGED <<quiet, real, wall, minute>> /\ (pc' \in Leaving => pc \in Leaving)
    BY <1>14 DEF CoolSpacing, Abort, Forget, Leaving, time, durable, try, history
  <2> QED
    BY <2>1
<1>15. CASE BackOff \/ BackedOff \/ RetryFails
  <2>1. UNCHANGED <<quiet, real, wall, minute>> /\ (pc' \in Leaving => pc \in Leaving)
    BY <1>15 DEF BackOff, BackedOff, RetryFails, Sleep, Finish, Abort, Forget, Leaving, time, durable, try, history
  <2> QED
    BY <2>1
<1>16. CASE AnchorMinute
  <2>1. UNCHANGED <<quiet, real, wall>> /\ (pc' \in Leaving => pc \in Leaving)
    BY <1>16 DEF AnchorMinute, Leaving, time, durable, try, history
  <2>2. minute'.notBefore >= minute.notBefore /\ minute'.notBefore \in Int
    <3>1. minute'.notBefore = minute.notBefore
      BY <1>16, ClientAssumption, AnchoredProperties DEF AnchorMinute, TypeInv, ReservedInv
    <3> QED
      BY <3>1 DEF TypeInv, Budget
  <2>3. minute.notBefore \in Int /\ quiet \in Int /\ real \in Int /\ wall \in Int
    BY DEF TypeInv, Budget
  <2> QED
    BY <2>1, <2>2, <2>3
<1>17. CASE AnchorSpacing
  <2>1. UNCHANGED <<quiet, real, wall, minute>> /\ (pc' \in Leaving => pc \in Leaving)
    BY <1>17 DEF AnchorSpacing, Abort, Forget, Leaving, time, durable, try, history
  <2> QED
    BY <2>1
<1>18. CASE Clear \/ AnchorFails
  <2>1. UNCHANGED <<quiet, real, wall, minute>> /\ (pc' \in Leaving => pc \in Leaving)
    BY <1>18 DEF Clear, AnchorFails, TypeInv, Abort, Forget, Leaving, time, durable, try, history
  <2> QED
    BY <2>1
<1>19. CASE Tick \/ SetBack \/ Crash
  <2>1. minute.notBefore \in Int /\ quiet \in Int /\ real \in Int /\ wall \in Int
    BY DEF TypeInv, Budget
  <2>2. CASE Tick
    <3>1. real' = real + 1 /\ wall' = wall + 1 /\ UNCHANGED <<minute, quiet, pc>>
      BY <2>2 DEF Tick, time, durable, try, history
    <3> QED
      BY <2>1, <3>1
  <2>3. CASE SetBack
    <3>1. wall' = wall - 1 /\ UNCHANGED <<real, minute, quiet, pc>>
      BY <2>3 DEF SetBack, time, durable, try, history
    <3> QED
      BY <2>1, <3>1
  <2>4. CASE Crash
    <3>1. UNCHANGED <<real, wall, minute, quiet>> /\ pc' \notin Leaving
      BY <2>4 DEF Crash, Leaving, time, durable, try, history
    <3> QED
      BY <3>1
  <2> QED
    BY <1>19, <2>2, <2>3, <2>4
<1>20. CASE UNCHANGED vars
  BY <1>20 DEF vars, time, durable, try, history
<1> QED
  BY <1>1, <1>2, <1>3, <1>4, <1>5, <1>6, <1>7, <1>8, <1>9, <1>10,
     <1>11, <1>12, <1>13, <1>14, <1>15, <1>16, <1>17, <1>18, <1>19, <1>20 DEF Next

-----------------------------------------------------------------------------
LEMMA InitInv ==
  ASSUME Init
  PROVE  Inv
<1> USE ClientAssumption DEF Init
<1>1. TypeInv
  BY DEF TypeInv, Place, Unused, Budget, Policy
<1>2. OwnerInv /\ PendingInv
  BY DEF OwnerInv, PendingInv, Unsent, Sent, Retrying, Anchoring
<1>3. ReservedInv
  BY DEF ReservedInv, Unused, InOrder
<1>4. QuietInv
  BY DEF QuietInv, Leaving, Unused
<1> QED
  BY <1>1, <1>2, <1>3, <1>4 DEF Inv

LEMMA InvHolds == Spec => []Inv
<1>1. Init => Inv
  BY InitInv
<1>2. Inv /\ [Next]_vars => Inv'
  BY NextType, NextOwner, NextPending, NextReserved, NextQuiet DEF Inv
<1> QED
  BY <1>1, <1>2, PTL DEF Spec

(* A request is on the wire only under a recorded intent, an intent left by *)
(* a crash finds its reservation in both budgets, and the histories stay in *)
(* order, for any number of clients, crashes and clock changes: the         *)
(* recovery of detailed/openf1_transport.py is never refused for what the   *)
(* client itself wrote.                                                     *)
THEOREM IntentsAreCovered == Spec => []IntentCovered
<1>1. Inv => IntentCovered
  BY DEF Inv, PendingInv, ReservedInv, Sent, HasAtOrAfter, IntentCovered
<1> QED
  BY <1>1, InvHolds, PTL

-----------------------------------------------------------------------------
(* How the requests sent are covered by the two budgets: from the            *)
(* reservation to the send there is a timestamp more than requests, and from *)
(* the send until it is anchored, or a recovery has deferred everything, the *)
(* last request has no timestamp of its own, but an intent.                  *)
MinuteAhead == pc \in {"reserveSpacing", "begin", "send"}
SpacingAhead == pc \in {"begin", "send"}
MinuteDue == pending # {} /\ pc \notin {"send", "anchorSpacing", "clear", "deferSpacing", "forget"}
SpacingDue == pending # {} /\ pc \notin {"send", "clear", "forget"}
Answering == {"answer", "coolMinute", "coolSpacing", "retry", "backoff",
              "anchorMinute", "anchorSpacing", "clear"}

CoverInv ==
    /\ sends \in Seq(Int) /\ Past(sends, real)
    /\ Ordered(minute) /\ Ordered(spacing)
    /\ CoversAll(minute, MinutePolicy, sends, One(MinuteAhead), One(MinuteDue), real, wall)
    /\ CoversAll(spacing, SpacingPolicy, sends, One(SpacingAhead), One(SpacingDue), real, wall)

(* What the probe found out holds of the time it was made at, however late  *)
(* the reservation is written.                                              *)
ProbedInv ==
    /\ pc = "reserveMinute" =>
         /\ Delay(minute, MinutePolicy, reservedAt) = 0
         /\ CoversAll(minute, MinutePolicy, sends, 0, 0, real, reservedAt)
    /\ pc \in {"reserveMinute", "reserveSpacing"} =>
         /\ Delay(spacing, SpacingPolicy, reservedAt) = 0
         /\ CoversAll(spacing, SpacingPolicy, sends, 0, 0, real, reservedAt)

RecoveryInv ==
    pc \in {"deferMinute", "deferSpacing"} =>
        \A i \in DOMAIN sends : until - wall >= sends[i] + Cooldown - real

SentInv ==
    /\ pc \in {"reserveSpacing", "begin", "send"} => Free(MinutePolicy, sends, real)
    /\ pc \in {"begin", "send"} => Free(SpacingPolicy, sends, real)
    /\ pc \in Answering => sends # <<>> /\ sentAt - wall >= sends[Len(sends)] - real
    /\ Spaced(MinutePolicy, sends) /\ Spaced(SpacingPolicy, sends)

SpacingInv == CoverInv /\ ProbedInv /\ RecoveryInv /\ SentInv

(* Steps that leave the budgets, the requests and the time alone, and find   *)
(* no reason to rely on more than before.                                    *)
CoverKept ==
    /\ (MinuteAhead' => MinuteAhead) /\ (SpacingAhead' => SpacingAhead)
    /\ (MinuteDue => MinuteDue') /\ (SpacingDue => SpacingDue')
ProbedKept == pc' \notin {"reserveMinute", "reserveSpacing"}
RecoveryKept == pc' \in {"deferMinute", "deferSpacing"} => pc \in {"deferMinute", "deferSpacing"} /\ until' = until
SentKept ==
    /\ pc' \in {"reserveSpacing", "begin", "send"} => pc \in {"reserveSpacing", "begin", "send"}
    /\ pc' \in {"begin", "send"} => pc \in {"begin", "send"}
    /\ pc' \in Answering => pc \in Answering /\ sentAt' = sentAt
Still == UNCHANGED <<minute, spacing, sends, real, wall>>

LEMMA CoverStays ==
  ASSUME TypeInv, CoverInv, Still, CoverKept
  PROVE  CoverInv'
<1>1. /\ One(MinuteAhead) \in {0, 1} /\ One(SpacingAhead) \in {0, 1}
      /\ One(MinuteDue) \in {0, 1} /\ One(SpacingDue) \in {0, 1}
      /\ One(MinuteAhead') \in {0, 1} /\ One(SpacingAhead') \in {0, 1}
      /\ One(MinuteDue') \in {0, 1} /\ One(SpacingDue') \in {0, 1}
  BY DEF One
<1>2. /\ One(MinuteAhead') <= One(MinuteAhead) /\ One(SpacingAhead') <= One(SpacingAhead)
      /\ One(MinuteDue') >= One(MinuteDue) /\ One(SpacingDue') >= One(SpacingDue)
  BY DEF One, CoverKept
<1>3. CoversAll(minute, MinutePolicy, sends, One(MinuteAhead'), One(MinuteDue'), real, wall)
  BY <1>1, <1>2, ClientAssumption, WeakerCover DEF TypeInv, CoverInv
<1>4. CoversAll(spacing, SpacingPolicy, sends, One(SpacingAhead'), One(SpacingDue'), real, wall)
  BY <1>1, <1>2, ClientAssumption, WeakerCover DEF TypeInv, CoverInv
<1> QED
  BY <1>3, <1>4 DEF CoverInv, Still

LEMMA StillStays ==
  ASSUME TypeInv, SpacingInv, Still, CoverKept, ProbedKept, RecoveryKept, SentKept
  PROVE  SpacingInv'
<1>1. CoverInv'
  BY CoverStays DEF SpacingInv
<1>2. ProbedInv'
  BY DEF ProbedInv, ProbedKept
<1>3. RecoveryInv'
  BY DEF SpacingInv, RecoveryInv, RecoveryKept, Still
<1>4. SentInv'
  BY DEF SpacingInv, SentInv, SentKept, Still
<1> QED
  BY <1>1, <1>2, <1>3, <1>4 DEF SpacingInv

(* The steps between the writes of the budgets. *)
LEMMA StillSteps ==
  ASSUME TypeInv, OwnerInv, PendingInv, SpacingInv,
         \/ \E c \in Client : Enter(c)
         \/ RecoverFails \/ ForgetPending \/ Exit
         \/ Fetch \/ Wait \/ Wake \/ GiveUp
         \/ Begin \/ OwnedWriteFails
         \/ Answered \/ (\E reason \in {"denied", "failed"} : Refused(reason))
         \/ (\E delay \in RetryAfter : RateLimited(delay))
         \/ BackOff \/ BackedOff \/ RetryFails
         \/ Clear \/ AnchorFails \/ Crash
  PROVE  SpacingInv'
<1> DEFINE Kept == Still /\ CoverKept /\ ProbedKept /\ RecoveryKept /\ SentKept
<1> USE DEF CoverKept, ProbedKept, RecoveryKept, SentKept, MinuteAhead, SpacingAhead,
            MinuteDue, SpacingDue, Answering
<1> SUFFICES Kept
  BY StillStays
<1>1. ASSUME NEW c \in Client, Enter(c)
      PROVE  Kept
  <2>1. Still /\ pc = "idle" /\ pc' = "recover" /\ pending' = pending
    BY <1>1, ClientAssumption DEF Enter, OwnerInv, Still, time, durable, try, history
  <2> QED
    BY <2>1
<1>2. CASE RecoverFails
  <2>1. Still /\ pc' = "idle" /\ pending' = pending
    BY <1>2 DEF RecoverFails, Abort, Forget, Still, time, durable, try, history
  <2> QED
    BY <2>1
<1>3. CASE ForgetPending
  <2>1. Still /\ pc = "forget" /\ pc' = "ready" /\ pending' = {}
    BY <1>3 DEF ForgetPending, Forget, Still, time, durable, try, history
  <2> QED
    BY <2>1
<1>4. CASE Exit
  <2>1. Still /\ pc = "ready" /\ pc' = "idle" /\ pending' = pending
    BY <1>4 DEF Exit, Abort, Forget, Still, time, durable, try, history
  <2> QED
    BY <2>1
<1>5. CASE Fetch
  <2>1. Still /\ pc = "ready" /\ pc' = "probe" /\ pending = {} /\ pending' = {}
    BY <1>5 DEF Fetch, PendingInv, Still, time, durable, try, history
  <2> QED
    BY <2>1
<1>6. CASE Wait \/ Wake
  <2>1. Still /\ pc' \in {"probe", "pause"} /\ pc \in {"probe", "pause"} /\ pending' = pending
    BY <1>6 DEF Wait, Wake, Sleep, Still, time, durable, try, history
  <2> QED
    BY <2>1
<1>7. CASE GiveUp
  <2>1. Still /\ pc' = "ready" /\ pc \in {"probe", "pause"} /\ pending' = pending
    BY <1>7 DEF GiveUp, Abort, Still, time, durable, try, history
  <2> QED
    BY <2>1
<1>8. CASE Begin
  <2>1. Still /\ pc = "begin" /\ pc' = "send" /\ pending = {}
    BY <1>8 DEF Begin, Still, time, durable, try, history
  <2> QED
    BY <2>1
<1>9. CASE OwnedWriteFails
  <2>1. Still /\ pc' = "ready" /\ pending = {} /\ pending' = {}
    BY <1>9 DEF OwnedWriteFails, Abort, PendingInv, Unsent, Still, time, durable, try, history
  <2> QED
    BY <2>1
<1>10. CASE Answered
  <2>1. Still /\ pc = "answer" /\ pc' = "anchorMinute" /\ sentAt' = sentAt /\ pending' = pending
    BY <1>10 DEF Answered, Finish, Still, time, durable, try, history
  <2> QED
    BY <2>1
<1>11. ASSUME NEW reason \in {"denied", "failed"}, Refused(reason)
      PROVE  Kept
  <2>1. Still /\ pc = "answer" /\ pc' = "anchorMinute" /\ sentAt' = sentAt /\ pending' = pending
    BY <1>11 DEF Refused, Finish, Still, time, durable, try, history
  <2> QED
    BY <2>1
<1>12. ASSUME NEW delay \in RetryAfter, RateLimited(delay)
      PROVE  Kept
  <2>1. Still /\ pc = "answer" /\ pc' = "coolMinute" /\ sentAt' = sentAt /\ pending' = pending
    BY <1>12 DEF RateLimited, Still, time, durable, try, history
  <2> QED
    BY <2>1
<1>13. CASE BackOff \/ BackedOff
  <2>1. Still /\ pc \in {"retry", "backoff"} /\ pc' \in {"backoff", "anchorMinute"} /\ sentAt' = sentAt /\ pending' = pending
    BY <1>13 DEF BackOff, BackedOff, Sleep, Finish, Still, time, durable, try, history
  <2> QED
    BY <2>1
<1>14. CASE RetryFails
  <2>1. Still /\ pc \in {"coolMinute", "coolSpacing", "retry", "backoff"} /\ pc' = "anchorMinute" /\ sentAt' = sentAt /\ pending' = pending
    BY <1>14 DEF RetryFails, Finish, Still, time, durable, try, history
  <2> QED
    BY <2>1
<1>15. CASE Clear
  <2>1. Still /\ pc = "clear" /\ pc' \in {"ready", "probe"} /\ pending' = {}
    BY <1>15 DEF Clear, TypeInv, Still, time, durable, try, history
  <2> QED
    BY <2>1
<1>16. CASE AnchorFails
  <2>1. Still /\ pc' = "ready" /\ pc \in {"anchorMinute", "anchorSpacing", "clear"} /\ pending' = pending
    BY <1>16 DEF AnchorFails, Abort, Still, time, durable, try, history
  <2> QED
    BY <2>1
<1>17. CASE Crash
  <2>1. Still /\ pc' = "idle" /\ pending' = pending
    BY <1>17 DEF Crash, Still, time, durable, try, history
  <2> QED
    BY <2>1
<1> QED
  BY <1>1, <1>2, <1>3, <1>4, <1>5, <1>6, <1>7, <1>8, <1>9, <1>10,
     <1>11, <1>12, <1>13, <1>14, <1>15, <1>16, <1>17

LEMMA ConstructStep ==
  ASSUME SpacingInv, NEW c \in Client, Construct(c)
  PROVE  SpacingInv'
<1>1. UNCHANGED <<minute, spacing, sends, real, wall, pc, pending, until, sentAt, reservedAt>>
  BY DEF Construct, time, durable, try, history
<1> QED
  BY <1>1 DEF SpacingInv, CoverInv, ProbedInv, RecoveryInv, SentInv,
              MinuteAhead, SpacingAhead, MinuteDue, SpacingDue

(* A recovery's cooldown is long enough for the requests there were when it *)
(* was computed.                                                            *)
LEMMA RecoverStep ==
  ASSUME TypeInv, SpacingInv, Recover
  PROVE  SpacingInv'
<1>1. /\ Still /\ pc = "recover" /\ pending' = pending
      /\ \/ pending = {} /\ pc' = "ready"
         \/ pc' = "deferMinute" /\ until' = wall + Cooldown
  BY DEF Recover, Still, time, durable, try, history
<1>2. CoverKept /\ ProbedKept /\ SentKept
  BY <1>1 DEF CoverKept, ProbedKept, SentKept, Answering,
              MinuteAhead, SpacingAhead, MinuteDue, SpacingDue
<1>3. CoverInv' /\ ProbedInv' /\ SentInv'
  <2>1. CoverInv'
    BY <1>1, <1>2, CoverStays DEF SpacingInv
  <2>2. ProbedInv' /\ SentInv'
    BY <1>1, <1>2 DEF SpacingInv, ProbedInv, ProbedKept, SentInv, SentKept, Still
  <2> QED
    BY <2>1, <2>2
<1>4. RecoveryInv'
  <2> SUFFICES ASSUME pc' = "deferMinute", NEW i \in DOMAIN sends
               PROVE  until' - wall >= sends[i] + Cooldown - real
    BY <1>1 DEF RecoveryInv, Still
  <2>1. sends[i] <= real /\ sends[i] \in Int
    BY DEF SpacingInv, CoverInv, Past
  <2>2. until' = wall + Cooldown /\ wall \in Int /\ real \in Int /\ Cooldown \in Int
    BY <1>1, ClientAssumption DEF TypeInv
  <2> QED
    BY <2>1, <2>2
<1> QED
  BY <1>3, <1>4 DEF SpacingInv

(* The probe found no delay in either budget. *)
LEMMA AllowedStep ==
  ASSUME TypeInv, OwnerInv, PendingInv, SpacingInv, Allowed
  PROVE  SpacingInv'
<1>1. /\ Still /\ pc = "probe" /\ pc' = "reserveMinute" /\ pending = {} /\ pending' = {}
      /\ reservedAt' = wall /\ TotalDelay = 0
  BY DEF Allowed, Still, PendingInv, Unsent, time, durable, try, history
<1>2. CoverKept /\ RecoveryKept /\ SentKept
  BY <1>1 DEF CoverKept, RecoveryKept, SentKept, Answering,
              MinuteAhead, SpacingAhead, MinuteDue, SpacingDue
<1>3. CoverInv'
  BY <1>1, <1>2, CoverStays DEF SpacingInv
<1>4. Delay(minute, MinutePolicy, wall) = 0 /\ Delay(spacing, SpacingPolicy, wall) = 0
  <2>1. Delay(minute, MinutePolicy, wall) \in Nat /\ Delay(spacing, SpacingPolicy, wall) \in Nat
    BY ClientAssumption, DelayRespectsCooldown DEF TypeInv
  <2>2. LocalDelay \in Int
    BY <1>1, ClientAssumption DEF LocalDelay, Larger, TypeInv, OwnerInv, Policy
  <2> QED
    BY <1>1, <2>1, <2>2 DEF TotalDelay, Larger
<1>5. ProbedInv'
  <2>1. One(MinuteAhead) = 0 /\ One(SpacingAhead) = 0 /\ One(MinuteDue) = 0 /\ One(SpacingDue) = 0
    BY <1>1 DEF One, MinuteAhead, SpacingAhead, MinuteDue, SpacingDue
  <2>2. /\ CoversAll(minute, MinutePolicy, sends, 0, 0, real, wall)
        /\ CoversAll(spacing, SpacingPolicy, sends, 0, 0, real, wall)
    BY <2>1 DEF SpacingInv, CoverInv
  <2> QED
    BY <1>1, <1>4, <2>2 DEF ProbedInv, Still
<1>6. RecoveryInv' /\ SentInv'
  BY <1>1, <1>2 DEF SpacingInv, RecoveryInv, SentInv, RecoveryKept, SentKept, Still
<1> QED
  BY <1>3, <1>5, <1>6 DEF SpacingInv

(* The two reservations. *)
LEMMA ReserveMinuteStep ==
  ASSUME TypeInv, PendingInv, ReservedInv, SpacingInv, ReserveMinute
  PROVE  SpacingInv'
<1>1. /\ UNCHANGED <<spacing, sends, real, wall, reservedAt>> /\ minute' = Reserved(minute, MinutePolicy, reservedAt)
      /\ pc = "reserveMinute" /\ pc' = "reserveSpacing" /\ pending = {} /\ pending' = {}
  BY DEF ReserveMinute, PendingInv, Unsent, time, durable, try, history
<1>2. /\ ~ MinuteAhead /\ ~ MinuteDue /\ ~ SpacingAhead /\ ~ SpacingDue
      /\ MinuteAhead' /\ ~ MinuteDue' /\ ~ SpacingAhead' /\ ~ SpacingDue'
  BY <1>1 DEF MinuteAhead, MinuteDue, SpacingAhead, SpacingDue
<1>3. /\ CoversAll(minute, MinutePolicy, sends, 0, 0, real, wall)
      /\ CoversAll(minute, MinutePolicy, sends, 0, 0, real, reservedAt)
      /\ Delay(minute, MinutePolicy, reservedAt) = 0
      /\ ~ ClockWentBack(minute, MinutePolicy, reservedAt)
      /\ Ordered(minute)
  BY <1>1, <1>2 DEF SpacingInv, CoverInv, ProbedInv, ReservedInv, One
<1>4. /\ Ordered(minute') /\ Free(MinutePolicy, sends, real)
      /\ CoversAll(minute', MinutePolicy, sends, 1, 0, real, wall)
  BY <1>1, <1>3, ClientAssumption, ReservedCovers DEF TypeInv, SpacingInv, CoverInv
<1>5. CoverInv'
  BY <1>1, <1>2, <1>4 DEF SpacingInv, CoverInv, One
<1>6. ProbedInv' /\ RecoveryInv' /\ SentInv'
  BY <1>1, <1>4 DEF SpacingInv, ProbedInv, RecoveryInv, SentInv, Answering
<1> QED
  BY <1>5, <1>6 DEF SpacingInv

LEMMA ReserveSpacingStep ==
  ASSUME TypeInv, PendingInv, ReservedInv, SpacingInv, ReserveSpacing
  PROVE  SpacingInv'
<1>1. /\ UNCHANGED <<minute, sends, real, wall, reservedAt>> /\ spacing' = Reserved(spacing, SpacingPolicy, reservedAt)
      /\ pc = "reserveSpacing" /\ pc' = "begin" /\ pending = {} /\ pending' = {}
  BY DEF ReserveSpacing, PendingInv, Unsent, time, durable, try, history
<1>2. /\ MinuteAhead /\ ~ MinuteDue /\ ~ SpacingAhead /\ ~ SpacingDue
      /\ MinuteAhead' /\ ~ MinuteDue' /\ SpacingAhead' /\ ~ SpacingDue'
  BY <1>1 DEF MinuteAhead, MinuteDue, SpacingAhead, SpacingDue
<1>3. /\ CoversAll(spacing, SpacingPolicy, sends, 0, 0, real, wall)
      /\ CoversAll(spacing, SpacingPolicy, sends, 0, 0, real, reservedAt)
      /\ Delay(spacing, SpacingPolicy, reservedAt) = 0
      /\ ~ ClockWentBack(spacing, SpacingPolicy, reservedAt)
      /\ Ordered(spacing)
  BY <1>1, <1>2 DEF SpacingInv, CoverInv, ProbedInv, ReservedInv, One
<1>4. /\ Ordered(spacing') /\ Free(SpacingPolicy, sends, real)
      /\ CoversAll(spacing', SpacingPolicy, sends, 1, 0, real, wall)
  BY <1>1, <1>3, ClientAssumption, ReservedCovers DEF TypeInv, SpacingInv, CoverInv
<1>5. CoverInv'
  BY <1>1, <1>2, <1>4 DEF SpacingInv, CoverInv, One
<1>6. ProbedInv' /\ RecoveryInv' /\ SentInv'
  BY <1>1, <1>4 DEF SpacingInv, ProbedInv, RecoveryInv, SentInv, Answering
<1> QED
  BY <1>5, <1>6 DEF SpacingInv

(* The request leaves, later than it was reserved. *)
LEMMA SendStep ==
  ASSUME TypeInv, PendingInv, SpacingInv, Send
  PROVE  SpacingInv'
<1>1. /\ UNCHANGED <<minute, spacing, real, wall, pending>> /\ sends' = Append(sends, real) /\ sentAt' = wall
      /\ pc = "send" /\ pc' = "answer" /\ pending # {}
  BY DEF Send, PendingInv, Sent, time, durable, try, history
<1>2. /\ MinuteAhead /\ ~ MinuteDue /\ SpacingAhead /\ ~ SpacingDue
      /\ ~ MinuteAhead' /\ MinuteDue' /\ ~ SpacingAhead' /\ SpacingDue'
  BY <1>1 DEF MinuteAhead, MinuteDue, SpacingAhead, SpacingDue
<1>3. /\ CoversAll(minute, MinutePolicy, sends, 1, 0, real, wall)
      /\ CoversAll(spacing, SpacingPolicy, sends, 1, 0, real, wall)
      /\ Free(MinutePolicy, sends, real) /\ Free(SpacingPolicy, sends, real)
      /\ Past(sends, real) /\ sends \in Seq(Int)
      /\ Spaced(MinutePolicy, sends) /\ Spaced(SpacingPolicy, sends)
  BY <1>1, <1>2 DEF SpacingInv, CoverInv, SentInv, One
<1>4. /\ sends' \in Seq(Int) /\ Past(sends', real) /\ Spaced(MinutePolicy, sends')
      /\ CoversAll(minute, MinutePolicy, sends', 0, 1, real, wall)
  BY <1>1, <1>3, ClientAssumption, SentCovers DEF TypeInv
<1>5. /\ Spaced(SpacingPolicy, sends')
      /\ CoversAll(spacing, SpacingPolicy, sends', 0, 1, real, wall)
  BY <1>1, <1>3, ClientAssumption, SentCovers DEF TypeInv
<1>6. CoverInv'
  BY <1>1, <1>2, <1>4, <1>5 DEF SpacingInv, CoverInv, One
<1>7. sends' # <<>> /\ sends'[Len(sends')] = real
  <2>1. real \in Int
    BY DEF TypeInv
  <2> QED
    BY <1>1, <1>3, <2>1, OneMore
<1>8. ProbedInv' /\ RecoveryInv'
  BY <1>1 DEF ProbedInv, RecoveryInv
<1>9. SentInv'
  <2>1. sentAt' - wall >= sends'[Len(sends')] - real
    BY <1>1, <1>7 DEF TypeInv
  <2> QED
    BY <1>1, <1>4, <1>5, <1>7, <2>1 DEF SentInv
<1> QED
  BY <1>6, <1>8, <1>9 DEF SpacingInv

(* A cooldown written to one budget: a recovery's makes up for an           *)
(* unanchored request, a provider's need not.                               *)
LEMMA MinuteDeferredStep ==
  ASSUME TypeInv, SpacingInv, DeferMinute \/ CoolMinute
  PROVE  SpacingInv'
<1>1. /\ UNCHANGED <<spacing, sends, real, wall, until, sentAt, pending>>
      /\ minute' = Deferred(minute, until)
      /\ \/ pc = "deferMinute" /\ pc' = "deferSpacing"
         \/ pc = "coolMinute" /\ pc' = "coolSpacing"
  BY DEF DeferMinute, CoolMinute, time, durable, try, history
<1>2. /\ ~ MinuteAhead /\ ~ MinuteAhead' /\ ~ SpacingAhead /\ ~ SpacingAhead'
      /\ SpacingDue' = SpacingDue
      /\ pc = "coolMinute" => MinuteDue' = MinuteDue
      /\ pc = "deferMinute" => ~ MinuteDue'
  BY <1>1 DEF MinuteAhead, MinuteDue, SpacingAhead, SpacingDue
<1>3. One(MinuteDue) \in Nat /\ One(MinuteAhead) = 0 /\ One(MinuteAhead') = 0
  BY <1>2 DEF One
<1>4. /\ Ordered(minute')
      /\ CoversAll(minute', MinutePolicy, sends, 0, One(MinuteDue), real, wall)
      /\ pc = "deferMinute" => CoversAll(minute', MinutePolicy, sends, 0, 0, real, wall)
  <2>1. /\ Ordered(minute) /\ CoversAll(minute, MinutePolicy, sends, 0, One(MinuteDue), real, wall)
        /\ sends \in Seq(Int) /\ minute \in Budget /\ MinutePolicy \in Policy
        /\ real \in Int /\ wall \in Int /\ until \in Int
    BY <1>3, ClientAssumption DEF SpacingInv, CoverInv, TypeInv
  <2>2. ASSUME pc = "deferMinute", NEW i \in DOMAIN sends
        PROVE  until - wall >= sends[i] + MinutePolicy.interval - real
    <3>1. until - wall >= sends[i] + Cooldown - real
      BY <2>2 DEF SpacingInv, RecoveryInv
    <3>2. MinutePolicy.interval \in Int /\ Cooldown \in Int /\ Cooldown >= MinutePolicy.interval
      BY ClientAssumption DEF Policy
    <3>3. sends[i] \in Int
      BY <2>1
    <3> QED
      BY <2>1, <3>1, <3>2, <3>3
  <2> QED
    BY <1>1, <1>3, <2>1, <2>2, DeferredCovers
<1>5. CoverInv'
  <2>1. CoversAll(minute', MinutePolicy, sends, One(MinuteAhead'), One(MinuteDue'), real, wall)
    BY <1>1, <1>2, <1>3, <1>4 DEF One
  <2>2. CoversAll(spacing, SpacingPolicy, sends, One(SpacingAhead'), One(SpacingDue'), real, wall)
    BY <1>2 DEF SpacingInv, CoverInv, One
  <2> QED
    BY <1>1, <1>4, <2>1, <2>2 DEF SpacingInv, CoverInv
<1>6. ProbedInv' /\ RecoveryInv' /\ SentInv'
  BY <1>1 DEF SpacingInv, ProbedInv, RecoveryInv, SentInv, Answering
<1> QED
  BY <1>5, <1>6 DEF SpacingInv

LEMMA SpacingDeferredStep ==
  ASSUME TypeInv, SpacingInv, DeferSpacing \/ CoolSpacing
  PROVE  SpacingInv'
<1>1. /\ UNCHANGED <<minute, sends, real, wall, until, sentAt, pending>>
      /\ spacing' = Deferred(spacing, until)
      /\ \/ pc = "deferSpacing" /\ pc' = "forget"
         \/ pc = "coolSpacing" /\ pc' = "retry"
  BY DEF DeferSpacing, CoolSpacing, time, durable, try, history
<1>2. /\ ~ MinuteAhead /\ ~ MinuteAhead' /\ ~ SpacingAhead /\ ~ SpacingAhead'
      /\ MinuteDue' = MinuteDue
      /\ pc = "coolSpacing" => SpacingDue' = SpacingDue
      /\ pc = "deferSpacing" => ~ SpacingDue'
  BY <1>1 DEF MinuteAhead, MinuteDue, SpacingAhead, SpacingDue
<1>3. One(SpacingDue) \in Nat /\ One(SpacingAhead) = 0 /\ One(SpacingAhead') = 0
  BY <1>2 DEF One
<1>4. /\ Ordered(spacing')
      /\ CoversAll(spacing', SpacingPolicy, sends, 0, One(SpacingDue), real, wall)
      /\ pc = "deferSpacing" => CoversAll(spacing', SpacingPolicy, sends, 0, 0, real, wall)
  <2>1. /\ Ordered(spacing) /\ CoversAll(spacing, SpacingPolicy, sends, 0, One(SpacingDue), real, wall)
        /\ sends \in Seq(Int) /\ spacing \in Budget /\ SpacingPolicy \in Policy
        /\ real \in Int /\ wall \in Int /\ until \in Int
    BY <1>3, ClientAssumption DEF SpacingInv, CoverInv, TypeInv
  <2>2. ASSUME pc = "deferSpacing", NEW i \in DOMAIN sends
        PROVE  until - wall >= sends[i] + SpacingPolicy.interval - real
    <3>1. until - wall >= sends[i] + Cooldown - real
      BY <2>2 DEF SpacingInv, RecoveryInv
    <3>2. SpacingPolicy.interval \in Int /\ Cooldown \in Int /\ Cooldown >= SpacingPolicy.interval
      BY ClientAssumption DEF Policy
    <3>3. sends[i] \in Int
      BY <2>1
    <3> QED
      BY <2>1, <3>1, <3>2, <3>3
  <2> QED
    BY <1>1, <1>3, <2>1, <2>2, DeferredCovers
<1>5. CoverInv'
  <2>1. CoversAll(spacing', SpacingPolicy, sends, One(SpacingAhead'), One(SpacingDue'), real, wall)
    BY <1>1, <1>2, <1>3, <1>4 DEF One
  <2>2. CoversAll(minute, MinutePolicy, sends, One(MinuteAhead'), One(MinuteDue'), real, wall)
    BY <1>2 DEF SpacingInv, CoverInv, One
  <2> QED
    BY <1>1, <1>4, <2>1, <2>2 DEF SpacingInv, CoverInv
<1>6. ProbedInv' /\ RecoveryInv' /\ SentInv'
  BY <1>1 DEF SpacingInv, ProbedInv, RecoveryInv, SentInv, Answering
<1> QED
  BY <1>5, <1>6 DEF SpacingInv

(* The reservation becomes the time of the send, in one budget. *)
LEMMA AnchorMinuteStep ==
  ASSUME TypeInv, PendingInv, ReservedInv, SpacingInv, AnchorMinute
  PROVE  SpacingInv'
<1>1. /\ UNCHANGED <<spacing, sends, real, wall, sentAt, pending>> /\ minute' = Anchored(minute)
      /\ pc = "anchorMinute" /\ pc' = "anchorSpacing" /\ pending # {}
      /\ Anchorable(minute, MinutePolicy)
  BY DEF AnchorMinute, Anchorable, time, durable, try, history
<1>2. /\ ~ MinuteAhead /\ MinuteDue /\ ~ SpacingAhead /\ SpacingDue
      /\ ~ MinuteAhead' /\ ~ MinuteDue' /\ ~ SpacingAhead' /\ SpacingDue'
  BY <1>1 DEF MinuteAhead, MinuteDue, SpacingAhead, SpacingDue
<1>3. /\ CoversAll(minute, MinutePolicy, sends, 0, 1, real, wall)
      /\ Ordered(minute) /\ sends \in Seq(Int) /\ sends # <<>>
      /\ sentAt - wall >= sends[Len(sends)] - real
  BY <1>1, <1>2 DEF SpacingInv, CoverInv, SentInv, Answering, One
<1>4. minute.stamps # <<>> /\ minute.stamps[Len(minute.stamps)] <= sentAt
  BY <1>1 DEF Anchorable, TypeInv
<1>5. minute' \in Budget
  BY <1>1, ClientAssumption, AnchoredProperties DEF TypeInv, ReservedInv
<1>6. Ordered(minute') /\ CoversAll(minute', MinutePolicy, sends, 0, 0, real, wall)
  <2>1. /\ minute \in Budget /\ MinutePolicy \in Policy /\ sentAt \in Int /\ real \in Int /\ wall \in Int
        /\ minute' = [minute EXCEPT !.stamps[Len(minute.stamps)] = sentAt]
    BY <1>1, ClientAssumption DEF TypeInv, Anchored
  <2> QED
    BY <1>3, <1>4, <1>5, <2>1, AnchoredCovers
<1>7. CoverInv'
  BY <1>1, <1>2, <1>6 DEF SpacingInv, CoverInv, One
<1>8. ProbedInv' /\ RecoveryInv' /\ SentInv'
  BY <1>1 DEF SpacingInv, ProbedInv, RecoveryInv, SentInv, Answering
<1> QED
  BY <1>7, <1>8 DEF SpacingInv

LEMMA AnchorSpacingStep ==
  ASSUME TypeInv, PendingInv, ReservedInv, SpacingInv, AnchorSpacing
  PROVE  SpacingInv'
<1>1. /\ UNCHANGED <<minute, sends, real, wall, sentAt, pending>> /\ spacing' = Anchored(spacing)
      /\ pc = "anchorSpacing" /\ pc' = "clear" /\ pending # {}
      /\ Anchorable(spacing, SpacingPolicy)
  BY DEF AnchorSpacing, Anchorable, time, durable, try, history
<1>2. /\ ~ MinuteAhead /\ ~ MinuteDue /\ ~ SpacingAhead /\ SpacingDue
      /\ ~ MinuteAhead' /\ ~ MinuteDue' /\ ~ SpacingAhead' /\ ~ SpacingDue'
  BY <1>1 DEF MinuteAhead, MinuteDue, SpacingAhead, SpacingDue
<1>3. /\ CoversAll(spacing, SpacingPolicy, sends, 0, 1, real, wall)
      /\ Ordered(spacing) /\ sends \in Seq(Int) /\ sends # <<>>
      /\ sentAt - wall >= sends[Len(sends)] - real
  BY <1>1, <1>2 DEF SpacingInv, CoverInv, SentInv, Answering, One
<1>4. spacing.stamps # <<>> /\ spacing.stamps[Len(spacing.stamps)] <= sentAt
  BY <1>1 DEF Anchorable, TypeInv
<1>5. spacing' \in Budget
  BY <1>1, ClientAssumption, AnchoredProperties DEF TypeInv, ReservedInv
<1>6. Ordered(spacing') /\ CoversAll(spacing', SpacingPolicy, sends, 0, 0, real, wall)
  <2>1. /\ spacing \in Budget /\ SpacingPolicy \in Policy /\ sentAt \in Int /\ real \in Int /\ wall \in Int
        /\ spacing' = [spacing EXCEPT !.stamps[Len(spacing.stamps)] = sentAt]
    BY <1>1, ClientAssumption DEF TypeInv, Anchored
  <2> QED
    BY <1>3, <1>4, <1>5, <2>1, AnchoredCovers
<1>7. CoverInv'
  BY <1>1, <1>2, <1>6 DEF SpacingInv, CoverInv, One
<1>8. ProbedInv' /\ RecoveryInv' /\ SentInv'
  BY <1>1 DEF SpacingInv, ProbedInv, RecoveryInv, SentInv, Answering
<1> QED
  BY <1>7, <1>8 DEF SpacingInv

(* Time passes, or the wall clock is set back: what is covered stays so,    *)
(* with respect to the clock and to the time of a probe.                    *)
LEMMA TimeStep ==
  ASSUME TypeInv, SpacingInv, Tick \/ SetBack
  PROVE  SpacingInv'
<1>1. /\ UNCHANGED <<minute, spacing, sends, pc, pending, reservedAt, sentAt, until>>
      /\ real' \in Int /\ wall' \in Int /\ real' >= real /\ real' - real >= wall' - wall
  BY DEF Tick, SetBack, TypeInv, time, durable, try, history
<1>2. /\ real \in Int /\ wall \in Int /\ reservedAt \in Int /\ sentAt \in Int /\ until \in Int
      /\ minute \in Budget /\ spacing \in Budget /\ sends \in Seq(Int)
      /\ MinutePolicy \in Policy /\ SpacingPolicy \in Policy /\ Cooldown \in Int
  BY ClientAssumption DEF TypeInv, SpacingInv, CoverInv
<1>3. \A i \in DOMAIN sends : sends[i] \in Int
  BY <1>2
<1>4. CoverInv'
  <2>1. One(MinuteAhead) \in Nat /\ One(MinuteDue) \in Nat /\ One(SpacingAhead) \in Nat /\ One(SpacingDue) \in Nat
    BY DEF One
  <2>2. CoversAll(minute, MinutePolicy, sends, One(MinuteAhead), One(MinuteDue), real', wall')
    BY <1>1, <1>2, <2>1, CoversAllLater DEF SpacingInv, CoverInv
  <2>3. CoversAll(spacing, SpacingPolicy, sends, One(SpacingAhead), One(SpacingDue), real', wall')
    BY <1>1, <1>2, <2>1, CoversAllLater DEF SpacingInv, CoverInv
  <2>4. Past(sends, real')
    BY <1>1, <1>2, <1>3 DEF SpacingInv, CoverInv, Past
  <2>5. (MinuteAhead' = MinuteAhead) /\ (MinuteDue' = MinuteDue)
        /\ (SpacingAhead' = SpacingAhead) /\ (SpacingDue' = SpacingDue)
    BY <1>1 DEF MinuteAhead, MinuteDue, SpacingAhead, SpacingDue
  <2> QED
    BY <1>1, <2>2, <2>3, <2>4, <2>5 DEF SpacingInv, CoverInv
<1>5. ProbedInv'
  <2>1. pc = "reserveMinute" => CoversAll(minute, MinutePolicy, sends, 0, 0, real', reservedAt)
    BY <1>1, <1>2, CoversAllLater DEF SpacingInv, ProbedInv
  <2>2. pc \in {"reserveMinute", "reserveSpacing"} =>
           CoversAll(spacing, SpacingPolicy, sends, 0, 0, real', reservedAt)
    BY <1>1, <1>2, CoversAllLater DEF SpacingInv, ProbedInv
  <2> QED
    BY <1>1, <2>1, <2>2 DEF SpacingInv, ProbedInv
<1>6. RecoveryInv'
  <2> SUFFICES ASSUME pc \in {"deferMinute", "deferSpacing"}, NEW i \in DOMAIN sends
               PROVE  until - wall' >= sends[i] + Cooldown - real'
    BY <1>1 DEF RecoveryInv
  <2> DEFINE due == sends[i] + Cooldown
  <2>1. due \in Int /\ sends[i] \in Int
    BY <1>2, <1>3
  <2>2. until - wall >= due - real
    <3>1. until - wall >= sends[i] + Cooldown - real
      BY DEF SpacingInv, RecoveryInv
    <3> QED
      BY <1>2, <2>1, <3>1
  <2> HIDE DEF due
  <2>3. until - wall' >= due - real'
    BY <1>1, <1>2, <2>2, <2>1, ClockNeverAhead
  <2> QED
    BY <1>1, <1>2, <2>1, <2>3 DEF due
<1>7. SentInv'
  <2>1. ASSUME NEW p \in Policy, Free(p, sends, real)
        PROVE  Free(p, sends, real')
    <3> SUFFICES ASSUME NEW i \in 1..(Len(sends) - p.limit + 1)
                 PROVE  sends[i] + p.interval <= real'
      BY DEF Free
    <3>1. sends[i] + p.interval <= real
      BY <2>1 DEF Free
    <3>2. p.limit \in Nat /\ p.limit >= 1 /\ p.interval \in Nat
      BY PolicyFields
    <3>3. i \in DOMAIN sends
      BY <1>2, <3>2
    <3> QED
      BY <1>1, <1>2, <1>3, <3>1, <3>2, <3>3
  <2>2. pc \in Answering => sentAt - wall' >= sends[Len(sends)] - real'
    <3>1. ASSUME pc \in Answering PROVE sentAt - wall' >= sends[Len(sends)] - real'
      <4>1. sends # <<>> /\ sentAt - wall >= sends[Len(sends)] - real
        BY <3>1 DEF SpacingInv, SentInv
      <4>2. sends[Len(sends)] \in Int
        BY <1>2, <4>1
      <4> QED
        BY <1>1, <1>2, <4>1, <4>2, ClockNeverAhead
    <3> QED
      BY <3>1
  <2> QED
    BY <1>1, <1>2, <2>1, <2>2 DEF SpacingInv, SentInv
<1> QED
  BY <1>4, <1>5, <1>6, <1>7 DEF SpacingInv

LEMMA NextSpacing ==
  ASSUME Inv, SpacingInv, [Next]_vars
  PROVE  SpacingInv'
<1>1. CASE UNCHANGED vars
  BY <1>1 DEF vars, time, durable, try, history, SpacingInv, CoverInv, ProbedInv, RecoveryInv, SentInv,
              MinuteAhead, SpacingAhead, MinuteDue, SpacingDue
<1> QED
  BY <1>1, StillSteps, ConstructStep, RecoverStep, AllowedStep, ReserveMinuteStep, ReserveSpacingStep,
     SendStep, MinuteDeferredStep, SpacingDeferredStep, AnchorMinuteStep, AnchorSpacingStep, TimeStep
     DEF Inv, Next

LEMMA InitSpacing ==
  ASSUME Init
  PROVE  SpacingInv
<1>1. Len(sends) = 0 /\ sends = <<>> /\ sends \in Seq(Int) /\ \A i : i \notin DOMAIN sends
  BY DEF Init
<1>2. minute.stamps = <<>> /\ spacing.stamps = <<>>
  BY DEF Init, Unused
<1>3. \A p \in Policy : p.limit \in Nat /\ p.limit >= 1
  BY PolicyFields
<1>4. /\ \A left \in {0, 1} : \A i \in Int : i \notin 1..(Len(sends) - left)
      /\ \A p \in Policy : \A i \in Int : i \notin 1..(Len(sends) - p.limit)
  BY <1>1, <1>3
<1>5. CoverInv
  BY <1>1, <1>2, <1>4 DEF CoverInv, Past, Ordered, CoversAll, One
<1>6. ProbedInv /\ RecoveryInv
  BY DEF Init, ProbedInv, RecoveryInv
<1>7. SentInv
  BY <1>4, ClientAssumption DEF Init, SentInv, Spaced, Answering
<1> QED
  BY <1>5, <1>6, <1>7 DEF SpacingInv

(* "A crash may waste a slot but cannot gain one": on the real clock no     *)
(* interval of either policy holds more requests than its limit, and        *)
(* persisted cooldowns are honoured, whatever crashes, restarts, failed     *)
(* writes and clock changes come in between.                                *)
THEOREM BudgetsAreKept == Spec => []WithinBudget
<1>1. Init => Inv /\ SpacingInv
  BY InitInv, InitSpacing
<1>2. Inv /\ SpacingInv /\ [Next]_vars => Inv' /\ SpacingInv'
  BY NextType, NextOwner, NextPending, NextReserved, NextQuiet, NextSpacing DEF Inv
<1>3. Inv /\ SpacingInv => WithinBudget
  <2>1. SpacingInv => RequestsSpaced
    BY DEF SpacingInv, SentInv, Spaced, RequestsSpaced
  <2>2. Inv => Heeded
    BY DEF Inv, OwnerInv, QuietInv, Leaving, Heeded
  <2> QED
    BY <2>1, <2>2 DEF WithinBudget
<1> QED
  BY <1>1, <1>2, <1>3, PTL DEF Spec

-----------------------------------------------------------------------------
(* HourlyBudget. *)

HourlySpec == HourlyInit /\ [][HourlyNext]_hourlyVars

HourlyType ==
    /\ elapsed \in Int /\ clock \in Int /\ reserved \in Int /\ sent \in Int
    /\ base \in Budget /\ (hour # NoFile => hour \in Budget)
    /\ baseTouched \subseteq Int /\ underway \subseteq Int /\ intent \subseteq Int
    /\ hourSends \in Seq(Int) /\ studySends \in Seq(Int)
    /\ Past(hourSends, elapsed) /\ Past(studySends, elapsed)

(* Where an intent may be on disk. *)
IntentInv ==
    /\ stage \in {"ready", "begin", "intend"} => intent = {}
    /\ stage \in {"pend", "send", "anchor", "anchorBase", "clearIntent"} => intent = {reserved}
    /\ stage \notin {"off", "recover"} => hour # NoFile

(* Before there is an hourly history, the study's client has been alone, and *)
(* the youngest of what it left is as young as the last of its requests.     *)
FirstInv ==
    hour = NoFile =>
        /\ hourSends = <<>> /\ underway = {} /\ intent = {}
        /\ base.stamps = <<>> => baseTouched = {} /\ studySends = <<>>
        /\ base.stamps # <<>> => baseTouched = {base.stamps[Len(base.stamps)]}
        /\ Ordered(base)
        /\ \A j \in DOMAIN studySends : \E t \in baseTouched : t - clock >= studySends[j] - elapsed

(* A timestamp more than requests; a request without one. *)
HourAhead == stage \in {"intend", "pend", "send"}
HourDue == stage = "anchor" \/ (stage \in {"off", "recover", "check", "defer"} /\ intent # {})

StudyCovered(c) ==
    \A j \in DOMAIN studySends : Covers(hour, HourPolicy, studySends[j], 0, elapsed, c)

HourCover ==
    hour # NoFile =>
        /\ Ordered(hour)
        /\ CoversAll(hour, HourPolicy, hourSends, One(HourAhead), One(HourDue), elapsed, clock)
        /\ StudyCovered(clock)

(* The delay of the hour is computed with the time of the base's reservation, *)
(* which may be long ago, or not have come yet once the clock was set back.   *)
BeginInv ==
    stage = "begin" =>
        /\ CoversAll(hour, HourPolicy, hourSends, 0, 0, elapsed, reserved)
        /\ StudyCovered(reserved)

HourSentInv ==
    /\ HourAhead =>
         /\ Free(HourPolicy, hourSends, elapsed)
         /\ \A j \in DOMAIN studySends : studySends[j] + HourPolicy.interval <= elapsed
    /\ stage = "anchor" => hourSends # <<>> /\ sent - clock >= hourSends[Len(hourSends)] - elapsed
    /\ HourKept

HourInv == HourlyType /\ IntentInv /\ FirstInv /\ HourCover /\ BeginInv /\ HourSentInv

HourStill == UNCHANGED <<elapsed, clock, hour, hourSends, studySends>>

(* Steps that leave the hourly history, the requests and the time alone, and *)
(* rely on no more than before.                                              *)
LEMMA HourStays ==
  ASSUME HourInv, HourStill, HourlyType', IntentInv',
         hour = NoFile => UNCHANGED <<base, baseTouched, underway, intent>>,
         HourAhead' => HourAhead, HourDue => HourDue', stage' \notin {"begin", "anchor"}
  PROVE  HourInv'
<1>1. FirstInv'
  BY DEF HourInv, FirstInv, HourStill
<1>2. HourCover'
  <2> SUFFICES ASSUME hour # NoFile
               PROVE  CoversAll(hour, HourPolicy, hourSends, One(HourAhead'), One(HourDue'), elapsed, clock)
    BY DEF HourInv, HourCover, StudyCovered, HourStill
  <2>1. /\ One(HourAhead) \in {0, 1} /\ One(HourDue) \in {0, 1}
        /\ One(HourAhead') \in {0, 1} /\ One(HourDue') \in {0, 1}
        /\ One(HourAhead') <= One(HourAhead) /\ One(HourDue') >= One(HourDue)
    BY DEF One
  <2> QED
    BY <2>1, HourAssumption, WeakerCover DEF HourInv, HourCover, HourlyType
<1>3. BeginInv' /\ HourSentInv'
  BY DEF HourInv, BeginInv, HourSentInv, HourStill, HourKept
<1> QED
  BY <1>1, <1>2, <1>3 DEF HourInv

LEMMA HourStillSteps ==
  ASSUME HourInv,
         \/ EnterHourly \/ CheckHour \/ RecoverBase \/ DropIntent \/ RefuseRecovery
         \/ Exhausted \/ Intend \/ Pend
         \/ AnchorRefused \/ AnchorBase \/ ClearIntent \/ LeaveHourly \/ Kill
  PROVE  HourInv'
<1> DEFINE Kept == /\ HourStill /\ HourlyType' /\ IntentInv'
                   /\ (hour = NoFile => UNCHANGED <<base, baseTouched, underway, intent>>)
                   /\ (HourAhead' => HourAhead) /\ (HourDue => HourDue')
                   /\ stage' \notin {"begin", "anchor"}
<1> SUFFICES Kept
  BY HourStays
<1> USE DEF IntentInv, HourAhead, HourDue, HourStill, HourlyType, HourInv, To, Keeps, hourClock, hourFiles
<1>1. CASE EnterHourly
  BY <1>1 DEF EnterHourly
<1>2. CASE CheckHour
  BY <1>2 DEF CheckHour
<1>3. CASE RecoverBase
  <2>1. base' \in Budget /\ baseTouched' \subseteq Int
    <3>1. clock + BasePolicy.interval \in Int
      BY HourAssumption, PolicyFields
    <3> QED
      BY <1>3, <3>1, DeferredProperties DEF RecoverBase
  <2> QED
    BY <1>3, <2>1 DEF RecoverBase
<1>4. CASE DropIntent
  BY <1>4 DEF DropIntent
<1>5. CASE RefuseRecovery
  BY <1>5 DEF RefuseRecovery
<1>6. CASE Exhausted
  BY <1>6 DEF Exhausted
<1>7. CASE Intend
  BY <1>7 DEF Intend
<1>8. CASE Pend
  BY <1>8 DEF Pend
<1>9. CASE AnchorRefused
  BY <1>9 DEF AnchorRefused
<1>10. CASE AnchorBase
  BY <1>10, MovedFields DEF AnchorBase
<1>11. CASE ClearIntent
  BY <1>11 DEF ClearIntent
<1>12. CASE LeaveHourly
  BY <1>12 DEF LeaveHourly
<1>13. CASE Kill
  BY <1>13 DEF Kill
<1> QED
  BY <1>1, <1>2, <1>3, <1>4, <1>5, <1>6, <1>7, <1>8, <1>9, <1>10, <1>11, <1>12, <1>13

(* A request of the study is covered by a cooldown alone. *)
LEMMA StudyCover ==
  ASSUME NEW b \in Budget, NEW x, NEW now, NEW c
  PROVE  Covers(b, HourPolicy, x, 0, now, c) <=>
            (x + HourPolicy.interval <= now \/ b.notBefore - c >= x + HourPolicy.interval - now)
<1>1. 0 \notin DOMAIN b.stamps
  BY BudgetFields
<1> QED
  BY <1>1 DEF Covers

(* The study's client makes a request, before there is an hourly history. *)
LEMMA StudyRequestStep ==
  ASSUME HourInv, StudyRequest
  PROVE  HourInv'
<1>1. /\ stage = "off" /\ stage' = "off" /\ hour = NoFile /\ hour' = NoFile
      /\ base' = Reserved(base, BasePolicy, clock) /\ baseTouched' = {clock}
      /\ studySends' = Append(studySends, elapsed)
      /\ ~ ClockWentBack(base, BasePolicy, clock) /\ Delay(base, BasePolicy, clock) = 0
      /\ UNCHANGED <<elapsed, clock, underway, intent, reserved, sent, hourSends>>
  BY DEF StudyRequest, hourClock
<1>2. /\ elapsed \in Int /\ clock \in Int /\ base \in Budget /\ studySends \in Seq(Int)
      /\ Past(studySends, elapsed) /\ Ordered(base) /\ hourSends = <<>> /\ BasePolicy \in Policy
  BY <1>1, HourAssumption DEF HourInv, HourlyType, FirstInv
<1>3. /\ base' \in Budget /\ base'.stamps # <<>> /\ base'.stamps[Len(base'.stamps)] = clock
  BY <1>1, <1>2, ReservedProperties
<1>4. Ordered(base')
  <2>1. <<>> \in Seq(Int) /\ Len(<<>>) = 0
    OBVIOUS
  <2>2. \A c : CoversAll(base, BasePolicy, <<>>, 0, 0, elapsed, c)
    BY DEF CoversAll
  <2> QED
    BY <1>1, <1>2, <2>1, <2>2, ReservedCovers
<1>5. studySends' \in Seq(Int) /\ Past(studySends', elapsed)
  BY <1>1, <1>2, PastMore
<1>6. HourlyType' /\ IntentInv'
  BY <1>1, <1>3, <1>5 DEF HourInv, HourlyType, IntentInv
<1>7. FirstInv'
  <2>1. ASSUME NEW j \in DOMAIN studySends'
        PROVE  clock - clock >= studySends'[j] - elapsed
    <3>1. studySends'[j] <= elapsed /\ studySends'[j] \in Int
      BY <1>5 DEF Past
    <3> QED
      BY <1>2, <3>1
  <2> QED
    BY <1>1, <1>3, <1>4, <2>1 DEF HourInv, FirstInv
<1>8. HourCover' /\ BeginInv'
  BY <1>1 DEF HourCover, BeginInv
<1>9. HourSentInv'
  <2>1. HourKept'
    BY <1>1, <1>2, HourAssumption, PolicyFields DEF HourKept
  <2> QED
    BY <1>1, <2>1 DEF HourSentInv, HourAhead
<1> QED
  BY <1>6, <1>7, <1>8, <1>9 DEF HourInv

(* The first hourly history is a cooldown of an hour from the youngest      *)
(* trace of a request.                                                      *)
LEMMA OpenHourStep ==
  ASSUME HourInv, OpenHour
  PROVE  HourInv'
<1>1. /\ stage = "recover" /\ stage' = "check"
      /\ UNCHANGED <<elapsed, clock, base, baseTouched, underway, intent, reserved, sent, hourSends, studySends>>
      /\ IF hour # NoFile THEN hour' = hour ELSE hour' = [Unused EXCEPT !.notBefore = FirstHistory]
  BY DEF OpenHour, To, Keeps, hourClock
<1>2. CASE hour # NoFile
  BY <1>1, <1>2, HourStays
     DEF HourInv, HourStill, HourlyType, IntentInv, HourAhead, HourDue
<1>3. CASE hour = NoFile
  <2>1. /\ underway = {} /\ intent = {} /\ hourSends = <<>> /\ Ordered(base) /\ base \in Budget
        /\ elapsed \in Int /\ clock \in Int /\ studySends \in Seq(Int) /\ baseTouched \subseteq Int
        /\ HourPolicy.interval \in Nat
    BY <1>3, HourAssumption, PolicyFields DEF HourInv, FirstInv, HourlyType
  <2>2. Known = {base.stamps[i] : i \in 1..Len(base.stamps)} \cup baseTouched
        /\ \A i \in 1..Len(base.stamps) : base.stamps[i] \in Int
    BY <2>1, BudgetFields DEF Known
  <2>3. /\ FirstHistory \in Int
        /\ \A j \in DOMAIN studySends :
              FirstHistory - clock >= studySends[j] + HourPolicy.interval - elapsed
    <3>1. CASE base.stamps = <<>>
      <4>1. Len(base.stamps) = 0 /\ baseTouched = {} /\ studySends = <<>>
        BY <1>3, <3>1 DEF HourInv, FirstInv
      <4>2. FirstHistory = 0
        BY <2>2, <4>1 DEF FirstHistory
      <4> QED
        BY <4>1, <4>2
    <3>2. CASE base.stamps # <<>>
      <4> DEFINE newest == base.stamps[Len(base.stamps)]
      <4>1. Len(base.stamps) \in 1..Len(base.stamps) /\ DOMAIN base.stamps = 1..Len(base.stamps)
        BY <2>1, <3>2, BudgetFields
      <4>2. newest \in Known /\ Known \subseteq Int /\ baseTouched \subseteq Known
        BY <2>1, <2>2, <4>1
      <4>3. \A u \in Known : u <= newest
        <5>1. \A i \in 1..Len(base.stamps) : base.stamps[i] <= newest
          BY <2>1, <4>1 DEF Ordered
        <5>2. baseTouched = {newest} /\ newest <= newest
          BY <1>3, <2>2, <3>2, <4>1 DEF HourInv, FirstInv
        <5> QED
          BY <2>2, <5>1, <5>2
      <4> HIDE DEF newest
      <4>4. Latest(Known) \in Known /\ \A u \in Known : u <= Latest(Known)
        BY <4>2, <4>3 DEF Latest
      <4>5. FirstHistory = Latest(Known) + HourPolicy.interval
        BY <4>2 DEF FirstHistory
      <4>6. ASSUME NEW j \in DOMAIN studySends
            PROVE  FirstHistory - clock >= studySends[j] + HourPolicy.interval - elapsed
        <5>1. PICK t \in baseTouched : t - clock >= studySends[j] - elapsed
          BY <1>3 DEF HourInv, FirstInv
        <5> DEFINE youngest == Latest(Known)
                   x == studySends[j]
                   interval == HourPolicy.interval
        <5>2. t \in Int /\ youngest \in Int /\ t <= youngest
          BY <2>1, <4>2, <4>4
        <5>3. x \in Int /\ interval \in Int /\ t - clock >= x - elapsed
          BY <2>1, <5>1
        <5>4. FirstHistory = youngest + interval /\ clock \in Int /\ elapsed \in Int
          BY <2>1, <4>5
        <5> HIDE DEF youngest, x, interval
        <5>5. FirstHistory - clock >= x + interval - elapsed
          BY ONLY <5>2, <5>3, <5>4
        <5> QED
          BY <5>5 DEF x, interval
      <4> QED
        BY <2>1, <4>2, <4>4, <4>5, <4>6
    <3> QED
      BY <3>1, <3>2
  <2>4. /\ hour' \in Budget /\ hour' # NoFile /\ hour'.stamps = <<>> /\ hour'.notBefore = FirstHistory
    <3>1. hour' = [stamps |-> <<>>, notBefore |-> FirstHistory]
      BY <1>1, <1>3 DEF Unused
    <3> HIDE DEF Latest
    <3>2. FirstHistory \in Int
      BY <2>3
    <3>3. [stamps |-> <<>>, notBefore |-> FirstHistory] \in Budget
      BY <3>2 DEF Budget
    <3> QED
      BY <3>1, <3>3, HourAssumption
  <2>5. HourlyType' /\ IntentInv'
    BY <1>1, <2>1, <2>4 DEF HourInv, HourlyType, IntentInv
  <2>6. FirstInv' /\ BeginInv'
    BY <1>1, <2>4 DEF FirstInv, BeginInv
  <2>7. HourCover'
    <3>1. Ordered(hour')
      BY <2>4 DEF Ordered
    <3>2. \A left \in {0, 1} : \A shift, now, c : CoversAll(hour', HourPolicy, <<>>, shift, left, now, c)
      BY DEF CoversAll
    <3>3. One(HourDue') \in {0, 1}
      BY DEF One
    <3>4. StudyCovered(clock)'
      BY <1>1, <2>3, <2>4, StudyCover DEF StudyCovered
    <3> QED
      BY <1>1, <2>1, <3>1, <3>2, <3>3, <3>4 DEF HourCover
  <2>8. HourSentInv'
    BY <1>1 DEF HourInv, HourSentInv, HourAhead, HourKept
  <2> QED
    BY <2>5, <2>6, <2>7, <2>8 DEF HourInv
<1> QED
  BY <1>2, <1>3

(* After an attempt of unknown end, an hour's pause. *)
LEMMA DeferHourStep ==
  ASSUME HourInv, DeferHour
  PROVE  HourInv'
<1>1. /\ stage = "defer" /\ stage' = "recoverBase" /\ hour' = Deferred(hour, clock + HourPolicy.interval)
      /\ UNCHANGED <<elapsed, clock, base, baseTouched, underway, intent, reserved, sent, hourSends, studySends>>
  BY DEF DeferHour, To, Keeps, hourClock
<1>2. /\ hour \in Budget /\ Ordered(hour) /\ elapsed \in Int /\ clock \in Int
      /\ hourSends \in Seq(Int) /\ studySends \in Seq(Int)
      /\ Past(hourSends, elapsed) /\ Past(studySends, elapsed)
      /\ HourPolicy \in Policy /\ HourPolicy.interval \in Nat
  BY <1>1, HourAssumption, PolicyFields DEF HourInv, HourlyType, IntentInv, HourCover
<1> DEFINE resumed == clock + HourPolicy.interval
<1>3. resumed \in Int
  BY <1>2
<1>4. ASSUME NEW x \in Int, x <= elapsed
      PROVE  resumed - clock >= x + HourPolicy.interval - elapsed
  BY <1>2, <1>4
<1> HIDE DEF resumed
<1>5. hour' \in Budget /\ hour'.notBefore >= resumed /\ hour'.notBefore \in Int /\ hour' # NoFile
  BY <1>1, <1>2, <1>3, DeferredProperties, BudgetFields, HourAssumption DEF resumed
<1>6. Ordered(hour') /\ CoversAll(hour', HourPolicy, hourSends, 0, 0, elapsed, clock)
  <2>1. \A i \in DOMAIN hourSends : resumed - clock >= hourSends[i] + HourPolicy.interval - elapsed
    BY <1>2, <1>4 DEF Past
  <2> QED
    BY <1>1, <1>2, <1>3, <2>1, DeferredCovers DEF resumed
<1>7. StudyCovered(clock)'
  <2> SUFFICES ASSUME NEW j \in DOMAIN studySends
               PROVE  hour'.notBefore - clock >= studySends[j] + HourPolicy.interval - elapsed
    BY <1>1 DEF StudyCovered, Covers
  <2>1. resumed - clock >= studySends[j] + HourPolicy.interval - elapsed /\ studySends[j] \in Int
    BY <1>2, <1>4 DEF Past
  <2>2. /\ studySends[j] + HourPolicy.interval - elapsed \in Int
        /\ hour'.notBefore \in Int /\ hour'.notBefore >= resumed /\ clock \in Int /\ resumed \in Int
    BY <1>2, <1>3, <1>5, <2>1
  <2> HIDE <1>2, <1>5
  <2> QED
    BY <2>1, <2>2
<1>8. HourCover'
  <2>1. ~ HourAhead' /\ ~ HourDue'
    BY <1>1 DEF HourAhead, HourDue
  <2> QED
    BY <1>1, <1>6, <1>7, <2>1 DEF HourCover, One
<1>9. HourlyType' /\ IntentInv' /\ FirstInv'
  BY <1>1, <1>5 DEF HourInv, HourlyType, IntentInv, FirstInv
<1>10. BeginInv' /\ HourSentInv'
  BY <1>1 DEF HourInv, BeginInv, HourSentInv, HourAhead, HourKept
<1> QED
  BY <1>8, <1>9, <1>10 DEF HourInv

(* The base's reservation fixes the time the hour is asked about. *)
LEMMA ReserveBaseStep ==
  ASSUME HourInv, ReserveBase
  PROVE  HourInv'
<1>1. /\ stage = "ready" /\ stage' = "begin" /\ reserved' = clock
      /\ base' = Reserved(base, BasePolicy, clock) /\ baseTouched' = {clock}
      /\ UNCHANGED <<elapsed, clock, hour, underway, intent, sent, hourSends, studySends>>
  BY DEF ReserveBase, To, hourClock
<1>2. ~ HourAhead /\ ~ HourDue /\ ~ HourAhead' /\ ~ HourDue' /\ hour # NoFile
  BY <1>1 DEF HourAhead, HourDue, HourInv, IntentInv
<1>3. base' \in Budget
  BY <1>1, HourAssumption, ReservedProperties DEF HourInv, HourlyType
<1>4. HourlyType' /\ IntentInv' /\ FirstInv'
  BY <1>1, <1>2, <1>3 DEF HourInv, HourlyType, IntentInv, FirstInv
<1>5. HourCover' /\ BeginInv'
  BY <1>1, <1>2 DEF HourInv, HourCover, BeginInv, StudyCovered, One
<1>6. HourSentInv'
  BY <1>1, <1>2 DEF HourInv, HourSentInv, HourKept
<1> QED
  BY <1>4, <1>5, <1>6 DEF HourInv

(* The hour's own reservation. *)
LEMMA ReserveHourStep ==
  ASSUME HourInv, ReserveHour
  PROVE  HourInv'
<1>1. /\ stage = "begin" /\ stage' = "intend" /\ intent = {}
      /\ ~ ClockWentBack(hour, HourPolicy, reserved) /\ Delay(hour, HourPolicy, reserved) = 0
      /\ hour' = Reserved(hour, HourPolicy, reserved)
      /\ UNCHANGED <<elapsed, clock, base, baseTouched, underway, intent, reserved, sent, hourSends, studySends>>
  BY DEF ReserveHour, HourReadable, To, Keeps, hourClock
<1>2. ~ HourAhead /\ ~ HourDue /\ HourAhead' /\ ~ HourDue' /\ hour # NoFile
  BY <1>1 DEF HourAhead, HourDue, HourInv, IntentInv
<1>3. /\ hour \in Budget /\ Ordered(hour) /\ elapsed \in Int /\ clock \in Int /\ reserved \in Int
      /\ hourSends \in Seq(Int) /\ studySends \in Seq(Int) /\ HourPolicy \in Policy
      /\ CoversAll(hour, HourPolicy, hourSends, 0, 0, elapsed, clock)
      /\ CoversAll(hour, HourPolicy, hourSends, 0, 0, elapsed, reserved)
      /\ StudyCovered(reserved)
  BY <1>1, <1>2, HourAssumption DEF HourInv, HourlyType, HourCover, BeginInv, One
<1>4. /\ Ordered(hour') /\ Free(HourPolicy, hourSends, elapsed)
      /\ CoversAll(hour', HourPolicy, hourSends, 1, 0, elapsed, clock)
  BY <1>1, <1>3, ReservedCovers
<1>5. hour' \in Budget /\ hour' # NoFile
  BY <1>1, <1>3, ReservedProperties, HourAssumption
<1>6. \A j \in DOMAIN studySends : studySends[j] + HourPolicy.interval <= elapsed
  <2> TAKE j \in DOMAIN studySends
  <2> DEFINE cooled == hour.notBefore
             due == studySends[j] + HourPolicy.interval
  <2>1. cooled <= reserved /\ cooled \in Int
    BY <1>1, <1>3, DelayRespectsCooldown, BudgetFields
  <2>2. due \in Int
    BY <1>3, PolicyFields
  <2>3. due <= elapsed \/ cooled - reserved >= studySends[j] + HourPolicy.interval - elapsed
    BY <1>3, StudyCover DEF StudyCovered
  <2>4. studySends[j] + HourPolicy.interval - elapsed = due - elapsed
    BY <1>3, PolicyFields
  <2> HIDE DEF cooled, due
  <2>5. due <= elapsed
    BY <1>3, <2>1, <2>2, <2>3, <2>4
  <2> QED
    BY <2>5 DEF due
<1>7. HourlyType' /\ IntentInv' /\ FirstInv'
  BY <1>1, <1>2, <1>5 DEF HourInv, HourlyType, IntentInv, FirstInv
<1>8. HourCover' /\ BeginInv'
  <2>1. StudyCovered(clock)'
    BY <1>1, <1>6 DEF StudyCovered, Covers
  <2> QED
    BY <1>1, <1>2, <1>4, <2>1 DEF HourCover, BeginInv, One
<1>9. HourSentInv'
  BY <1>1, <1>4, <1>6 DEF HourInv, HourSentInv, HourKept
<1> QED
  BY <1>7, <1>8, <1>9 DEF HourInv

(* The request leaves. *)
LEMMA SendHourlyStep ==
  ASSUME HourInv, SendHourly
  PROVE  HourInv'
<1>1. /\ stage = "send" /\ stage' = "anchor" /\ sent' = clock /\ hourSends' = Append(hourSends, elapsed)
      /\ UNCHANGED <<elapsed, clock, hour, base, baseTouched, underway, intent, reserved, studySends>>
  BY DEF SendHourly, To, hourClock, hourFiles
<1>2. HourAhead /\ ~ HourDue /\ ~ HourAhead' /\ HourDue' /\ hour # NoFile
  BY <1>1 DEF HourAhead, HourDue, HourInv, IntentInv
<1>3. /\ hour \in Budget /\ Ordered(hour) /\ elapsed \in Int /\ clock \in Int
      /\ hourSends \in Seq(Int) /\ studySends \in Seq(Int) /\ HourPolicy \in Policy
      /\ Past(hourSends, elapsed) /\ Spaced(HourPolicy, hourSends)
      /\ Free(HourPolicy, hourSends, elapsed)
      /\ CoversAll(hour, HourPolicy, hourSends, 1, 0, elapsed, clock)
      /\ StudyCovered(clock)
  BY <1>2, HourAssumption DEF HourInv, HourlyType, HourCover, HourSentInv, HourKept, Spaced, One
<1>4. /\ hourSends' \in Seq(Int) /\ Past(hourSends', elapsed) /\ Spaced(HourPolicy, hourSends')
      /\ CoversAll(hour, HourPolicy, hourSends', 0, 1, elapsed, clock)
  BY <1>1, <1>3, SentCovers
<1>5. /\ DOMAIN hourSends' = 1..(Len(hourSends) + 1) /\ DOMAIN hourSends = 1..Len(hourSends)
      /\ Len(hourSends) \in Nat
      /\ \A i \in 1..Len(hourSends) : hourSends'[i] = hourSends[i]
      /\ hourSends'[Len(hourSends) + 1] = elapsed
      /\ Len(hourSends') = Len(hourSends) + 1 /\ hourSends' # <<>>
  BY <1>1, <1>3, OneMore
<1>6. HourlyType' /\ IntentInv' /\ FirstInv'
  BY <1>1, <1>2, <1>3, <1>4 DEF HourInv, HourlyType, IntentInv, FirstInv
<1>7. HourCover' /\ BeginInv'
  <2>1. StudyCovered(clock)'
    BY <1>1, <1>3 DEF StudyCovered
  <2> QED
    BY <1>1, <1>2, <1>3, <1>4, <2>1 DEF HourCover, BeginInv, One
<1>8. HourSentInv'
  <2>1. sent' - clock' >= hourSends'[Len(hourSends')] - elapsed'
    BY <1>1, <1>3, <1>5
  <2>2. ASSUME NEW i \in DOMAIN hourSends', NEW j \in DOMAIN studySends
        PROVE  hourSends'[i] - studySends[j] >= HourPolicy.interval
    <3>1. studySends[j] \in Int /\ HourPolicy.interval \in Nat
      BY <1>3, PolicyFields
    <3>2. CASE i \in DOMAIN hourSends
      BY <1>5, <3>2 DEF HourInv, HourSentInv, HourKept
    <3>3. CASE i = Len(hourSends) + 1
      <4>1. studySends[j] + HourPolicy.interval <= elapsed
        BY <1>2 DEF HourInv, HourSentInv
      <4> QED
        BY <1>3, <1>5, <3>1, <3>3, <4>1
    <3> QED
      BY <1>5, <3>2, <3>3
  <2>3. HourKept'
    BY <1>1, <1>4, <2>2 DEF HourKept, Spaced
  <2> QED
    BY <1>2, <1>5, <2>1, <2>3 DEF HourSentInv
<1> QED
  BY <1>6, <1>7, <1>8 DEF HourInv

(* The reservation becomes the time of the send. *)
LEMMA AnchorHourStep ==
  ASSUME HourInv, AnchorHour
  PROVE  HourInv'
<1>1. /\ stage = "anchor" /\ stage' = "anchorBase"
      /\ sent >= reserved /\ hour.stamps # <<>> /\ hour.stamps[Len(hour.stamps)] = reserved
      /\ hour' = [hour EXCEPT !.stamps[Len(hour.stamps)] = sent]
      /\ UNCHANGED <<elapsed, clock, base, baseTouched, underway, intent, reserved, sent, hourSends, studySends>>
  BY DEF AnchorHour, HourAnchorable, To, Keeps, hourClock
<1>2. ~ HourAhead /\ HourDue /\ ~ HourAhead' /\ ~ HourDue' /\ hour # NoFile
  BY <1>1 DEF HourAhead, HourDue, HourInv, IntentInv
<1>3. /\ hour \in Budget /\ Ordered(hour) /\ elapsed \in Int /\ clock \in Int /\ sent \in Int
      /\ hourSends \in Seq(Int) /\ HourPolicy \in Policy
      /\ hourSends # <<>> /\ sent - clock >= hourSends[Len(hourSends)] - elapsed
      /\ CoversAll(hour, HourPolicy, hourSends, 0, 1, elapsed, clock)
      /\ StudyCovered(clock)
  BY <1>1, <1>2, HourAssumption DEF HourInv, HourlyType, HourCover, HourSentInv, One
<1>4. hour' \in Budget /\ hour'.notBefore = hour.notBefore /\ hour' # NoFile
  BY <1>1, <1>3, MovedFields, HourAssumption
<1>5. Ordered(hour') /\ CoversAll(hour', HourPolicy, hourSends, 0, 0, elapsed, clock)
  <2>1. hour.stamps[Len(hour.stamps)] <= sent
    BY <1>1
  <2>2. /\ hour.stamps # <<>> /\ hour' = [hour EXCEPT !.stamps[Len(hour.stamps)] = sent]
        /\ hour' \in Budget /\ hour \in Budget /\ HourPolicy \in Policy /\ Ordered(hour)
        /\ hourSends \in Seq(Int) /\ elapsed \in Int /\ clock \in Int /\ sent \in Int
    BY <1>1, <1>3, <1>4
  <2>3. /\ hourSends # <<>> /\ sent - clock >= hourSends[Len(hourSends)] - elapsed
        /\ CoversAll(hour, HourPolicy, hourSends, 0, 1, elapsed, clock)
    BY <1>3
  <2> QED
    BY <2>1, <2>2, <2>3, AnchoredCovers, SMTT(60)
<1>6. HourlyType' /\ IntentInv' /\ FirstInv'
  BY <1>1, <1>2, <1>4 DEF HourInv, HourlyType, IntentInv, FirstInv
<1>7. HourCover' /\ BeginInv'
  <2>1. StudyCovered(clock)'
    BY <1>1, <1>3, <1>4, StudyCover DEF StudyCovered
  <2> QED
    BY <1>1, <1>2, <1>5, <2>1 DEF HourCover, BeginInv, One
<1>8. HourSentInv'
  BY <1>1, <1>2 DEF HourInv, HourSentInv, HourKept
<1> QED
  BY <1>6, <1>7, <1>8 DEF HourInv

(* Time passes, or the clock is set back. *)
LEMMA HourTimeStep ==
  ASSUME HourInv, Elapse \/ TurnBack
  PROVE  HourInv'
<1>1. /\ UNCHANGED <<stage, hour, base, baseTouched, underway, intent, reserved, sent, hourSends, studySends>>
      /\ elapsed' \in Int /\ clock' \in Int /\ elapsed' >= elapsed /\ elapsed' - elapsed >= clock' - clock
  BY DEF Elapse, TurnBack, hourFiles, HourInv, HourlyType
<1>2. /\ elapsed \in Int /\ clock \in Int /\ reserved \in Int /\ sent \in Int
      /\ hourSends \in Seq(Int) /\ studySends \in Seq(Int) /\ baseTouched \subseteq Int
      /\ Past(hourSends, elapsed) /\ Past(studySends, elapsed)
      /\ HourPolicy \in Policy /\ HourPolicy.interval \in Nat /\ HourPolicy.limit \in Nat /\ HourPolicy.limit >= 1
      /\ hour # NoFile => hour \in Budget
  BY HourAssumption, PolicyFields DEF HourInv, HourlyType
<1>3. /\ \A i \in DOMAIN hourSends : hourSends[i] \in Int
      /\ \A j \in DOMAIN studySends : studySends[j] \in Int
  BY <1>2
<1>4. HourlyType' /\ IntentInv'
  <2>1. Past(hourSends, elapsed') /\ Past(studySends, elapsed')
    BY <1>1, <1>2, <1>3 DEF Past
  <2> QED
    BY <1>1, <2>1 DEF HourInv, HourlyType, IntentInv
<1>5. FirstInv'
  <2>1. ASSUME hour = NoFile, NEW j \in DOMAIN studySends
        PROVE  \E t \in baseTouched : t - clock' >= studySends[j] - elapsed'
    <3>1. PICK t \in baseTouched : t - clock >= studySends[j] - elapsed
      BY <2>1 DEF HourInv, FirstInv
    <3>2. t - clock' >= studySends[j] - elapsed'
      BY <1>1, <1>2, <1>3, <3>1, ClockNeverAhead
    <3> QED
      BY <3>2
  <2> QED
    BY <1>1, <2>1 DEF HourInv, FirstInv
<1>6. ASSUME hour # NoFile, NEW c \in Int, NEW d \in Int, elapsed' - elapsed >= d - c, StudyCovered(c)
      PROVE  \A j \in DOMAIN studySends : Covers(hour, HourPolicy, studySends[j], 0, elapsed', d)
  <2> TAKE j \in DOMAIN studySends
  <2>1. Covers(hour, HourPolicy, studySends[j], 0, elapsed, c)
    BY <1>6 DEF StudyCovered
  <2>2. hour \in Budget /\ studySends[j] \in Int /\ 0 \in Int
    BY <1>2, <1>3, <1>6
  <2> QED
    BY <1>1, <1>2, <1>6, <2>1, <2>2, CoversLater
<1>7. HourCover'
  <2>1. One(HourAhead) \in Nat /\ One(HourDue) \in Nat
    BY DEF One
  <2>2. hour # NoFile => CoversAll(hour, HourPolicy, hourSends, One(HourAhead), One(HourDue), elapsed', clock')
    BY <1>1, <1>2, <2>1, CoversAllLater DEF HourInv, HourCover
  <2>3. HourAhead' = HourAhead /\ HourDue' = HourDue
    BY <1>1 DEF HourAhead, HourDue
  <2>4. hour # NoFile => StudyCovered(clock)'
    BY <1>1, <1>2, <1>6 DEF HourInv, HourCover, StudyCovered
  <2> QED
    BY <1>1, <2>2, <2>3, <2>4 DEF HourInv, HourCover
<1>8. BeginInv'
  <2> SUFFICES ASSUME stage = "begin"
               PROVE  /\ CoversAll(hour, HourPolicy, hourSends, 0, 0, elapsed', reserved)
                      /\ StudyCovered(reserved)'
    BY <1>1 DEF BeginInv
  <2>1. hour # NoFile /\ hour \in Budget
    BY <1>2 DEF HourInv, IntentInv
  <2>2. CoversAll(hour, HourPolicy, hourSends, 0, 0, elapsed', reserved)
    BY <1>1, <1>2, <2>1, CoversAllLater DEF HourInv, BeginInv
  <2>3. StudyCovered(reserved)'
    <3>1. elapsed' - elapsed >= reserved - reserved /\ StudyCovered(reserved)
      <4>1. elapsed' - elapsed >= reserved - reserved
        BY <1>1, <1>2, SomeTimePassed
      <4>2. StudyCovered(reserved)
        BY DEF HourInv, BeginInv
      <4> QED
        BY <4>1, <4>2
    <3>2. \A j \in DOMAIN studySends : Covers(hour, HourPolicy, studySends[j], 0, elapsed', reserved)
      BY <1>2, <1>6, <2>1, <3>1
    <3> QED
      BY <1>1, <3>2 DEF StudyCovered
  <2> QED
    BY <2>2, <2>3
<1>9. HourSentInv'
  <2>1. ASSUME HourAhead
        PROVE  /\ Free(HourPolicy, hourSends, elapsed')
               /\ \A j \in DOMAIN studySends : studySends[j] + HourPolicy.interval <= elapsed'
    <3>1. ASSUME NEW i \in 1..(Len(hourSends) - HourPolicy.limit + 1)
          PROVE  hourSends[i] + HourPolicy.interval <= elapsed'
      <4>1. hourSends[i] + HourPolicy.interval <= elapsed
        BY <2>1 DEF HourInv, HourSentInv, Free
      <4>2. i \in DOMAIN hourSends
        BY <1>2
      <4> QED
        BY <1>1, <1>2, <1>3, <4>1, <4>2
    <3>2. ASSUME NEW j \in DOMAIN studySends
          PROVE  studySends[j] + HourPolicy.interval <= elapsed'
      <4>1. studySends[j] + HourPolicy.interval <= elapsed
        BY <2>1 DEF HourInv, HourSentInv
      <4> QED
        BY <1>1, <1>2, <1>3, <4>1
    <3> QED
      BY <3>1, <3>2 DEF Free
  <2>2. ASSUME stage = "anchor"
        PROVE  hourSends # <<>> /\ sent - clock' >= hourSends[Len(hourSends)] - elapsed'
    <3>1. hourSends # <<>> /\ sent - clock >= hourSends[Len(hourSends)] - elapsed
      BY <2>2 DEF HourInv, HourSentInv
    <3>2. hourSends[Len(hourSends)] \in Int
      BY <1>2, <3>1
    <3> QED
      BY <1>1, <1>2, <3>1, <3>2, ClockNeverAhead
  <2>3. HourAhead' = HourAhead /\ HourKept'
    BY <1>1 DEF HourAhead, HourInv, HourSentInv, HourKept
  <2> QED
    BY <1>1, <2>1, <2>2, <2>3 DEF HourSentInv
<1> QED
  BY <1>4, <1>5, <1>7, <1>8, <1>9 DEF HourInv

LEMMA InitHour ==
  ASSUME HourlyInit
  PROVE  HourInv
<1>1. /\ elapsed = 0 /\ clock = 0 /\ base = Unused /\ baseTouched = {} /\ hour = NoFile
      /\ underway = {} /\ intent = {} /\ stage = "off" /\ reserved = 0 /\ sent = 0
      /\ studySends = <<>> /\ hourSends = <<>>
  BY DEF HourlyInit
<1>2. /\ base \in Budget /\ base.stamps = <<>>
  BY <1>1 DEF Unused, Budget
<1>3. \A i : i \notin DOMAIN hourSends /\ i \notin DOMAIN studySends
  BY <1>1
<1>4. HourlyType /\ IntentInv /\ FirstInv
  BY <1>1, <1>2, <1>3 DEF HourlyType, IntentInv, FirstInv, Past, Ordered
<1>5. HourCover /\ BeginInv /\ HourSentInv
  BY <1>1, <1>3, HourAssumption, PolicyFields DEF HourCover, BeginInv, HourSentInv, HourAhead, HourKept
<1> QED
  BY <1>4, <1>5 DEF HourInv

(* The hourly quota holds on the real clock, and counts the study's requests *)
(* made before there was one, whatever dies or is set back in between.       *)
THEOREM HourIsKept == HourlySpec => []HourKept
<1>1. HourlyInit => HourInv
  BY InitHour
<1>2. HourInv /\ [HourlyNext]_hourlyVars => HourInv'
  <2> SUFFICES ASSUME HourInv, [HourlyNext]_hourlyVars PROVE HourInv'
    OBVIOUS
  <2>1. CASE UNCHANGED hourlyVars
    BY <2>1 DEF hourlyVars, hourClock, hourFiles, HourInv, HourlyType, IntentInv, FirstInv, HourCover,
                BeginInv, HourSentInv, HourKept, HourAhead, HourDue, StudyCovered
  <2> QED
    BY <2>1, HourStillSteps, StudyRequestStep, OpenHourStep, DeferHourStep, ReserveBaseStep,
       ReserveHourStep, SendHourlyStep, AnchorHourStep, HourTimeStep DEF HourlyNext
<1>3. HourInv => HourKept
  BY DEF HourInv, HourSentInv
<1> QED
  BY <1>1, <1>2, <1>3, PTL DEF HourlySpec

-----------------------------------------------------------------------------
(* TransportGuard: a bad answer is the last, and the budget's cooldown       *)
(* covers the time since FastF1's own limiter refused.                       *)

GuardSpec == GuardInit /\ [][GuardNext]_guardVars

GuardTypeInv ==
    /\ hours \in Int /\ rejection \in Int /\ guardBudget \in Budget
    /\ answers \in Seq({"good", "denied", "unobserved", "later"})
    /\ denied \in BOOLEAN /\ unobserved \in BOOLEAN

LatchInv ==
    /\ \A i \in DOMAIN answers : answers[i] # "good" => i = Len(answers) /\ Latched
    /\ loading \in {"done", "waiting", "sending"} => ~ Latched

CooldownInv ==
    /\ guardBudget.notBefore >= rejection + GuardPolicy.interval
    /\ loading = "sending" => hours >= guardBudget.notBefore

GuardInv == GuardTypeInv /\ LatchInv /\ CooldownInv

(* A bad answer is the last one, however the loader goes on. *)
LEMMA ReceiveInv ==
  ASSUME GuardInv, NEW answer \in {"good", "denied", "unobserved", "later"}, Receive(answer)
  PROVE  GuardInv'
<1> USE DEF GuardInv
<1>1. GuardTypeInv'
  BY DEF GuardTypeInv, Receive, Moves
<1>2. LatchInv'
  <2>1. ~ Latched /\ loading' = "loading"
    BY DEF LatchInv, Receive, Moves
  <2>2. \A i \in 1..Len(answers) : answers[i] = "good"
    BY <2>1 DEF LatchInv, GuardTypeInv
  <2>3. /\ Len(answers') = Len(answers) + 1
        /\ \A i \in 1..Len(answers) : answers'[i] = answers[i]
        /\ answers'[Len(answers) + 1] = answer
        /\ DOMAIN answers' = 1..(Len(answers) + 1)
    <3>1. answers' = Append(answers, answer)
      BY DEF Receive
    <3> QED
      BY <3>1, AppendProperties DEF GuardTypeInv
  <2>4. answer # "good" => Latched'
    BY DEF Receive, Latched
  <2>5. \A i \in 1..(Len(answers) + 1) : i \in 1..Len(answers) \/ i = Len(answers) + 1
    BY DEF GuardTypeInv
  <2> QED
    BY <2>1, <2>2, <2>3, <2>4, <2>5 DEF LatchInv
<1>3. CooldownInv'
  BY DEF CooldownInv, Receive, Moves
<1> QED
  BY <1>1, <1>2, <1>3

(* What is sent has waited for the budget. *)
LEMMA PacedInv ==
  ASSUME GuardInv, Paced
  PROVE  GuardInv'
<1>1. /\ Delay(guardBudget, GuardPolicy, hours) = 0 /\ hours' = hours /\ rejection' = rejection
      /\ guardBudget' = Reserved(guardBudget, GuardPolicy, hours)
      /\ UNCHANGED <<denied, unobserved, answers>> /\ loading = "waiting" /\ loading' = "sending"
  BY DEF Paced, Moves
<1>2. hours \in Int /\ guardBudget \in Budget /\ GuardPolicy \in Policy
  BY GuardAssumption DEF GuardInv, GuardTypeInv
<1>3. guardBudget.notBefore <= hours
  BY <1>1, <1>2, DelayRespectsCooldown
<1>4. guardBudget' \in Budget /\ guardBudget'.notBefore = guardBudget.notBefore
  BY <1>1, <1>2, ReservedProperties
<1>5. GuardTypeInv'
  BY <1>1, <1>4 DEF GuardInv, GuardTypeInv
<1>6. LatchInv'
  BY <1>1 DEF GuardInv, LatchInv, Latched
<1>7. CooldownInv'
  <2>1. guardBudget.notBefore \in Int
    BY <1>2 DEF Budget
  <2> QED
    BY <1>1, <1>2, <1>3, <1>4, <2>1 DEF GuardInv, CooldownInv
<1> QED
  BY <1>5, <1>6, <1>7 DEF GuardInv

LEMMA RejectionInv ==
  ASSUME GuardInv, NativeRejection
  PROVE  GuardInv'
<1>1. /\ hours' = hours /\ rejection' = hours
      /\ guardBudget' = Deferred(guardBudget, hours + GuardPolicy.interval)
      /\ UNCHANGED <<denied, unobserved, answers>> /\ loading' = "loading"
  BY DEF NativeRejection, Moves
<1>2. /\ hours \in Int /\ guardBudget \in Budget
      /\ GuardPolicy.interval \in Int /\ hours + GuardPolicy.interval \in Int
  BY GuardAssumption DEF GuardInv, GuardTypeInv, Policy
<1>3. guardBudget' \in Budget /\ guardBudget'.notBefore >= hours + GuardPolicy.interval
  BY <1>1, <1>2, DeferredProperties
<1>4. GuardTypeInv'
  BY <1>1, <1>2, <1>3 DEF GuardInv, GuardTypeInv
<1>5. LatchInv'
  BY <1>1 DEF GuardInv, LatchInv, Latched
<1>6. CooldownInv'
  BY <1>1, <1>2, <1>3 DEF CooldownInv
<1> QED
  BY <1>4, <1>5, <1>6 DEF GuardInv

LEMMA OtherStepsInv ==
  ASSUME GuardInv,
         OpenGuard \/ GuardAsks \/ GuardUnanswered \/ EndGuard \/ GuardDies \/ Hour
  PROVE  GuardInv'
<1> USE DEF GuardInv, GuardTypeInv, LatchInv, CooldownInv, Latched, Moves
<1>1. CASE OpenGuard
  <2>1. \A i : i \notin DOMAIN answers'
    BY <1>1 DEF OpenGuard
  <2>2. answers' \in Seq({"good", "denied", "unobserved", "later"})
    BY <1>1 DEF OpenGuard
  <2>3. GuardTypeInv' /\ CooldownInv'
    BY <1>1, <2>2 DEF OpenGuard
  <2>4. ~ Latched'
    BY <1>1 DEF OpenGuard
  <2> QED
    BY <2>1, <2>3, <2>4
<1>2. CASE GuardAsks \/ EndGuard
  BY <1>2 DEF GuardAsks, Unlatched, EndGuard
<1>3. CASE GuardUnanswered \/ GuardDies
  BY <1>3 DEF GuardUnanswered, GuardDies
<1>4. CASE Hour
  <2>1. guardBudget.notBefore \in Int
    BY DEF Budget
  <2> QED
    BY <1>4, <2>1 DEF Hour
<1> QED
  BY <1>1, <1>2, <1>3, <1>4

(* Whatever the loader swallows, an operation is done only if each of its   *)
(* answers was good, nothing is asked after one that was not, and nothing   *)
(* is sent within the interval after the native limiter refused.            *)
THEOREM GuardHolds == GuardSpec => []GuardKept
<1>1. ASSUME GuardInit PROVE GuardInv
  <2>1. Unused \in Budget /\ Unused.notBefore = 0
    BY DEF Unused, Budget
  <2>2. GuardPolicy.interval \in Int
    BY GuardAssumption DEF Policy
  <2>3. \A i : i \notin DOMAIN answers
    BY <1>1 DEF GuardInit
  <2>4. LatchInv
    BY <1>1, <2>3 DEF GuardInit, LatchInv, Latched
  <2>5. denied \in BOOLEAN /\ unobserved \in BOOLEAN
    BY <1>1 DEF GuardInit
  <2>6. rejection \in Int /\ rejection + GuardPolicy.interval = 0
    BY <1>1, <2>2 DEF GuardInit
  <2>7. hours \in Int /\ guardBudget \in Budget /\ guardBudget.notBefore = 0
    BY <1>1, <2>1 DEF GuardInit
  <2>8. answers \in Seq({"good", "denied", "unobserved", "later"}) /\ loading # "sending"
    BY <1>1 DEF GuardInit
  <2> QED
    BY <2>4, <2>5, <2>6, <2>7, <2>8 DEF GuardInv, GuardTypeInv, CooldownInv
<1>2. GuardInv /\ [GuardNext]_guardVars => GuardInv'
  <2>1. CASE UNCHANGED guardVars
    BY <2>1 DEF guardVars, GuardInv, GuardTypeInv, LatchInv, CooldownInv, Latched
  <2> QED
    BY <2>1, ReceiveInv, PacedInv, RejectionInv, OtherStepsInv DEF GuardNext
<1>3. GuardInv => GuardKept
  <2>1. ASSUME GuardInv PROVE loading = "sending" => hours >= rejection + GuardPolicy.interval
    <3>1. /\ guardBudget.notBefore \in Int /\ hours \in Int
          /\ rejection + GuardPolicy.interval \in Int
      BY <2>1, GuardAssumption DEF GuardInv, GuardTypeInv, Budget, Policy
    <3> QED
      BY <2>1, <3>1 DEF GuardInv, CooldownInv
  <2> QED
    BY <2>1 DEF GuardInv, LatchInv, GuardKept
<1> QED
  BY <1>1, <1>2, <1>3, PTL DEF GuardSpec

-----------------------------------------------------------------------------
(* Enrichment: the leaf of one session. *)

EnrichmentSpec == EnrichmentInit /\ [][EnrichmentNext]_enrichmentVars

LeafPlace == {"off", "make", "bind", "inventory", "visit", "answer", "wire", "note", "index", "judge",
              "point", "publish", "columns", "describe", "failure", "seal", "finish"}

LeafType ==
    /\ flow \in {"study", "corpus"}
    /\ authority \in [Input -> Nat] /\ pin \in [Input -> Nat]
    /\ bound \in [Input -> Nat] \cup {Nothing}
    /\ raw \subseteq Endpoint \X Reply
    /\ attempts \subseteq [endpoint : Endpoint, number : Nat, reply : Reply]
    /\ source \in [Endpoint -> Reply \cup {Nothing}]
    /\ table \in [Endpoint -> Reply \cup {Nothing}]
    /\ described \in [Endpoint -> Reply \cup {Nothing}]
    /\ failed \subseteq Endpoint
    /\ place \in LeafPlace /\ at \in Nat \ {0} /\ deaths \in Nat
    /\ asked \in [Endpoint -> Nat]

Capturing == {"answer", "wire", "note"}
Judging == {"index", "judge"}
Publishing == {"publish", "columns", "describe"}
AtEndpoint == Capturing \cup Judging \cup {"point", "failure"} \cup Publishing
Working == AtEndpoint \cup {"visit", "seal"}

(* Every attempt record has its wire file, and unless a run was cut short   *)
(* while it captured an answer, every file is named.  An endpoint has one   *)
(* whole answer, and its pointer, table and record are made from it.        *)
Named == {<<a.endpoint, a.reply>> : a \in attempts}
Unnamed == IF place = "note" THEN {<<Here, reply>>} ELSE {}

FilesInv ==
    /\ Named \subseteq raw
    /\ ~ torn /\ place # "index" => index = attempts
    /\ ~ torn \/ place \in Working => raw \subseteq Named \cup Unnamed
    /\ \A e \in Endpoint : \A r, s \in Original(e) : r = s

MadeOf(e) ==
    /\ source[e] # Nothing => Original(e) = {source[e]}
    /\ table[e] # Nothing => table[e] = source[e]
    /\ described[e] # Nothing =>
         described[e] \in Usable /\ table[e] = described[e] /\ source[e] = described[e]
MadeInv == \A e \in Endpoint : MadeOf(e)

(* The endpoint a run works at is open; those before it are done with. *)
HereInv ==
    /\ place \in {"off", "make", "bind", "inventory"} => at = 1
    /\ place \in AtEndpoint => at \in DOMAIN Endpoints /\ Open(Here)
    /\ place \in Capturing => Original(Here) = {}
    /\ place \in {"wire", "note"} => reply \in Reply
    /\ place = "note" => <<Here, reply>> \in raw
    /\ place \in Judging => reply \in Answers(Here)
    /\ place = "point" => reply \in Original(Here)
    /\ place \in Publishing => reply \in Original(Here) /\ source[Here] = reply
    /\ place \in {"columns", "describe"} => reply \in Usable
    /\ place = "describe" => table[Here] = reply
DoneInv ==
    place \in Working \ {"seal"} =>
        \A i \in DOMAIN Endpoints :
            i < at => described[Endpoints[i]] # Nothing \/ Endpoints[i] \in failed

(* A corpus run goes on only with answers it accepts, under the authority   *)
(* the leaf is bound to. *)
CorpusInv ==
    Corpus /\ place \in Working =>
        /\ bound = pin
        /\ \A a \in attempts :
             a.reply \in Whole \cup {"error"} \/ (place \in Judging /\ a.reply = reply)

Unchanged == authority = [i \in Input |-> 0]
AuthorityInv ==
    /\ \A i \in Input : pin[i] <= authority[i]
    /\ bound # Nothing => \A i \in Input : bound[i] <= authority[i]
    /\ place = "make" => ~ leafMade
    /\ place \notin {"off", "make"} => leafMade
    /\ Corpus /\ leafMade /\ ~ torn /\ place # "bind" /\ Unchanged => bound = authority

SealInv ==
    /\ place = "seal" => Observed
    /\ place = "finish" => complete
    /\ complete => leafMade /\ Observed /\ place \in {"off", "inventory", "finish"}

(* An endpoint was asked for once more than runs died only if it is still   *)
(* in flight, has failed, has an answer that counts, or its leaf is over.   *)
Stale == bound # Nothing /\ \E i \in Input : bound[i] < authority[i]
Spent(e) ==
    \/ place \in AtEndpoint /\ Here = e
    \/ e \in failed
    \/ \E a \in attempts : a.endpoint = e /\ a.reply # "error"
    \/ Stale
AskInv ==
    /\ ~ leafMade \/ place \in {"make", "bind"} => \A e \in Endpoint : asked[e] = 0
    /\ Corpus => \A e \in Endpoint : asked[e] <= deaths \/ (asked[e] <= deaths + 1 /\ Spent(e))

LeafInv ==
    /\ LeafType /\ FilesInv /\ MadeInv /\ HereInv /\ DoneInv
    /\ CorpusInv /\ AuthorityInv /\ SealInv /\ AskInv

(* The endpoints are listed from one on. *)
LEMMA EndpointsProperties ==
  /\ Len(Endpoints) \in Nat /\ DOMAIN Endpoints = 1..Len(Endpoints)
  /\ \A i \in DOMAIN Endpoints : Endpoints[i] \in Endpoint
  /\ \A e \in Endpoint : \E i \in DOMAIN Endpoints : e = Endpoints[i]
  BY EnrichmentAssumption DEF Endpoint

(* A run is at an endpoint from asking for it to its record. *)
LEMMA HereIsEndpoint ==
  ASSUME LeafInv, place \in AtEndpoint \/ (place = "visit" /\ at <= Len(Endpoints))
  PROVE  at \in DOMAIN Endpoints /\ Here \in Endpoint
<1>1. at \in DOMAIN Endpoints
  BY EndpointsProperties DEF LeafInv, LeafType, HereInv
<1> QED
  BY <1>1, EndpointsProperties DEF Here

(* Answers and names are read off the attempts alone. *)
LEMMA AnswersStay ==
  ASSUME UNCHANGED attempts
  PROVE  /\ \A e : Answers(e)' = Answers(e) /\ Original(e)' = Original(e)
         /\ Named' = Named
  BY DEF Answers, Original, Named

(* The report's claims are about the files of the directory alone. *)
LEMMA ObservedStays ==
  ASSUME UNCHANGED <<flow, raw, attempts, index, source, table, described, failed>>
  PROVE  Observed' = Observed
  BY AnswersStay DEF Observed, Corpus

(* A whole answer of an endpoint is its only one, and its files are of it. *)
LEMMA WholeIsOne ==
  ASSUME LeafInv, NEW e \in Endpoint, NEW r \in Original(e)
  PROVE  /\ Original(e) = {r} /\ r \in Whole /\ r # Nothing
         /\ source[e] \in {Nothing, r} /\ table[e] \in {Nothing, source[e]}
<1>1. r \in Whole /\ r # Nothing
  BY EnrichmentAssumption DEF Original, Reply
<1>2. Original(e) = {r}
  BY DEF LeafInv, FilesInv
<1>3. MadeOf(e)
  BY DEF LeafInv, MadeInv
<1> QED
  BY <1>1, <1>2, <1>3 DEF MadeOf

(* An attempt record adds one answer to one endpoint. *)
LEMMA NoteAdds ==
  ASSUME LeafInv, Note
  PROVE  /\ Here \in Endpoint /\ reply \in Reply
         /\ Named' = Named \cup {<<Here, reply>>}
         /\ \A e : Answers(e)' = Answers(e) \cup (IF e = Here THEN {reply} ELSE {})
<1>1. Here \in Endpoint /\ reply \in Reply
  BY HereIsEndpoint DEF LeafInv, HereInv, Note, Step, AtEndpoint, Capturing
<1> DEFINE n == [endpoint |-> Here, number |-> asked[Here], reply |-> reply]
<1>2. attempts' = attempts \cup {n} /\ n.endpoint = Here /\ n.reply = reply
  BY DEF Note
<1> HIDE DEF n
<1>3. Named' = Named \cup {<<Here, reply>>}
  BY <1>2 DEF Named
<1>4. ASSUME NEW e
      PROVE  Answers(e)' = Answers(e) \cup (IF e = Here THEN {reply} ELSE {})
  BY <1>2 DEF Answers
<1> QED
  BY <1>1, <1>3, <1>4

(* Each part is kept by every action. *)
LEMMA TypeStays ==
  ASSUME LeafInv, EnrichmentNext
  PROVE  LeafType'
<1> USE EndpointsProperties
<1> USE DEF leaf, capture, artifacts, running, Step, Ends, LeafInv, LeafType, HereInv, Here,
        LeafPlace, AtEndpoint, Capturing, Judging, Publishing, Working
<1>1. CASE StudyAdmits \/ CorpusAdmits \/ MakeLeaf \/ Bind \/ Refuse
  BY <1>1 DEF StudyAdmits, CorpusAdmits, Admit, MakeLeaf, Bind, Refuse
<1>2. CASE StayDenied \/ Reuse \/ Resume \/ Skip
  BY <1>2 DEF StayDenied, Reuse, Resume, Skip
<1>3. CASE RecoverSource
  BY <1>3 DEF RecoverSource, Original, Reply
<1>4. CASE Ask
  <2>1. Here \in Endpoint
    BY <1>4, HereIsEndpoint DEF Ask
  <2> QED
    BY <1>4, <2>1 DEF Ask
<1>5. CASE NoAnswer
  BY <1>5 DEF NoAnswer
<1>6. ASSUME NEW r \in Reply, Answer(r) PROVE LeafType'
  BY <1>6 DEF Answer
<1>7. CASE Wire
  <2>1. <<Here, reply>> \in Endpoint \X Reply
    BY <1>7 DEF Wire
  <2> QED
    BY <1>7, <2>1 DEF Wire
<1>8. CASE Note
  <2>1. [endpoint |-> Here, number |-> asked[Here], reply |-> reply]
          \in [endpoint : Endpoint, number : Nat, reply : Reply]
    BY <1>8, NoteAdds
  <2> QED
    BY <1>8, <2>1 DEF Note
<1>9. CASE Index \/ Denied \/ Unacceptable \/ ErrorAnswer \/ Accept
  BY <1>9 DEF Index, Denied, Unacceptable, ErrorAnswer, Accept
<1>10. CASE Point
  <2>1. Here \in Endpoint /\ reply \in Reply
    BY <1>10 DEF Point, Original, Reply
  <2> QED
    BY <1>10, <2>1 DEF Point
<1>11. CASE Malformed \/ Conflicting \/ StartColumns
  BY <1>11 DEF Malformed, Conflicting, StartColumns
<1>12. CASE Columns
  BY <1>12 DEF Columns
<1>13. CASE Describe
  <2>1. Here \in Endpoint
    BY <1>13, HereIsEndpoint DEF Describe
  <2>2. source[Here] \in Reply \cup {Nothing} /\ at + 1 \in Nat \ {0}
    BY <2>1
  <2> QED
    BY <1>13, <2>2 DEF Describe
<1>14. CASE Failure
  <2>1. Here \in Endpoint
    BY <1>14, HereIsEndpoint DEF Failure
  <2> QED
    BY <1>14, <2>1 DEF Failure
<1>15. CASE Partial \/ AllVisited \/ Seal \/ Leave \/ LoseAuthority
  BY <1>15 DEF Partial, AllVisited, Seal, Leave, LoseAuthority
<1>16. CASE Die
  BY <1>16 DEF Die
<1>17. ASSUME NEW i \in Input, Change(i) PROVE LeafType'
  BY <1>17 DEF Change
<1> QED
  BY <1>1, <1>2, <1>3, <1>4, <1>5, <1>6, <1>7, <1>8, <1>9, <1>10, <1>11, <1>12, <1>13, <1>14, <1>15,
     <1>16, <1>17 DEF EnrichmentNext

(* Only Note and Wire add files; a run resumes with every file named. *)
LEMMA FilesStay ==
  ASSUME LeafInv, EnrichmentNext
  PROVE  FilesInv'
<1> USE DEF leaf, capture, artifacts, running, Step, Ends, LeafInv, FilesInv, Unnamed, Working
<1>1. CASE StudyAdmits \/ CorpusAdmits \/ MakeLeaf \/ Bind \/ Refuse
  BY <1>1, AnswersStay DEF StudyAdmits, CorpusAdmits, Admit, MakeLeaf, Bind, Refuse, AtEndpoint,
     Capturing, Judging, Publishing
<1>2. CASE StayDenied \/ Reuse
  BY <1>2, AnswersStay DEF StayDenied, Reuse, AtEndpoint, Capturing, Judging, Publishing
<1>3. CASE Resume
  BY <1>3, AnswersStay DEF Resume, AttemptsIndexed, Accounted, Named
<1>4. CASE Skip \/ RecoverSource \/ Ask \/ NoAnswer
  BY <1>4, AnswersStay DEF Skip, RecoverSource, Ask, NoAnswer, AtEndpoint, Capturing, Judging,
     Publishing
<1>5. ASSUME NEW r \in Reply, Answer(r) PROVE FilesInv'
  BY <1>5, AnswersStay DEF Answer, AtEndpoint, Capturing, Judging, Publishing
<1>6. CASE Wire
  BY <1>6, AnswersStay DEF Wire, Here, AtEndpoint, Capturing, Judging, Publishing
<1>7. CASE Note
  <2>1. /\ Here \in Endpoint
        /\ Named' = Named \cup {<<Here, reply>>}
        /\ \A e : Answers(e)' = Answers(e) \cup (IF e = Here THEN {reply} ELSE {})
    BY <1>7, NoteAdds
  <2>2. Original(Here) = {} /\ <<Here, reply>> \in raw /\ Unnamed = {<<Here, reply>>}
    BY <1>7 DEF Note, HereInv, Capturing
  <2>3. Named' \subseteq raw' /\ (~ torn' \/ place' \in Working' => raw' \subseteq Named' \cup Unnamed')
    BY <1>7, <2>1, <2>2 DEF Note, AtEndpoint, Capturing
  <2>4. \A e \in Endpoint : \A r, s \in Original(e)' : r = s
    BY <2>1, <2>2 DEF Original
  <2> QED
    BY <1>7, <2>3, <2>4 DEF Note
<1>8. CASE Index \/ Denied \/ Unacceptable \/ ErrorAnswer \/ Accept
  BY <1>8, AnswersStay DEF Index, Denied, Unacceptable, ErrorAnswer, Accept, AtEndpoint, Capturing,
     Judging, Publishing
<1>9. CASE Point \/ Malformed \/ Conflicting \/ StartColumns \/ Columns
  BY <1>9, AnswersStay DEF Point, Malformed, Conflicting, StartColumns, Columns, AtEndpoint,
     Capturing, Judging, Publishing
<1>10. CASE Describe \/ Failure \/ Partial \/ AllVisited \/ Seal
  BY <1>10, AnswersStay DEF Describe, Failure, Partial, AllVisited, Seal, AtEndpoint, Capturing,
     Judging, Publishing
<1>11. CASE Leave \/ LoseAuthority \/ Die
  BY <1>11, AnswersStay DEF Leave, LoseAuthority, Die, AtEndpoint, Capturing, Judging, Publishing
<1>12. ASSUME NEW i \in Input, Change(i) PROVE FilesInv'
  BY <1>12, AnswersStay DEF Change, Here, AtEndpoint, Capturing, Judging, Publishing
<1> QED
  BY <1>1, <1>2, <1>3, <1>4, <1>5, <1>6, <1>7, <1>8, <1>9, <1>10, <1>11, <1>12 DEF EnrichmentNext

(* A pointer is made of the one whole answer, again if it is found again. *)
LEMMA MadeStays ==
  ASSUME LeafInv, EnrichmentNext
  PROVE  MadeInv'
<1> USE DEF leaf, capture, artifacts, running, Step, Ends, LeafInv, LeafType, MadeInv, MadeOf
<1>1. CASE StudyAdmits \/ CorpusAdmits \/ MakeLeaf \/ Bind \/ Refuse
  BY <1>1, AnswersStay DEF StudyAdmits, CorpusAdmits, Admit, MakeLeaf, Bind, Refuse
<1>2. CASE StayDenied \/ Reuse \/ Resume \/ Skip
  BY <1>2, AnswersStay DEF StayDenied, Reuse, Resume, Skip
<1>3. CASE RecoverSource
  <2>1. Here \in Endpoint
    BY <1>3, HereIsEndpoint DEF RecoverSource
  <2>2. PICK r \in Original(Here) : source' = [source EXCEPT ![Here] = r]
    BY <1>3 DEF RecoverSource
  <2>3. /\ Original(Here) = {r} /\ source[Here] \in {Nothing, r}
        /\ table[Here] \in {Nothing, source[Here]} /\ described[Here] = Nothing
    BY <1>3, <2>1, WholeIsOne DEF RecoverSource, Open
  <2> QED
    BY <1>3, <2>1, <2>2, <2>3, AnswersStay DEF RecoverSource
<1>4. CASE Ask \/ NoAnswer
  BY <1>4, AnswersStay DEF Ask, NoAnswer
<1>5. ASSUME NEW r \in Reply, Answer(r) PROVE MadeInv'
  BY <1>5, AnswersStay DEF Answer
<1>6. CASE Wire
  BY <1>6, AnswersStay DEF Wire
<1>7. CASE Note
  <2>1. /\ Here \in Endpoint
        /\ \A e : Answers(e)' = Answers(e) \cup (IF e = Here THEN {reply} ELSE {})
    BY <1>7, NoteAdds
  <2>2. \A e \in Endpoint : e # Here => Original(e)' = Original(e)
    BY <2>1 DEF Original
  <2>3. source[Here] = Nothing /\ table[Here] \in {Nothing, source[Here]} /\ described[Here] = Nothing
    BY <1>7, <2>1 DEF Note, HereInv, Capturing, AtEndpoint, Open
  <2>4. UNCHANGED <<source, table, described>>
    BY <1>7 DEF Note
  <2>5. ASSUME NEW e \in Endpoint
        PROVE  MadeOf(e)'
    <3>1. CASE e = Here
      BY <2>3, <2>4, <3>1
    <3>2. CASE e # Here
      BY <2>2, <2>4, <3>2
    <3> QED
      BY <3>1, <3>2
  <2> QED
    BY <2>5
<1>8. CASE Index \/ Denied \/ Unacceptable \/ ErrorAnswer \/ Accept
  BY <1>8, AnswersStay DEF Index, Denied, Unacceptable, ErrorAnswer, Accept
<1>9. CASE Point
  <2>1. Here \in Endpoint /\ reply \in Original(Here) /\ described[Here] = Nothing
    BY <1>9, HereIsEndpoint DEF Point, HereInv, AtEndpoint, Open
  <2>2. /\ Original(Here) = {reply} /\ source[Here] \in {Nothing, reply}
        /\ table[Here] \in {Nothing, source[Here]}
    BY <2>1, WholeIsOne
  <2> QED
    BY <1>9, <2>1, <2>2, AnswersStay DEF Point
<1>10. CASE Malformed \/ Conflicting \/ StartColumns
  BY <1>10, AnswersStay DEF Malformed, Conflicting, StartColumns
<1>11. CASE Columns
  <2>1. Here \in Endpoint /\ reply \in Whole
    BY <1>11, HereIsEndpoint, WholeIsOne DEF Columns, HereInv, AtEndpoint, Publishing
  <2> QED
    BY <1>11, <2>1, AnswersStay, EnrichmentAssumption DEF Columns, HereInv, AtEndpoint, Publishing, Open
<1>12. CASE Describe
  <2>1. Here \in Endpoint /\ reply \in Whole
    BY <1>12, HereIsEndpoint, WholeIsOne DEF Describe, HereInv, AtEndpoint, Publishing
  <2> QED
    BY <1>12, <2>1, AnswersStay, EnrichmentAssumption DEF Describe, HereInv, AtEndpoint, Publishing,
       Open
<1>13. CASE Failure \/ Partial \/ AllVisited \/ Seal \/ Leave
  BY <1>13, AnswersStay DEF Failure, Partial, AllVisited, Seal, Leave
<1>14. CASE LoseAuthority \/ Die
  BY <1>14, AnswersStay DEF LoseAuthority, Die
<1>15. ASSUME NEW i \in Input, Change(i) PROVE MadeInv'
  BY <1>15, AnswersStay DEF Change
<1> QED
  BY <1>1, <1>2, <1>3, <1>4, <1>5, <1>6, <1>7, <1>8, <1>9, <1>10, <1>11, <1>12, <1>13, <1>14, <1>15
     DEF EnrichmentNext

(* The answer, from the wire to the record. *)
LEMMA HereStays ==
  ASSUME LeafInv, EnrichmentNext
  PROVE  HereInv'
<1> USE DEF leaf, capture, artifacts, running, Step, Ends, LeafInv, LeafType, HereInv, Here, Open,
        Corpus, AtEndpoint, Capturing, Judging, Publishing
<1>1. CASE StudyAdmits \/ CorpusAdmits \/ MakeLeaf \/ Bind \/ Refuse
  BY <1>1, AnswersStay DEF StudyAdmits, CorpusAdmits, Admit, MakeLeaf, Bind, Refuse
<1>2. CASE StayDenied \/ Reuse \/ Resume
  BY <1>2, AnswersStay DEF StayDenied, Reuse, Resume
<1>3. CASE Skip
  BY <1>3, AnswersStay, EndpointsProperties DEF Skip
<1>4. CASE RecoverSource
  <2>1. PICK r \in Original(Here) : source' = [source EXCEPT ![Here] = r]
    BY <1>4 DEF RecoverSource
  <2>2. Here \in Endpoint
    BY <1>4, HereIsEndpoint DEF RecoverSource
  <2>3. source'[Here] = r /\ at' = at /\ reply' = r /\ described' = described
    BY <1>4, <2>1, <2>2 DEF RecoverSource
  <2> QED
    BY <1>4, <2>1, <2>3, AnswersStay, EndpointsProperties DEF RecoverSource
<1>5. CASE Ask
  BY <1>5, AnswersStay, EndpointsProperties DEF Ask
<1>6. CASE NoAnswer
  BY <1>6, AnswersStay DEF NoAnswer
<1>7. ASSUME NEW r \in Reply, Answer(r) PROVE HereInv'
  BY <1>7, AnswersStay DEF Answer
<1>8. CASE Wire
  BY <1>8, AnswersStay DEF Wire
<1>9. CASE Note
  <2>1. reply' \in Answers(Here)'
    BY <1>9, NoteAdds DEF Note
  <2> QED
    BY <1>9, <2>1 DEF Note
<1>10. CASE Index \/ Denied \/ Unacceptable \/ ErrorAnswer
  BY <1>10, AnswersStay DEF Index, Denied, Unacceptable, ErrorAnswer
<1>11. CASE Accept
  BY <1>11, AnswersStay DEF Accept, Original, Whole, Usable
<1>12. CASE Point
  <2>1. Here \in Endpoint
    BY <1>12, HereIsEndpoint DEF Point
  <2> QED
    BY <1>12, <2>1, AnswersStay DEF Point
<1>13. CASE Malformed \/ Conflicting \/ StartColumns
  BY <1>13, AnswersStay DEF Malformed, Conflicting, StartColumns
<1>14. CASE Columns
  <2>1. Here \in Endpoint
    BY <1>14, HereIsEndpoint DEF Columns
  <2> QED
    BY <1>14, <2>1, AnswersStay DEF Columns
<1>15. CASE Describe \/ Failure
  BY <1>15 DEF Describe, Failure
<1>16. CASE Partial \/ AllVisited \/ Seal \/ Leave \/ LoseAuthority
  BY <1>16, AnswersStay DEF Partial, AllVisited, Seal, Leave, LoseAuthority
<1>17. CASE Die
  BY <1>17, AnswersStay DEF Die
<1>18. ASSUME NEW i \in Input, Change(i) PROVE HereInv'
  BY <1>18, AnswersStay DEF Change
<1> QED
  BY <1>1, <1>2, <1>3, <1>4, <1>5, <1>6, <1>7, <1>8, <1>9, <1>10, <1>11, <1>12, <1>13, <1>14, <1>15,
     <1>16, <1>17, <1>18 DEF EnrichmentNext

(* A run passes an endpoint only when it is described or has failed. *)
LEMMA DoneStays ==
  ASSUME LeafInv, EnrichmentNext
  PROVE  DoneInv'
<1> USE EndpointsProperties, EnrichmentAssumption
<1> USE DEF leaf, capture, artifacts, running, Step, Ends, LeafInv, LeafType, HereInv, DoneInv,
        Here, Original, AtEndpoint, Capturing, Judging, Publishing, Working
<1>1. CASE StudyAdmits \/ CorpusAdmits \/ MakeLeaf \/ Bind \/ Refuse
  BY <1>1 DEF StudyAdmits, CorpusAdmits, Admit, MakeLeaf, Bind, Refuse
<1>2. CASE StayDenied \/ Reuse
  BY <1>2 DEF StayDenied, Reuse
<1>3. CASE Resume
  BY <1>3 DEF Resume
<1>4. CASE Skip
  BY <1>4 DEF Skip
<1>5. CASE RecoverSource
  BY <1>5 DEF RecoverSource
<1>6. CASE Ask \/ NoAnswer
  BY <1>6 DEF Ask, NoAnswer
<1>7. ASSUME NEW r \in Reply, Answer(r) PROVE DoneInv'
  BY <1>7 DEF Answer
<1>8. CASE Wire \/ Note \/ Index \/ Denied \/ Unacceptable
  BY <1>8 DEF Wire, Note, Index, Denied, Unacceptable
<1>9. CASE ErrorAnswer \/ Accept \/ Point \/ Malformed \/ Conflicting
  BY <1>9 DEF ErrorAnswer, Accept, Point, Malformed, Conflicting
<1>10. CASE StartColumns \/ Columns
  BY <1>10 DEF StartColumns, Columns
<1>11. CASE Describe
  <2>1. Here \in Endpoint /\ source[Here] # Nothing
    BY <1>11 DEF Describe, Reply
  <2> QED
    BY <1>11, <2>1 DEF Describe
<1>12. CASE Failure
  BY <1>12 DEF Failure
<1>13. CASE Partial \/ AllVisited \/ Seal \/ Leave \/ LoseAuthority
  BY <1>13 DEF Partial, AllVisited, Seal, Leave, LoseAuthority
<1>14. CASE Die
  BY <1>14 DEF Die
<1>15. ASSUME NEW i \in Input, Change(i) PROVE DoneInv'
  BY <1>15 DEF Change
<1> QED
  BY <1>1, <1>2, <1>3, <1>4, <1>5, <1>6, <1>7, <1>8, <1>9, <1>10, <1>11, <1>12, <1>13, <1>14, <1>15
     DEF EnrichmentNext

(* A corpus run starts from accepted answers, and stops at any other. *)
LEMMA CorpusStays ==
  ASSUME LeafInv, EnrichmentNext
  PROVE  CorpusInv'
<1> USE DEF leaf, capture, artifacts, running, Step, Ends, LeafInv, LeafType, CorpusInv, HereInv,
        Corpus, Reply, AtEndpoint, Capturing, Judging, Publishing, Working
<1>1. CASE StudyAdmits \/ CorpusAdmits \/ MakeLeaf \/ Bind \/ Refuse
  BY <1>1 DEF StudyAdmits, CorpusAdmits, Admit, MakeLeaf, Bind, Refuse
<1>2. CASE StayDenied \/ Reuse
  BY <1>2 DEF StayDenied, Reuse
<1>3. CASE Resume
  BY <1>3 DEF Resume, Accounted, DeniedBefore, Corpus, Reply, Odd
<1>4. CASE Skip \/ RecoverSource \/ Ask \/ NoAnswer
  BY <1>4 DEF Skip, RecoverSource, Ask, NoAnswer
<1>5. ASSUME NEW r \in Reply, Answer(r) PROVE CorpusInv'
  BY <1>5 DEF Answer
<1>6. CASE Wire \/ Note \/ Index \/ Denied \/ Unacceptable
  BY <1>6 DEF Wire, Note, Index, Denied, Unacceptable
<1>7. CASE ErrorAnswer \/ Accept \/ Point \/ Malformed \/ Conflicting
  BY <1>7 DEF ErrorAnswer, Accept, Point, Malformed, Conflicting
<1>8. CASE StartColumns \/ Columns \/ Describe \/ Failure \/ Partial
  BY <1>8 DEF StartColumns, Columns, Describe, Failure, Partial
<1>9. CASE AllVisited \/ Seal \/ Leave \/ LoseAuthority \/ Die
  BY <1>9 DEF AllVisited, Seal, Leave, LoseAuthority, Die
<1>10. ASSUME NEW i \in Input, Change(i) PROVE CorpusInv'
  BY <1>10 DEF Change
<1> QED
  BY <1>1, <1>2, <1>3, <1>4, <1>5, <1>6, <1>7, <1>8, <1>9, <1>10 DEF EnrichmentNext

(* Versions only grow, and a leaf is bound to those of its run. *)
LEMMA AuthorityStays ==
  ASSUME LeafInv, EnrichmentNext
  PROVE  AuthorityInv'
<1> USE DEF leaf, capture, artifacts, running, Step, Ends, LeafInv, LeafType, AuthorityInv,
        Unchanged, Same, SameGate, Corpus, Input, LeafPlace
<1>1. CASE StudyAdmits \/ CorpusAdmits
  BY <1>1 DEF StudyAdmits, CorpusAdmits, Admit
<1>2. CASE MakeLeaf
  BY <1>2 DEF MakeLeaf
<1>3. CASE Bind
  BY <1>3 DEF Bind
<1>4. CASE Refuse \/ StayDenied \/ Reuse \/ Resume \/ Skip
  BY <1>4 DEF Refuse, StayDenied, Reuse, Resume, Skip
<1>5. CASE RecoverSource \/ Ask \/ NoAnswer
  BY <1>5 DEF RecoverSource, Ask, NoAnswer
<1>6. ASSUME NEW r \in Reply, Answer(r) PROVE AuthorityInv'
  BY <1>6 DEF Answer
<1>7. CASE Wire \/ Note \/ Index \/ Denied \/ Unacceptable
  BY <1>7 DEF Wire, Note, Index, Denied, Unacceptable
<1>8. CASE ErrorAnswer \/ Accept \/ Point \/ Malformed \/ Conflicting
  BY <1>8 DEF ErrorAnswer, Accept, Point, Malformed, Conflicting
<1>9. CASE StartColumns \/ Columns \/ Describe \/ Failure \/ Partial
  BY <1>9 DEF StartColumns, Columns, Describe, Failure, Partial
<1>10. CASE AllVisited \/ Seal \/ Leave
  BY <1>10 DEF AllVisited, Seal, Leave
<1>11. CASE LoseAuthority
  BY <1>11 DEF LoseAuthority
<1>12. CASE Die
  BY <1>12 DEF Die
<1>13. ASSUME NEW i \in Input, Change(i) PROVE AuthorityInv'
  BY <1>13 DEF Change
<1> QED
  BY <1>1, <1>2, <1>3, <1>4, <1>5, <1>6, <1>7, <1>8, <1>9, <1>10, <1>11, <1>12, <1>13 DEF EnrichmentNext

(* What is sealed has been observed, and stays as it is. *)
LEMMA SealStays ==
  ASSUME LeafInv, EnrichmentNext
  PROVE  SealInv'
<1> USE DEF leaf, capture, artifacts, running, Step, Ends, LeafInv, SealInv
<1>1. CASE StudyAdmits \/ CorpusAdmits \/ MakeLeaf \/ Bind \/ Refuse
  BY <1>1, ObservedStays DEF StudyAdmits, CorpusAdmits, Admit, MakeLeaf, Bind, Refuse
<1>2. CASE StayDenied \/ Reuse \/ Resume \/ Skip \/ RecoverSource
  BY <1>2, ObservedStays DEF StayDenied, Reuse, Resume, Skip, RecoverSource
<1>3. CASE Ask \/ NoAnswer
  BY <1>3, ObservedStays DEF Ask, NoAnswer
<1>4. ASSUME NEW r \in Reply, Answer(r) PROVE SealInv'
  BY <1>4, ObservedStays DEF Answer
<1>5. CASE Wire \/ Note \/ Index \/ Denied \/ Unacceptable
  BY <1>5, ObservedStays DEF Wire, Note, Index, Denied, Unacceptable
<1>6. CASE ErrorAnswer \/ Accept \/ Point \/ Malformed \/ Conflicting
  BY <1>6, ObservedStays DEF ErrorAnswer, Accept, Point, Malformed, Conflicting
<1>7. CASE StartColumns \/ Columns \/ Describe \/ Failure \/ Partial
  BY <1>7, ObservedStays DEF StartColumns, Columns, Describe, Failure, Partial
<1>8. CASE AllVisited
  <2>1. failed = {} /\ index = attempts /\ Named \subseteq raw
    BY <1>8 DEF AllVisited, AttemptsIndexed, FilesInv
  <2>2. ASSUME NEW e \in Endpoint
        PROVE  /\ described[e] \in Usable /\ table[e] = described[e] /\ source[e] = described[e]
               /\ Original(e) = {described[e]}
    <3>1. PICK i \in DOMAIN Endpoints : e = Endpoints[i]
      BY EndpointsProperties
    <3>2. described[e] # Nothing
      BY <1>8, <2>1, <3>1, EndpointsProperties DEF AllVisited, LeafType, DoneInv, Working
    <3> QED
      BY <3>2, EnrichmentAssumption DEF MadeInv, MadeOf, Reply, Whole
  <2>3. \A e \in Endpoint : <<e, described[e]>> \in raw
    BY <2>1, <2>2 DEF Original, Answers, Named
  <2>4. Corpus => \A a \in attempts : a.reply \in Usable \cup {"error"}
    <3> SUFFICES ASSUME Corpus, NEW a \in attempts, a.reply \in Whole
                 PROVE  a.reply \in Usable
      BY <1>8 DEF AllVisited, CorpusInv, Working, Judging
    <3> QED
      BY <2>2 DEF LeafType, Original, Answers
  <2>5. Observed
    BY <2>1, <2>2, <2>3, <2>4 DEF Observed
  <2> QED
    BY <1>8, <2>5, ObservedStays DEF AllVisited
<1>9. CASE Seal
  BY <1>9, ObservedStays DEF Seal, AuthorityInv
<1>10. CASE Leave \/ LoseAuthority \/ Die
  BY <1>10, ObservedStays DEF Leave, LoseAuthority, Die
<1>11. ASSUME NEW i \in Input, Change(i) PROVE SealInv'
  BY <1>11, ObservedStays DEF Change
<1> QED
  BY <1>1, <1>2, <1>3, <1>4, <1>5, <1>6, <1>7, <1>8, <1>9, <1>10, <1>11 DEF EnrichmentNext

(* Every way out of an endpoint leaves a trace of its request. *)
LEMMA AskStays ==
  ASSUME LeafInv, EnrichmentNext
  PROVE  AskInv'
<1> USE DEF leaf, capture, artifacts, running, Step, Ends, LeafInv, LeafType, HereInv, AuthorityInv,
        CorpusInv, AskInv, Spent, Stale, Corpus, Same, Here, AtEndpoint, Capturing, Judging,
        Publishing, Working
<1>1. CASE StudyAdmits \/ CorpusAdmits \/ MakeLeaf \/ Bind \/ Refuse
  BY <1>1 DEF StudyAdmits, CorpusAdmits, Admit, MakeLeaf, Bind, Refuse
<1>2. CASE StayDenied \/ Reuse \/ Resume \/ Skip \/ RecoverSource
  BY <1>2 DEF StayDenied, Reuse, Resume, Skip, RecoverSource
<1>3. CASE Ask
  <2>1. Corpus => ~ Spent(Here)
    <3> SUFFICES ASSUME Corpus
                 PROVE  ~ Spent(Here)
      OBVIOUS
    <3>1. ~ Stale
      BY <1>3 DEF Ask
    <3>2. \A a \in attempts : a.endpoint = Here => a.reply = "error"
      BY <1>3 DEF Ask, Original, Answers
    <3> QED
      BY <1>3, <3>1, <3>2 DEF Ask, Open
  <2>2. Here \in Endpoint
    BY <1>3, HereIsEndpoint DEF Ask
  <2>3. Corpus => asked[Here] <= deaths
    BY <2>1, <2>2
  <2> QED
    BY <1>3, <2>2, <2>3 DEF Ask
<1>4. CASE NoAnswer
  BY <1>4 DEF NoAnswer
<1>5. ASSUME NEW r \in Reply, Answer(r) PROVE AskInv'
  BY <1>5 DEF Answer
<1>6. CASE Wire \/ Note \/ Index
  BY <1>6 DEF Wire, Note, Index
<1>7. CASE Denied
  <2>1. Here \in Endpoint /\ (Corpus => \E a \in attempts : a.endpoint = Here /\ a.reply # "error")
    BY <1>7, HereIsEndpoint DEF Denied, Answers
  <2> QED
    BY <1>7, <2>1 DEF Denied
<1>8. CASE Unacceptable
  <2>1. Here \in Endpoint /\ (Corpus => \E a \in attempts : a.endpoint = Here /\ a.reply # "error")
    BY <1>8, HereIsEndpoint DEF Unacceptable, Answers, Odd
  <2> QED
    BY <1>8, <2>1 DEF Unacceptable
<1>9. CASE ErrorAnswer \/ Accept \/ Point \/ Malformed
  BY <1>9 DEF ErrorAnswer, Accept, Point, Malformed
<1>10. CASE Conflicting
  <2>1. Here \in Endpoint /\ (Corpus => \E a \in attempts : a.endpoint = Here /\ a.reply # "error")
    BY <1>10, HereIsEndpoint DEF Conflicting, Answers, Original, Whole, Usable
  <2> QED
    BY <1>10, <2>1 DEF Conflicting
<1>11. CASE StartColumns \/ Columns
  BY <1>11 DEF StartColumns, Columns
<1>12. CASE Describe
  <2>1. Here \in Endpoint /\ (Corpus => \E a \in attempts : a.endpoint = Here /\ a.reply # "error")
    BY <1>12, HereIsEndpoint DEF Describe, Answers, Original, Whole, Usable
  <2> QED
    BY <1>12, <2>1 DEF Describe
<1>13. CASE Failure \/ Partial \/ AllVisited \/ Seal \/ Leave
  BY <1>13 DEF Failure, Partial, AllVisited, Seal, Leave
<1>14. CASE LoseAuthority
  <2>1. PICK i \in Input : pin[i] < authority[i]
    <3>1. \E i \in Input : pin[i] # authority[i]
      BY <1>14 DEF LoseAuthority
    <3> QED
      BY <3>1
  <2>2. Corpus /\ place \in AtEndpoint => Stale
    BY <1>14, <2>1, EnrichmentAssumption DEF LoseAuthority
  <2> QED
    BY <1>14, <2>2 DEF LoseAuthority
<1>15. CASE Die
  BY <1>15 DEF Die
<1>16. ASSUME NEW i \in Input, Change(i) PROVE AskInv'
  BY <1>16 DEF Change
<1> QED
  BY <1>1, <1>2, <1>3, <1>4, <1>5, <1>6, <1>7, <1>8, <1>9, <1>10, <1>11, <1>12, <1>13, <1>14, <1>15,
     <1>16 DEF EnrichmentNext

(* An empty directory satisfies it. *)
LEMMA InitLeaf == EnrichmentInit => LeafInv
<1> SUFFICES ASSUME EnrichmentInit PROVE LeafInv
  OBVIOUS
<1> USE DEF EnrichmentInit
<1>1. attempts = {} /\ \A e : Answers(e) = {} /\ Original(e) = {}
  BY DEF Answers, Original
<1>2. LeafType
  <2>1. authority \in [Input -> Nat] /\ asked \in [Endpoint -> Nat] /\ source \in [Endpoint -> Reply
     \cup {Nothing}]
    OBVIOUS
  <2> QED
    BY <2>1 DEF LeafType, LeafPlace
<1>5. AuthorityInv
  BY EnrichmentAssumption DEF AuthorityInv
<1>3. FilesInv /\ MadeInv
  BY <1>1 DEF FilesInv, MadeInv, MadeOf, Named, Unnamed
<1>4. HereInv /\ DoneInv /\ CorpusInv /\ SealInv /\ AskInv
  BY DEF HereInv, DoneInv, CorpusInv, SealInv, AskInv, AtEndpoint, Capturing, Judging, Publishing,
     Working
<1> QED
  BY <1>2, <1>3, <1>4, <1>5 DEF LeafInv

(* The inductive invariant of a session's leaf. *)
LEMMA LeafInvHolds == EnrichmentSpec => []LeafInv
<1>1. LeafInv /\ [EnrichmentNext]_enrichmentVars => LeafInv'
  <2> SUFFICES ASSUME LeafInv, [EnrichmentNext]_enrichmentVars
               PROVE  LeafInv'
    OBVIOUS
  <2>1. CASE EnrichmentNext
    BY <2>1, TypeStays, FilesStay, MadeStays, HereStays, DoneStays, CorpusStays, AuthorityStays,
       SealStays, AskStays DEF LeafInv
  <2>2. CASE UNCHANGED enrichmentVars
    BY <2>2 DEF enrichmentVars, leaf, capture, artifacts, running, LeafInv, LeafType, FilesInv, MadeInv,
       MadeOf, HereInv, DoneInv, CorpusInv, AuthorityInv, SealInv, AskInv, Named, Unnamed, Original,
       Answers, Here, Open, Corpus, Unchanged, Observed, Stale, Spent
  <2> QED
    BY <2>1, <2>2
<1> QED
  BY InitLeaf, <1>1, PTL DEF EnrichmentSpec

(* The excuses for refusing a leaf stay, and only Refuse refuses. *)
LEMMA OnlyRefuseRefuses ==
  ASSUME LeafInv, [EnrichmentNext]_enrichmentVars
  PROVE  /\ torn => torn'
         /\ debris => debris'
         /\ attempts \subseteq attempts'
         /\ authority' = [i \in Input |-> 0] => authority = authority'
         /\ outcome' = "refused" /\ outcome # "refused" => Refuse
<1> USE DEF leaf, capture, artifacts, running, Step, Ends
<1>1. CASE UNCHANGED enrichmentVars
  BY <1>1 DEF enrichmentVars
<1>2. CASE StudyAdmits \/ CorpusAdmits \/ MakeLeaf \/ Bind \/ Refuse \/ StayDenied \/ Reuse \/ Resume
  BY <1>2 DEF StudyAdmits, CorpusAdmits, Admit, MakeLeaf, Bind, Refuse, StayDenied, Reuse, Resume
<1>3. CASE Skip \/ RecoverSource \/ Ask \/ NoAnswer \/ Wire \/ Note \/ Index
  BY <1>3 DEF Skip, RecoverSource, Ask, NoAnswer, Wire, Note, Index
<1>4. ASSUME NEW r \in Reply, Answer(r)
      PROVE  UNCHANGED <<torn, debris, attempts, authority, outcome>>
  BY <1>4 DEF Answer
<1>5. CASE Denied \/ Unacceptable \/ ErrorAnswer \/ Accept \/ Point \/ Malformed \/ Conflicting
  BY <1>5 DEF Denied, Unacceptable, ErrorAnswer, Accept, Point, Malformed, Conflicting
<1>6. CASE StartColumns \/ Columns \/ Describe \/ Failure \/ Partial \/ AllVisited \/ Seal \/ Leave
  BY <1>6 DEF StartColumns, Columns, Describe, Failure, Partial, AllVisited, Seal, Leave
<1>7. CASE LoseAuthority
  <2>1. torn => torn'
    BY <1>7, Zenon DEF LoseAuthority
  <2> QED
    BY <1>7, <2>1 DEF LoseAuthority
<1>10. CASE Die
  <2>1. (torn => torn') /\ (debris => debris')
    BY <1>10, Zenon DEF Die
  <2>2. UNCHANGED <<attempts, authority>> /\ outcome' = Nothing
    BY <1>10 DEF Die
  <2> QED
    BY <2>1, <2>2, EnrichmentAssumption
<1>8. ASSUME NEW i \in Input, Change(i)
      PROVE  UNCHANGED <<torn, debris, attempts, outcome>> /\ authority'[i] # 0
  BY <1>8 DEF Change, LeafInv, LeafType
<1>9. (\E i \in Input : Change(i)) => UNCHANGED <<torn, debris, attempts, outcome>> /\ authority' #
     [i \in Input |-> 0]
  BY <1>8
<1> QED
  BY <1>1, <1>2, <1>3, <1>4, <1>5, <1>6, <1>7, <1>9, <1>10 DEF EnrichmentNext

(* Without an excuse a run can account for every file. *)
LEMMA RefusedStays ==
  ASSUME LeafInv, RefusedOnlyIfTorn, [EnrichmentNext]_enrichmentVars
  PROVE  RefusedOnlyIfTorn'
<1> SUFFICES ASSUME outcome' = "refused", ~ torn', ~ debris', authority' = [i \in Input |-> 0],
                    \A a \in attempts' : a.reply \notin Odd \cup {"broken", "foreign"}
             PROVE  FALSE
  BY DEF RefusedOnlyIfTorn
<1>1. /\ ~ torn /\ ~ debris /\ authority = [i \in Input |-> 0]
      /\ \A a \in attempts : a.reply \notin Odd \cup {"broken", "foreign"}
  BY OnlyRefuseRefuses
<1>2. Refuse
  BY <1>1, OnlyRefuseRefuses DEF RefusedOnlyIfTorn
<1>3. AttemptsIndexed
  BY <1>1, <1>2 DEF AttemptsIndexed, LeafInv, FilesInv, Named, Refuse
<1>4. Corpus => bound = pin
  <2>1. pin = authority
    BY <1>1 DEF LeafInv, LeafType, AuthorityInv
  <2> QED
    BY <1>1, <1>2, <2>1 DEF LeafInv, AuthorityInv, Unchanged, Refuse
<1>5. raw \subseteq {<<a.endpoint, a.reply>> : a \in attempts}
  BY <1>1, <1>2 DEF LeafInv, FilesInv, Named, Unnamed, Refuse
<1>6. ASSUME NEW e \in Endpoint
      PROVE  /\ table[e] # Nothing => source[e] # Nothing
             /\ source[e] # Nothing => Readable(e)
  <2>1. MadeOf(e)
    BY DEF LeafInv, MadeInv
  <2>2. source[e] # Nothing => source[e] \in Usable
    BY <1>1, <2>1 DEF MadeOf, Original, Answers, Whole
  <2> QED
    BY <2>1, <2>2 DEF MadeOf, Readable
<1>7. Accounted
  BY <1>1, <1>4, <1>5, <1>6 DEF Accounted
<1> QED
  BY <1>2, <1>3, <1>7 DEF Refuse

(* What a run says of a leaf is so (detailed/openf1.py,                     *)

(* detailed/corpus_openf1.py): a complete report claims nothing that was    *)
(* not observed, and a leaf is refused only if it was cut short, holds an   *)
(* answer no run may use, or belongs to another authority; for any          *)
(* endpoints and any number of deaths and changes. *)
THEOREM VerdictsAreTrue == EnrichmentSpec => []VerdictsHold
<1>1. EnrichmentInit => RefusedOnlyIfTorn
  BY EnrichmentAssumption DEF EnrichmentInit, RefusedOnlyIfTorn
<1>2. LeafInv => CompleteIsObserved
  BY DEF LeafInv, SealInv, CompleteIsObserved
<1>3. LeafInv /\ RefusedOnlyIfTorn /\ [EnrichmentNext]_enrichmentVars => RefusedOnlyIfTorn'
  BY RefusedStays
<1> QED
  BY <1>1, <1>2, <1>3, LeafInvHolds, PTL DEF EnrichmentSpec, VerdictsHold

(* A request is sent by Ask alone. *)
LEMMA OnlyAskAsks ==
  ASSUME EnrichmentNext, asked' # asked
  PROVE  Ask
<1> USE DEF leaf, capture, artifacts, running, Step, Ends
<1>1. CASE StudyAdmits \/ CorpusAdmits \/ MakeLeaf \/ Bind \/ Refuse \/ StayDenied \/ Reuse \/ Resume
  BY <1>1 DEF StudyAdmits, CorpusAdmits, Admit, MakeLeaf, Bind, Refuse, StayDenied, Reuse, Resume
<1>2. CASE Skip \/ RecoverSource \/ NoAnswer \/ (\E r \in Reply : Answer(r)) \/ Wire \/ Note \/ Index
  BY <1>2 DEF Skip, RecoverSource, NoAnswer, Answer, Wire, Note, Index
<1>3. CASE Denied \/ Unacceptable \/ ErrorAnswer \/ Accept \/ Point \/ Malformed \/ Conflicting
  BY <1>3 DEF Denied, Unacceptable, ErrorAnswer, Accept, Point, Malformed, Conflicting
<1>4. CASE StartColumns \/ Columns \/ Describe \/ Failure \/ Partial \/ AllVisited \/ Seal \/ Leave
  BY <1>4 DEF StartColumns, Columns, Describe, Failure, Partial, AllVisited, Seal, Leave
<1>5. CASE LoseAuthority \/ Die \/ (\E i \in Input : Change(i))
  BY <1>5 DEF LoseAuthority, Die, Change
<1> QED
  BY <1>1, <1>2, <1>3, <1>4, <1>5 DEF EnrichmentNext

AskStep ==
    \A e \in Endpoint : asked'[e] # asked[e] =>
        /\ \A r \in Whole : <<e, r>> \notin raw
        /\ Corpus =>
            /\ asked[e] <= deaths
            /\ \A f \in Endpoint : <<f, "denied">> \notin raw
            /\ e \notin failed

(* What was answered whole is never asked for again; the corpus asks again  *)

(* only for what a dying run had in flight, and never after a denial or a   *)
(* noted failure. *)
THEOREM AskedOnlyOnce == EnrichmentSpec => AskedOnce
<1>1. ASSUME LeafInv, [EnrichmentNext]_enrichmentVars
      PROVE  [AskStep]_enrichmentVars
  <2> SUFFICES ASSUME NEW e \in Endpoint, asked'[e] # asked[e]
               PROVE  /\ \A r \in Whole : <<e, r>> \notin raw
                      /\ Corpus => /\ asked[e] <= deaths
                                   /\ \A f \in Endpoint : <<f, "denied">> \notin raw
                                   /\ e \notin failed
    BY DEF AskStep
  <2>1. Ask
    BY <1>1, OnlyAskAsks DEF enrichmentVars
  <2>2. e = Here /\ Here \in Endpoint
    BY <1>1, <2>1, HereIsEndpoint DEF Ask, Step
  <2>3. Original(e) = {} /\ Open(e) /\ place = "visit"
    BY <2>1, <2>2 DEF Ask, Step
  <2>4. raw \subseteq Named
    BY <1>1, <2>3 DEF LeafInv, FilesInv, Unnamed, Working
  <2>5. \A r \in Whole : <<e, r>> \notin raw
    BY <2>3, <2>4 DEF Named, Original, Answers
  <2>6. ASSUME Corpus
        PROVE  bound = pin /\ \A a \in attempts : a.reply \in Whole \cup {"error"}
    BY <1>1, <2>3, <2>6 DEF LeafInv, CorpusInv, Working, Judging
  <2>7. ASSUME Corpus
        PROVE  ~ Spent(e)
    <3>1. ~ Stale
      BY <1>1, <2>1, <2>6, <2>7 DEF Ask, Same, Stale, LeafInv, LeafType
    <3>2. \A a \in attempts : a.endpoint = e => a.reply = "error"
      BY <2>3, <2>6, <2>7 DEF Original, Answers
    <3> QED
      BY <2>3, <2>7, <3>1, <3>2 DEF Spent, Open, AtEndpoint, Capturing, Judging, Publishing
  <2>8. Corpus => asked[e] <= deaths
    BY <1>1, <2>7 DEF LeafInv, AskInv
  <2>9. Corpus => \A f \in Endpoint : <<f, "denied">> \notin raw
    BY <2>4, <2>6 DEF Named, Whole, Usable
  <2>10. Corpus => e \notin failed
    BY <2>3 DEF Open
  <2> QED
    BY <2>5, <2>8, <2>9, <2>10
<1>2. EnrichmentSpec => [][LeafInv /\ [EnrichmentNext]_enrichmentVars]_enrichmentVars
  BY LeafInvHolds, PTL DEF EnrichmentSpec
<1> QED
  BY <1>1, LeafInvHolds, PTL DEF EnrichmentSpec, AskedOnce, AskStep
===============================================================================
