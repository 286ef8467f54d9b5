------------------------------ MODULE ReplayProofs ------------------------------
(***************************************************************************)
(* Proofs about a session's replay and the races simulated from it, for    *)
(* every table of rows, interval of checkpoints, time and strategy.        *)
(*                                                                         *)
(* PitStopsPairUp: the observations of the pits, folded into stops, are    *)
(* in one stop each.  StateIsReplay: wherever the checkpoints are, a state *)
(* is that of all events up to the time, none of them back in time.        *)
(* NothingOfTheFuture: it is that of the session that ends at the time.    *)
(* RaceAsAdvised: the race from there on is driven as it was advised, and  *)
(* classified by laps, then times.                                         *)
(* AdviceKnowsNoFuture: what is forecast or simulated at a time, or put    *)
(* together as an example of it, is that of a session that ends there.     *)
(*                                                                         *)
(* A fold is defined by a choice, and no theorem about it is at hand that  *)
(* could be used here; so the subsets of a finite set are taken by         *)
(* well-founded induction first, and folds from there.                     *)
(***************************************************************************)
EXTENDS RaceStrategy, FiniteSetTheorems, SequenceTheorems, WellFoundedInduction, TLAPS

(* Well-founded induction on the subsets of a finite set, without operators. *)
LEMMA SubsetInduction ==
  ASSUME NEW S, IsFiniteSet(S), NEW T, T \subseteq SUBSET S,
         \A s \in SUBSET S : (\A u \in SUBSET s : u # s => u \in T) => s \in T
  PROVE  T = SUBSET S
<1> DEFINE B == (SUBSET S) \ T
           R == StrictSubsetOrdering(S)
           D == FiniteSubsetsOf(S)
<1>1. IsWellFoundedOn(R, D)
  BY FS_StrictSubsetOrderingWellFounded
<1>2. B \subseteq D
  BY FS_Subset DEF FiniteSubsetsOf
<1>3. \A s, u \in SUBSET S : <<u, s>> \in R <=> u \subseteq s /\ u # s
  BY DEF StrictSubsetOrdering
<1>4. B \subseteq SUBSET S
  OBVIOUS
<1> HIDE DEF R, D
<1> SUFFICES ASSUME B # {} PROVE FALSE
  OBVIOUS
<1>5. PICK x \in B : \A y \in B : ~ (<<y, x>> \in R)
  <2> HIDE DEF B
  <2>1. B \subseteq D /\ B # {} /\ IsWellFoundedOn(R, D)
    BY <1>1, <1>2
  <2> QED
    BY <2>1, WFMin
<1>6. \A u \in SUBSET x : u # x => u \in T
  <2> SUFFICES ASSUME NEW u \in SUBSET x, u # x, u \notin T PROVE FALSE
    OBVIOUS
  <2>1. x \in SUBSET S /\ u \in SUBSET S
    BY <1>4, <1>5
  <2>2. u \in B
    BY <2>1
  <2>3. <<u, x>> \in R
    <3> HIDE DEF B
    <3> QED
      BY <1>3, <2>1
  <2> QED
    BY <2>2, <2>3, <1>5
<1> QED
  BY <1>5, <1>6

(* A set of integers that is finite and not empty has a greatest element. *)
LEMMA MaxIn ==
  ASSUME NEW S \in SUBSET Int, IsFiniteSet(S), S # {}
  PROVE  Max(S) \in S /\ \A x \in S : Max(S) >= x
<1> DEFINE T == {s \in SUBSET S : s # {} => \E m \in s : \A x \in s : m >= x}
<1>1. ASSUME NEW s \in SUBSET S, \A u \in SUBSET s : u # s => u \in T
      PROVE  s \in T
  <2> SUFFICES ASSUME s # {} PROVE \E m \in s : \A x \in s : m >= x
    OBVIOUS
  <2>1. PICK y \in s : TRUE
    OBVIOUS
  <2>2. CASE s = {y}
    BY <2>2
  <2>3. CASE s # {y}
    <3>1. s \ {y} \in T /\ s \ {y} # {}
      BY <1>1, <2>1, <2>3
    <3>2. PICK m \in s \ {y} : \A x \in s \ {y} : m >= x
      BY <3>1
    <3>3. CASE m >= y
      BY <3>2, <3>3
    <3>4. CASE ~ (m >= y)
      <4>1. y \in Int /\ m \in Int /\ \A x \in s : x \in Int
        OBVIOUS
      <4>2. \A x \in s : y >= x
        BY <3>2, <3>4, <4>1
      <4> QED
        BY <4>2
    <3> QED
      BY <3>3, <3>4
  <2> QED
    BY <2>2, <2>3
<1>2. T = SUBSET S
  <2>1. T \subseteq SUBSET S
    OBVIOUS
  <2> HIDE DEF T
  <2> QED
    BY <1>1, <2>1, SubsetInduction
<1>3. \E m \in S : \A x \in S : m >= x
  BY <1>2
<1> QED
  BY <1>3 DEF Max

(* Induction on the natural numbers up to a bound, without operators. *)
LEMMA UpTo ==
  ASSUME NEW N \in Nat, NEW P, 0 \in P, \A n \in 0..(N - 1) : n \in P => n + 1 \in P
  PROVE  0..N \subseteq P
<1> DEFINE T == {s \in SUBSET (0..N) : \A n \in 0..N : s = 0..n => n \in P}
<1>1. ASSUME NEW s \in SUBSET (0..N), \A u \in SUBSET s : u # s => u \in T
      PROVE  s \in T
  <2> SUFFICES ASSUME NEW n \in 0..N, s = 0..n PROVE n \in P
    OBVIOUS
  <2>1. CASE n = 0
    BY <2>1
  <2>2. CASE n # 0
    <3>1. 0..(n - 1) \in SUBSET s /\ 0..(n - 1) # s /\ n - 1 \in 0..(N - 1)
      BY <2>2
    <3>2. 0..(n - 1) \in T
      BY <3>1, <1>1
    <3>3. n - 1 \in P
      BY <3>1, <3>2
    <3>4. (n - 1) + 1 = n
      OBVIOUS
    <3> QED
      BY <3>1, <3>3, <3>4
  <2> QED
    BY <2>1, <2>2
<1>2. T = SUBSET (0..N)
  <2>1. T \subseteq SUBSET (0..N) /\ IsFiniteSet(0..N)
    BY FS_Interval
  <2> HIDE DEF T
  <2> QED
    BY <1>1, <2>1, SubsetInduction
<1>3. \A n \in 0..N : 0..n \in T
  <2>1. \A n \in 0..N : 0..n \subseteq 0..N
    OBVIOUS
  <2> HIDE DEF T
  <2> QED
    BY <1>2, <2>1
<1> QED
  BY <1>3

--------------------------------------------------------------------------------
(* Folds.  FoldLeft chooses a recursive function on the subsets of a sequence's *)
(* domain; by induction there is one.  Step k is what is folded: the events on  *)
(* the state, or the observations of the pits into stops.                       *)
Step(k, acc, e) == IF k = "apply" THEN Apply(acc, e) ELSE Pair(acc, e)
IsFold(it, k, s, q, S) ==
  it = [D \in SUBSET S |-> IF D = {} THEN s ELSE Step(k, it[D \ {Max(D)}], q[Max(D)])]
Fold(k, s, q, S) == (CHOOSE it : IsFold(it, k, s, q, S))[S]

(* The equation of a fold has one solution. *)
LEMMA FoldUnique ==
  ASSUME NEW k, NEW s, NEW q, NEW S \in SUBSET Int, IsFiniteSet(S),
         NEW a, NEW b, IsFold(a, k, s, q, S), IsFold(b, k, s, q, S)
  PROVE  a = b
<1> DEFINE T == {D \in SUBSET S : a[D] = b[D]}
<1>1. /\ a = [D \in SUBSET S |-> a[D]] /\ b = [D \in SUBSET S |-> b[D]]
      /\ a[{}] = s /\ b[{}] = s
      /\ \A D \in SUBSET S : D # {} =>
            /\ a[D] = Step(k, a[D \ {Max(D)}], q[Max(D)])
            /\ b[D] = Step(k, b[D \ {Max(D)}], q[Max(D)])
  BY DEF IsFold
<1>2. ASSUME NEW D \in SUBSET S, \A u \in SUBSET D : u # D => u \in T
      PROVE  D \in T
  <2>1. CASE D = {}
    BY <2>1, <1>1
  <2>2. CASE D # {}
    <3>1. D \ {Max(D)} \in SUBSET D /\ D \ {Max(D)} # D
      BY <2>2, MaxIn, FS_Subset
    <3>2. a[D \ {Max(D)}] = b[D \ {Max(D)}]
      BY <3>1, <1>2
    <3> QED
      BY <2>2, <3>2, <1>1
  <2> QED
    BY <2>1, <2>2
<1>3. T = SUBSET S
  <2>1. T \subseteq SUBSET S
    OBVIOUS
  <2> HIDE DEF T
  <2> QED
    BY <1>2, <2>1, SubsetInduction
<1> QED
  BY <1>1, <1>3

Folds(k, s, q, S) ==
  /\ S = {} => Fold(k, s, q, S) = s
  /\ S # {} => Fold(k, s, q, S) = Step(k, Fold(k, s, q, S \ {Max(S)}), q[Max(S)])

(* It has a solution: the folds of the smaller sets make up the next one. *)
LEMMA FoldSolved ==
  ASSUME NEW k, NEW s, NEW q, NEW S \in SUBSET Int, IsFiniteSet(S)
  PROVE  /\ Folds(k, s, q, S)
         /\ \E it : IsFold(it, k, s, q, S)
<1> DEFINE T == {D \in SUBSET S : Folds(k, s, q, D) /\ \E it : IsFold(it, k, s, q, D)}
<1>2. ASSUME NEW D \in SUBSET S, \A u \in SUBSET D : u # D => u \in T
      PROVE  D \in T
  <2> DEFINE h == [u \in SUBSET D |-> IF u = {} THEN s
                                      ELSE Step(k, Fold(k, s, q, u \ {Max(u)}), q[Max(u)])]
             it == CHOOSE it : IsFold(it, k, s, q, D)
  <2>1. \A u \in SUBSET D : u # D => h[u] = Fold(k, s, q, u)
    BY <1>2 DEF Folds
  <2>2. \A u \in SUBSET D : u # {} => u \ {Max(u)} \in SUBSET D /\ u \ {Max(u)} # D
    <3> SUFFICES ASSUME NEW u \in SUBSET D, u # {}
                 PROVE  u \ {Max(u)} \in SUBSET D /\ u \ {Max(u)} # D
      OBVIOUS
    <3>1. Max(u) \in u
      BY FS_Subset, MaxIn
    <3> QED
      BY <3>1
  <2>3. IsFold(h, k, s, q, D)
    <3>1. \A u \in SUBSET D : h[u] = IF u = {} THEN s ELSE Step(k, h[u \ {Max(u)}], q[Max(u)])
      BY <2>1, <2>2
    <3>2. h = [u \in SUBSET D |-> h[u]]
      OBVIOUS
    <3> HIDE DEF h
    <3> QED
      BY <3>1, <3>2 DEF IsFold
  <2> HIDE DEF h
  <2>4. IsFold(it, k, s, q, D)
    BY <2>3
  <2>5. it = h
    <3>1. IsFiniteSet(D)
      BY FS_Subset
    <3> HIDE DEF it
    <3> QED
      BY <2>3, <2>4, <3>1, FoldUnique
  <2>6. Fold(k, s, q, D) = h[D]
    BY <2>5 DEF Fold
  <2>7. Folds(k, s, q, D)
    BY <2>6 DEF h, Folds
  <2> QED
    BY <2>3, <2>7
<1>3. T = SUBSET S
  <2>1. T \subseteq SUBSET S
    OBVIOUS
  <2> HIDE DEF T
  <2> QED
    BY <1>2, <2>1, SubsetInduction
<1> QED
  BY <1>3

(* Sequences that agree on the set folded over give the same. *)
LEMMA FoldSame ==
  ASSUME NEW k, NEW s, NEW q, NEW r, NEW S \in SUBSET Int, IsFiniteSet(S),
         \A i \in S : q[i] = r[i]
  PROVE  Fold(k, s, q, S) = Fold(k, s, r, S)
<1> DEFINE T == {D \in SUBSET S : Fold(k, s, q, D) = Fold(k, s, r, D)}
<1>1. ASSUME NEW D \in SUBSET S, \A u \in SUBSET D : u # D => u \in T
      PROVE  D \in T
  <2>1. Folds(k, s, q, D) /\ Folds(k, s, r, D)
    BY FS_Subset, FoldSolved
  <2>2. CASE D = {}
    BY <2>1, <2>2 DEF Folds
  <2>3. CASE D # {}
    <3>1. Max(D) \in D
      BY <2>3, FS_Subset, MaxIn
    <3>2. D \ {Max(D)} \in T
      BY <3>1, <1>1
    <3> QED
      BY <2>1, <2>3, <3>1, <3>2 DEF Folds
  <2> QED
    BY <2>2, <2>3
<1>2. T = SUBSET S
  <2>1. T \subseteq SUBSET S
    OBVIOUS
  <2> HIDE DEF T
  <2> QED
    BY <1>1, <2>1, SubsetInduction
<1> QED
  BY <1>2

(* The fold of the first n + 1 is a step from that of the first n. *)
LEMMA FoldNext ==
  ASSUME NEW k, NEW s, NEW q, NEW n \in Nat
  PROVE  /\ Fold(k, s, q, {}) = s
         /\ Fold(k, s, q, 1..(n + 1)) = Step(k, Fold(k, s, q, 1..n), q[n + 1])
<1>1. IsFiniteSet(1..(n + 1)) /\ IsFiniteSet({})
  BY FS_Interval, FS_EmptySet
<1>2. Folds(k, s, q, 1..(n + 1)) /\ Folds(k, s, q, {})
  BY <1>1, FoldSolved
<1>3. 1..(n + 1) # {} /\ 1..(n + 1) \in SUBSET Int
  OBVIOUS
<1>4. Max(1..(n + 1)) \in 1..(n + 1) /\ \A x \in 1..(n + 1) : Max(1..(n + 1)) >= x
  BY <1>1, <1>3, MaxIn
<1>5. Max(1..(n + 1)) = n + 1
  BY <1>4
<1>6. (1..(n + 1)) \ {n + 1} = 1..n
  OBVIOUS
<1> QED
  BY <1>2, <1>3, <1>5, <1>6 DEF Folds

(* What the library computes is such a fold. *)
LEMMA ReplayedFold ==
  ASSUME NEW s, NEW q, DOMAIN q \in SUBSET Int, IsFiniteSet(DOMAIN q)
  PROVE  Replayed(s, q) = Fold("apply", s, q, DOMAIN q)
<1> DEFINE S == DOMAIN q
           Is(it) == it = [D \in SUBSET S |-> IF D = {} THEN s ELSE Apply(it[D \ {Max(D)}], q[Max(D)])]
           it == CHOOSE it : Is(it)
<1>1. Replayed(s, q) = it[S]
  BY DEF Replayed, FoldLeft, MapThenFoldSet
<1>2. \A f : Is(f) <=> IsFold(f, "apply", s, q, S)
  BY DEF IsFold, Step
<1>3. PICK f : IsFold(f, "apply", s, q, S)
  BY FoldSolved
<1>4. Is(it)
  BY <1>2, <1>3
<1> HIDE DEF it, Is
<1>5. IsFold(it, "apply", s, q, S) /\ IsFold(CHOOSE g : IsFold(g, "apply", s, q, S), "apply", s, q, S)
  BY <1>2, <1>3, <1>4
<1>6. it = CHOOSE g : IsFold(g, "apply", s, q, S)
  BY <1>5, FoldUnique
<1> QED
  BY <1>1, <1>6 DEF Fold

(* What Paired folds, as a Fold. *)
LEMMA PairedFold ==
  ASSUME NEW s, NEW q, DOMAIN q \in SUBSET Int, IsFiniteSet(DOMAIN q)
  PROVE  FoldLeft(Pair, s, q) = Fold("pair", s, q, DOMAIN q)
<1> DEFINE S == DOMAIN q
           Is(it) == it = [D \in SUBSET S |-> IF D = {} THEN s ELSE Pair(it[D \ {Max(D)}], q[Max(D)])]
           it == CHOOSE it : Is(it)
<1>1. FoldLeft(Pair, s, q) = it[S]
  BY DEF FoldLeft, MapThenFoldSet
<1>2. \A f : Is(f) <=> IsFold(f, "pair", s, q, S)
  BY DEF IsFold, Step
<1>3. PICK f : IsFold(f, "pair", s, q, S)
  BY FoldSolved
<1>4. Is(it)
  BY <1>2, <1>3
<1> HIDE DEF it, Is
<1>5. IsFold(it, "pair", s, q, S) /\ IsFold(CHOOSE g : IsFold(g, "pair", s, q, S), "pair", s, q, S)
  BY <1>2, <1>3, <1>4
<1>6. it = CHOOSE g : IsFold(g, "pair", s, q, S)
  BY <1>5, FoldUnique
<1> QED
  BY <1>1, <1>6 DEF Fold

--------------------------------------------------------------------------------
(* Order.  On keys of one length Before is a strict order, and total where they *)
(* differ; so Ordered lists every element of the domain once, in that order.    *)
Keys(m) == [1..m -> Int]

(* Before is a strict total order on the lists of integers of one length. *)
LEMMA BeforeOrders ==
  ASSUME NEW m \in Nat, NEW a \in Keys(m), NEW b \in Keys(m), NEW c \in Keys(m)
  PROVE  /\ ~ Before(a, a)
         /\ Before(a, b) /\ Before(b, c) => Before(a, c)
         /\ Before(a, b) => ~ Before(b, a)
         /\ a # b => Before(a, b) \/ Before(b, a)
<1>0. \A x \in Keys(m) : DOMAIN x = 1..m /\ \A i \in 1..m : x[i] \in Int
  BY DEF Keys
<1>1. ~ Before(a, a)
  BY <1>0 DEF Before
<1>2. ASSUME NEW x \in Keys(m), NEW y \in Keys(m), NEW z \in Keys(m), Before(x, y), Before(y, z)
      PROVE  Before(x, z)
  <2>1. PICK i \in 1..m : x[i] < y[i] /\ \A j \in 1..(i - 1) : x[j] = y[j]
    BY <1>0, <1>2 DEF Before
  <2>2. PICK k \in 1..m : y[k] < z[k] /\ \A j \in 1..(k - 1) : y[j] = z[j]
    BY <1>0, <1>2 DEF Before
  <2>3. CASE i <= k
    <3>1. x[i] < z[i] /\ \A j \in 1..(i - 1) : x[j] = z[j]
      <4>1. i = k \/ i \in 1..(k - 1)
        BY <2>3
      <4>2. y[i] <= z[i]
        BY <4>1, <2>2, <1>0
      <4>3. x[i] < z[i]
        BY <4>2, <2>1, <1>0
      <4>4. \A j \in 1..(i - 1) : j \in 1..(k - 1)
        BY <2>3
      <4> QED
        BY <4>3, <4>4, <2>1, <2>2
    <3> QED
      BY <3>1, <1>0 DEF Before
  <2>4. CASE k < i
    <3>1. k \in 1..(i - 1) /\ \A j \in 1..(k - 1) : j \in 1..(i - 1)
      BY <2>4
    <3>2. x[k] < z[k] /\ \A j \in 1..(k - 1) : x[j] = z[j]
      BY <3>1, <2>1, <2>2
    <3> QED
      BY <3>2, <1>0 DEF Before
  <2> QED
    BY <2>3, <2>4
<1>3. Before(a, b) => ~ Before(b, a)
  <2> SUFFICES ASSUME Before(a, b), Before(b, a) PROVE FALSE
    OBVIOUS
  <2>1. Before(a, a)
    BY <1>2
  <2> QED
    BY <1>1, <2>1
<1>4. a # b => Before(a, b) \/ Before(b, a)
  <2> SUFFICES ASSUME ~ Before(a, b), ~ Before(b, a) PROVE a = b
    OBVIOUS
  <2> DEFINE P == {n \in 0..m : \A j \in 1..n : a[j] = b[j]}
  <2>1. 0 \in P
    OBVIOUS
  <2>2. ASSUME NEW n \in 0..(m - 1), n \in P PROVE n + 1 \in P
    <3>1. n + 1 \in 1..m /\ \A j \in 1..((n + 1) - 1) : a[j] = b[j]
      BY <2>2
    <3>2. ~ (a[n + 1] < b[n + 1]) /\ ~ (b[n + 1] < a[n + 1])
      BY <3>1, <1>0 DEF Before
    <3>3. a[n + 1] = b[n + 1]
      BY <3>1, <3>2, <1>0
    <3>4. \A j \in 1..(n + 1) : j = n + 1 \/ j \in 1..n
      OBVIOUS
    <3>5. \A j \in 1..(n + 1) : a[j] = b[j]
      BY <3>3, <3>4, <2>2
    <3> QED
      BY <3>5
  <2>3. 0..m \subseteq P
    <3> HIDE DEF P
    <3> QED
      BY <2>1, <2>2, UpTo
  <2>4. \A j \in 1..m : a[j] = b[j]
    BY <2>3
  <2> QED
    BY <2>4 DEF Keys
<1> QED
  BY <1>1, <1>2, <1>3, <1>4

(* Of two keys in order the first components are. *)
LEMMA BeforeFirst ==
  ASSUME NEW m \in Nat, 2 <= m, NEW a \in Keys(m), NEW b \in Keys(m), Before(a, b)
  PROVE  a[1] <= b[1] /\ (a[1] = b[1] => a[2] <= b[2])
<1>1. /\ DOMAIN a = 1..m /\ \A i \in 1..m : a[i] \in Int /\ b[i] \in Int
  BY DEF Keys
<1>2. PICK i \in 1..m : a[i] < b[i] /\ \A j \in 1..(i - 1) : a[j] = b[j]
  BY <1>1 DEF Before
<1>3. a[1] \in Int /\ b[1] \in Int /\ a[2] \in Int /\ b[2] \in Int
  BY <1>1
<1>4. CASE i = 1
  BY <1>2, <1>3, <1>4
<1>5. CASE i = 2
  <2>1. 1 \in 1..(i - 1)
    BY <1>5
  <2> QED
    BY <2>1, <1>2, <1>3, <1>5
<1>6. CASE i > 2
  <2>1. 1 \in 1..(i - 1) /\ 2 \in 1..(i - 1)
    BY <1>6
  <2> QED
    BY <2>1, <1>2, <1>3
<1> QED
  BY <1>4, <1>5, <1>6

Lists(q, key) ==
  LET S == DOMAIN key
  IN /\ q \in [1..Cardinality(S) -> S] /\ q \in Seq(S) /\ Len(q) = Cardinality(S)
     /\ \A e \in S : \E i \in 1..Len(q) : q[i] = e
     /\ \A i, j \in 1..Len(q) : i < j => Before(key[q[i]], key[q[j]])

(* Ordered lists a finite set whose keys differ, each element once, by key. *)
LEMMA OrderedLists ==
  ASSUME NEW key, IsFiniteSet(DOMAIN key), NEW m \in Nat,
         \A e \in DOMAIN key : key[e] \in Keys(m),
         \A e, f \in DOMAIN key : key[e] = key[f] => e = f
  PROVE  Lists(Ordered(key), key)
<1> DEFINE S == DOMAIN key
           n == Cardinality(S)
           Below(e) == {f \in S : Before(key[f], key[e])}
           rank == [e \in S |-> Cardinality(Below(e))]
           q == Ordered(key)
<1>1. n \in Nat
  BY FS_CardinalityType
<1>2. ASSUME NEW e \in S
      PROVE  IsFiniteSet(Below(e)) /\ rank[e] \in 0..(n - 1)
  <2>1. IsFiniteSet(Below(e)) /\ e \notin Below(e) /\ Below(e) \in SUBSET (S \ {e})
    BY FS_Subset, BeforeOrders
  <2>2. IsFiniteSet(S \ {e}) /\ Cardinality(S \ {e}) = n - 1
    BY FS_RemoveElement
  <2>3. Cardinality(Below(e)) <= n - 1 /\ Cardinality(Below(e)) \in Nat
    BY <2>1, <2>2, FS_Subset, FS_CardinalityType
  <2> QED
    BY <2>1, <2>3, <1>1
<1>3. ASSUME NEW e \in S, NEW f \in S, Before(key[e], key[f])
      PROVE  rank[e] < rank[f]
  <2>1. Below(e) \cup {e} \in SUBSET Below(f) /\ e \notin Below(e)
    BY <1>3, BeforeOrders
  <2>2. IsFiniteSet(Below(e)) /\ IsFiniteSet(Below(f)) /\ rank[e] \in Nat /\ rank[f] \in Nat
    BY <1>2
  <2>3. Cardinality(Below(e) \cup {e}) = Cardinality(Below(e)) + 1
    BY <2>1, <2>2, FS_AddElement
  <2>4. Cardinality(Below(e) \cup {e}) <= Cardinality(Below(f))
    BY <2>1, <2>2, FS_Subset
  <2> QED
    BY <2>2, <2>3, <2>4
<1>4. \A e, f \in S : rank[e] = rank[f] => e = f
  <2> SUFFICES ASSUME NEW e \in S, NEW f \in S, e # f PROVE rank[e] # rank[f]
    OBVIOUS
  <2>1. Before(key[e], key[f]) \/ Before(key[f], key[e])
    BY BeforeOrders
  <2>2. \A x \in S : rank[x] \in 0..(n - 1)
    BY <1>2
  <2>3. rank[e] \in Int /\ rank[f] \in Int
    <3> HIDE DEF rank, n
    <3> QED
      BY <2>2, <1>1
  <2> HIDE DEF rank
  <2> QED
    BY <2>1, <2>3, <1>3
<1>5. \A i \in 1..n : \E e \in S : rank[e] = i - 1
  <2>1. rank \in [S -> 0..(n - 1)]
    <3>1. \A e \in S : rank[e] \in 0..(n - 1)
      BY <1>2
    <3>2. rank = [e \in S |-> rank[e]]
      OBVIOUS
    <3> HIDE DEF rank
    <3> QED
      BY <3>1, <3>2
  <2>2. rank \in Injection(S, 0..(n - 1))
    <3> HIDE DEF rank
    <3> QED
      BY <2>1, <1>4 DEF Injection, IsInjective
  <2>3. IsFiniteSet(0..(n - 1)) /\ Cardinality(0..(n - 1)) = n
    BY <1>1, FS_Interval
  <2>4. rank \in Surjection(S, 0..(n - 1))
    <3> HIDE DEF rank
    <3> QED
      BY <2>2, <2>3, FS_Injection
  <2> SUFFICES ASSUME NEW i \in 1..n PROVE \E e \in S : rank[e] = i - 1
    OBVIOUS
  <2>5. i - 1 \in 0..(n - 1)
    BY <1>1
  <2> HIDE DEF rank
  <2> QED
    BY <2>4, <2>5 DEF Surjection
<1>6. /\ q = [i \in 1..n |-> CHOOSE e \in S : Cardinality(Below(e)) = i - 1]
      /\ \A e \in S : rank[e] = Cardinality(Below(e)) /\ rank[e] \in 0..(n - 1)
  BY <1>2 DEF Ordered
<1> HIDE DEF rank, q, Below
<1>7. \A i \in 1..n : q[i] \in S /\ rank[q[i]] = i - 1
  BY <1>5, <1>6
<1>8. /\ q \in [1..n -> S] /\ q \in Seq(S) /\ Len(q) = n
  <2>1. q \in [1..n -> S]
    BY <1>6, <1>7
  <2> QED
    BY <2>1, <1>1, SeqDef
<1>9. ASSUME NEW e \in S PROVE \E i \in 1..n : q[i] = e
  <2>1. rank[e] + 1 \in 1..n
    BY <1>1, <1>6
  <2>2. q[rank[e] + 1] = e
    <3>1. rank[q[rank[e] + 1]] = (rank[e] + 1) - 1 /\ q[rank[e] + 1] \in S
      BY <2>1, <1>7
    <3>2. rank[e] \in Int
      BY <1>1, <1>6
    <3>3. (rank[e] + 1) - 1 = rank[e]
      BY <3>2
    <3> QED
      BY <3>1, <3>3, <1>4
  <2> QED
    BY <2>1, <2>2
<1>10. ASSUME NEW i \in 1..n, NEW j \in 1..n, i < j
       PROVE  Before(key[q[i]], key[q[j]])
  <2>1. q[i] \in S /\ q[j] \in S /\ rank[q[i]] < rank[q[j]]
    BY <1>1, <1>7, <1>10
  <2>2. q[i] # q[j] /\ ~ (rank[q[j]] < rank[q[i]])
    BY <1>1, <1>7, <2>1
  <2>3. ~ Before(key[q[j]], key[q[i]])
    BY <2>1, <2>2, <1>3
  <2>4. key[q[i]] # key[q[j]] /\ key[q[i]] \in Keys(m) /\ key[q[j]] \in Keys(m)
    BY <2>1, <2>2
  <2> QED
    BY <2>3, <2>4, BeforeOrders
<1> QED
  BY <1>8, <1>9, <1>10 DEF Lists, q

--------------------------------------------------------------------------------
(* Tables.  The records of a provider's rows are some of its rows, one to a     *)
(* key; laps, stints and events are finite and typed.                           *)

(* The image of a finite set is finite. *)
LEMMA ImageFinite ==
  ASSUME NEW f, IsFiniteSet(DOMAIN f)
  PROVE  IsFiniteSet({f[x] : x \in DOMAIN f})
<1> DEFINE g == [x \in DOMAIN f |-> f[x]]
           T == {f[x] : x \in DOMAIN f}
<1>1. g \in Surjection(DOMAIN f, T)
  BY DEF Surjection
<1> QED
  BY <1>1, FS_Surjection

(* The records are rows of the same tables: normalization drops cells, and never adds one. *)
LEMMA RecordsAreRows ==
  ASSUME NEW r \in Sessions
  PROVE  LET rs == Records(r)
         IN /\ rs.laps \subseteq r.laps /\ rs.weather \subseteq r.weather
            /\ rs.control \subseteq {c \in r.control : c.at # None} /\ rs.positions \subseteq r.positions
            /\ \A l, o \in rs.laps : l.driver = o.driver /\ l.lap = o.lap => l = o
<1>1. Table(r.laps) /\ \A l \in r.laps : LapRow(l)
  BY SessionsAssumption
<1>2. \A l, o \in Records(r).laps : l.driver = o.driver /\ l.lap = o.lap => l = o
  <2>1. \A l, o \in Records(r).laps : l.driver = o.driver /\ l.lap = o.lap => l.id <= o.id
    BY DEF Records, LapRecords, Selected
  <2>2. Records(r).laps \subseteq r.laps
    BY DEF Records, LapRecords, Selected
  <2>3. \A l \in r.laps : l.id \in Nat
    BY <1>1 DEF LapRow
  <2> QED
    BY <2>1, <2>2, <2>3, <1>1 DEF Table
<1> QED
  BY <1>2 DEF Records, LapRecords, WeatherRecords, ControlRecords, PositionRecords, Selected

Lap(l) == l.id \in Nat /\ l.driver \in Nat /\ l.lap \in Nat /\ l.deleted \in BOOLEAN
          /\ l.start \in Maybe(Nat) /\ l.end \in Maybe(Nat)
          /\ l.enter \in Maybe(Nat) /\ l.exit \in Maybe(Nat) /\ l.stint \in Maybe(Nat)
LapTable(laps) ==
  /\ IsFiniteSet(laps) /\ \A l \in laps : Lap(l)
  /\ \A l, o \in laps : l.id = o.id => l = o
  /\ \A l, o \in laps : l.driver = o.driver /\ l.lap = o.lap => l = o

(* One lap record for one id. *)
LEMMA LapRecordsTable ==
  ASSUME NEW r \in Sessions
  PROVE  LapTable(Records(r).laps)
<1>1. Table(r.laps) /\ \A l \in r.laps : LapRow(l)
  BY SessionsAssumption
<1>2. \A l \in r.laps : Lap(l)
  BY <1>1 DEF LapRow, Lap
<1>3. IsFiniteSet(Records(r).laps)
  BY <1>1, RecordsAreRows, FS_Subset DEF Table
<1> QED
  BY <1>1, <1>2, <1>3, RecordsAreRows DEF Table, LapTable

(* What is observed of the pits. *)
Obs == [at : Nat, way : {0, 1}, lap : Nat]
ObsKey(S) == [o \in S |-> <<o.at, o.way, o.lap>>]

(* None is no time, no lap and no id. *)
LEMMA NoneIsNoNumber == None \notin Nat /\ None \notin Int
BY NormalizationAssumption

(* A driver has finitely many pit observations. *)
LEMMA ObservedFinite ==
  ASSUME NEW laps, LapTable(laps), NEW d
  PROVE  /\ Observations(laps, d) \subseteq Obs
         /\ IsFiniteSet(Observations(laps, d))
<1> DEFINE E == {l \in laps : l.driver = d /\ l.enter # None}
           X == {l \in laps : l.driver = d /\ l.exit # None}
           e == [l \in E |-> [at |-> l.enter, way |-> 0, lap |-> l.lap]]
           x == [l \in X |-> [at |-> l.exit, way |-> 1, lap |-> l.lap]]
           e1 == {e[l] : l \in DOMAIN e}
           x1 == {x[l] : l \in DOMAIN x}
<1>1. IsFiniteSet(E) /\ IsFiniteSet(X)
  BY FS_Subset DEF LapTable
<1>2. Observations(laps, d) = e1 \cup x1
  BY DEF Observations
<1>3. IsFiniteSet(e1) /\ IsFiniteSet(x1)
  <2>1. DOMAIN e = E /\ DOMAIN x = X
    OBVIOUS
  <2> HIDE DEF e, x, E, X
  <2> QED
    BY <1>1, <2>1, ImageFinite
<1>4. \A l \in laps : l.enter \in Maybe(Nat) /\ l.exit \in Maybe(Nat) /\ l.lap \in Nat
  BY DEF LapTable, Lap
<1>5. e1 \subseteq Obs /\ x1 \subseteq Obs
  <2>1. \A l \in E : l.enter \in Nat /\ l.lap \in Nat
    BY <1>4 DEF Maybe
  <2>2. \A l \in X : l.exit \in Nat /\ l.lap \in Nat
    BY <1>4 DEF Maybe
  <2>3. \A l \in E : e[l] \in Obs
    BY <2>1 DEF Obs
  <2>4. \A l \in X : x[l] \in Obs
    BY <2>2 DEF Obs
  <2> QED
    BY <2>3, <2>4
<1> HIDE DEF e1, x1
<1> QED
  BY <1>2, <1>3, <1>5, FS_Union

(* They are paired in the order of time, an exit before an entry of the same time. *)
LEMMA ObservedInOrder ==
  ASSUME NEW S, S \subseteq Obs, IsFiniteSet(S)
  PROVE  Lists(Ordered(ObsKey(S)), ObsKey(S))
<1> DEFINE key == ObsKey(S)
<1>1. DOMAIN key = S
  BY DEF ObsKey
<1>2. \A o \in S : key[o] \in Keys(3)
  <2> SUFFICES ASSUME NEW o \in S PROVE <<o.at, o.way, o.lap>> \in Keys(3)
    BY DEF ObsKey
  <2>1. o.at \in Int /\ o.way \in Int /\ o.lap \in Int
    BY DEF Obs
  <2> QED
    BY <2>1 DEF Keys
<1>3. \A o, p \in S : key[o] = key[p] => o = p
  <2> SUFFICES ASSUME NEW o \in S, NEW p \in S, <<o.at, o.way, o.lap>> = <<p.at, p.way, p.lap>>
               PROVE  o = p
    BY DEF ObsKey
  <2>1. o.at = p.at /\ o.way = p.way /\ o.lap = p.lap /\ o \in Obs /\ p \in Obs
    OBVIOUS
  <2> QED
    BY <2>1 DEF Obs
<1> HIDE DEF key
<1> QED
  BY <1>1, <1>2, <1>3, OrderedLists DEF key

--------------------------------------------------------------------------------
(* Pairing.  After m observations every entry waits or is in one stop, every    *)
(* exit is in one stop, and what waits came before the entry of a stop or after *)
(* its exit.                                                                    *)
NoStops == [open |-> <<>>, stops |-> {}]
Acc(q, m) == Fold("pair", NoStops, q, 1..m)
Waiting(acc) == {acc.open[i] : i \in DOMAIN acc.open}
StopRecords == [enter : Maybe(Nat), exit : Nat, lap : Nat]
EntryOf(s, o) == s.enter = o.at /\ s.lap = o.lap
ExitOf(s, o) ==
  /\ s.exit = o.at /\ s.lap \in {o.lap, o.lap - 1}
  /\ s.enter = None => s.lap = o.lap
  /\ s.enter # None => s.enter <= s.exit

PairInv(acc, seen) ==
  /\ acc = [open |-> acc.open, stops |-> acc.stops]
  /\ acc.open \in Seq({o \in seen : o.way = 0})
  /\ \A i, j \in 1..Len(acc.open) : i < j => acc.open[i] # acc.open[j] /\ acc.open[i].at <= acc.open[j].at
  /\ acc.stops \subseteq StopRecords
  /\ \E by \in Bijection({o \in seen : o.way = 1}, acc.stops) : \A o \in DOMAIN by : ExitOf(by[o], o)
  /\ \E by \in Bijection({o \in seen : o.way = 0} \ Waiting(acc), {s \in acc.stops : s.enter # None}) :
        \A o \in DOMAIN by : EntryOf(by[o], o)
  /\ \A s \in acc.stops, u \in Waiting(acc) : s.enter # None => u.at <= s.enter \/ s.exit < u.at

(* A bijection goes on with one more on either side. *)
LEMMA BijectionAdds ==
  ASSUME NEW S, NEW T, NEW by \in Bijection(S, T), NEW o, o \notin S, NEW s, s \notin T
  PROVE  LET with == [p \in S \cup {o} |-> IF p = o THEN s ELSE by[p]]
         IN with \in Bijection(S \cup {o}, T \cup {s})
<1> DEFINE with == [p \in S \cup {o} |-> IF p = o THEN s ELSE by[p]]
<1>1. /\ by \in [S -> T] /\ \A a, b \in S : by[a] = by[b] => a = b
      /\ \A t \in T : \E a \in S : by[a] = t
  BY DEF Bijection, Injection, Surjection, IsInjective
<1>2. /\ DOMAIN with = S \cup {o} /\ with[o] = s
      /\ \A p \in S : with[p] = by[p]
      /\ with = [p \in S \cup {o} |-> with[p]]
  OBVIOUS
<1> HIDE DEF with
<1>3. with \in [S \cup {o} -> T \cup {s}]
  BY <1>1, <1>2
<1>4. \A a, b \in S \cup {o} : with[a] = with[b] => a = b
  BY <1>1, <1>2
<1>5. \A t \in T \cup {s} : \E a \in S \cup {o} : with[a] = t
  BY <1>1, <1>2
<1>6. with \in Bijection(S \cup {o}, T \cup {s})
  BY <1>2, <1>3, <1>4, <1>5 DEF Bijection, Injection, Surjection, IsInjective
<1> QED
  BY <1>6 DEF with

(* Nothing observed, nothing paired. *)
LEMMA NothingPaired == PairInv(NoStops, {})
<1>1. << >> \in Bijection({}, {})
  <2>1. [x \in {} |-> x] \in Bijection({}, {})
    BY DEF Bijection, Injection, Surjection, IsInjective
  <2> QED
    BY <2>1
<1>2. /\ NoStops.open = <<>> /\ NoStops.stops = {} /\ DOMAIN <<>> = {}
      /\ Waiting(NoStops) = {} /\ NoStops = [open |-> <<>>, stops |-> {}]
  BY DEF NoStops, Waiting
<1>3. \E by \in Bijection({}, {}) : DOMAIN by = {}
  <2>1. DOMAIN << >> = {}
    OBVIOUS
  <2> QED
    BY <1>1, <2>1
<1>4. {o \in {} : o.way = 1} = {} /\ {o \in {} : o.way = 0} \ {} = {} /\ {s \in {} : s.enter # None} = {}
  OBVIOUS
<1>5. <<>> \in Seq({o \in {} : o.way = 0}) /\ Len(<<>>) = 0
  BY EmptySeq
<1>6. \A o \in {} : FALSE
  OBVIOUS
<1> QED
  BY <1>2, <1>3, <1>4, <1>5, <1>6 DEF PairInv

(* What a step takes over. *)
LEMMA PairUnfold ==
  ASSUME NEW acc, NEW seen, seen \subseteq Obs, PairInv(acc, seen)
  PROVE  /\ Len(acc.open) \in Nat /\ DOMAIN acc.open = 1..Len(acc.open)
         /\ \A i \in 1..Len(acc.open) : /\ acc.open[i] \in seen /\ acc.open[i].way = 0
                                         /\ acc.open[i].at \in Nat /\ acc.open[i].lap \in Nat
                                         /\ acc.open[i] \in Waiting(acc)
         /\ \A u \in Waiting(acc) : \E i \in 1..Len(acc.open) : acc.open[i] = u
         /\ Waiting(acc) \subseteq {o \in seen : o.way = 0}
         /\ \A s \in acc.stops : s.enter \in Maybe(Nat) /\ s.exit \in Nat /\ s.lap \in Nat
<1>1. /\ acc.open \in Seq({o \in seen : o.way = 0})
      /\ acc.stops \subseteq StopRecords
  BY DEF PairInv
<1>2. /\ Len(acc.open) \in Nat /\ DOMAIN acc.open = 1..Len(acc.open)
      /\ \A i \in 1..Len(acc.open) : acc.open[i] \in {o \in seen : o.way = 0}
  BY <1>1, LenProperties, ElementOfSeq
<1>3. \A o \in Obs : o.at \in Nat /\ o.lap \in Nat
  BY DEF Obs
<1>4. \A s \in StopRecords : s.enter \in Maybe(Nat) /\ s.exit \in Nat /\ s.lap \in Nat
  BY DEF StopRecords
<1> QED
  BY <1>1, <1>2, <1>3, <1>4 DEF Waiting

(* An entry waits. *)
LEMMA EntryWaits ==
  ASSUME NEW acc, NEW seen, seen \subseteq Obs, PairInv(acc, seen),
         NEW o \in Obs, o \notin seen, o.way = 0,
         \A p \in seen : p.at <= o.at /\ (p.way = 1 => p.at < o.at)
  PROVE  PairInv([acc EXCEPT !.open = Append(@, o)], seen \cup {o})
<1> DEFINE S == seen \cup {o}
           E == {p \in S : p.way = 0}
           new == [open |-> Append(acc.open, o), stops |-> acc.stops]
           n == Len(acc.open)
<1>1. [acc EXCEPT !.open = Append(@, o)] = new
  <2>1. acc = [open |-> acc.open, stops |-> acc.stops]
    BY DEF PairInv
  <2> QED
    BY <2>1, SMTT(30)
<1>2. /\ Append(acc.open, o) \in Seq(E) /\ Len(Append(acc.open, o)) = n + 1
      /\ \A i \in 1..n : Append(acc.open, o)[i] = acc.open[i]
      /\ Append(acc.open, o)[n + 1] = o
  <2>1. acc.open \in Seq(E)
    <3>1. {p \in seen : p.way = 0} \subseteq E /\ acc.open \in Seq({p \in seen : p.way = 0})
      BY DEF PairInv
    <3> QED
      BY <3>1, SeqMonotonic
  <2> QED
    BY <2>1, AppendProperties
<1>3. n \in Nat /\ \A i \in 1..n : acc.open[i] \in seen
  BY PairUnfold
<1>4. Waiting(new) = Waiting(acc) \cup {o}
  <2>1. DOMAIN Append(acc.open, o) = 1..(n + 1) /\ DOMAIN acc.open = 1..n
    BY <1>2, PairUnfold, LenProperties
  <2>2. \A i \in 1..(n + 1) : i = n + 1 \/ i \in 1..n
    BY <1>3
  <2>3. \A i \in 1..n : i \in 1..(n + 1)
    BY <1>3
  <2>4. n + 1 \in 1..(n + 1)
    BY <1>3
  <2> QED
    BY <2>1, <2>2, <2>3, <2>4, <1>2 DEF Waiting
<1>5. \A i, j \in 1..(n + 1) : i < j => /\ new.open[i] # new.open[j]
                                        /\ new.open[i].at <= new.open[j].at
  <2> SUFFICES ASSUME NEW i \in 1..(n + 1), NEW j \in 1..(n + 1), i < j
               PROVE  new.open[i] # new.open[j] /\ new.open[i].at <= new.open[j].at
    OBVIOUS
  <2>1. i \in 1..n
    BY <1>3
  <2>2. CASE j \in 1..n
    BY <2>1, <2>2, <1>2 DEF PairInv
  <2>3. CASE j = n + 1
    BY <2>1, <2>3, <1>2, <1>3
  <2> QED
    BY <2>2, <2>3, <1>3
<1>6. /\ {p \in S : p.way = 1} = {p \in seen : p.way = 1}
      /\ E \ Waiting(new) = {p \in seen : p.way = 0} \ Waiting(acc)
  BY <1>4
<1>7. \A s \in acc.stops : s.exit < o.at
  <2> SUFFICES ASSUME NEW s \in acc.stops PROVE s.exit < o.at
    OBVIOUS
  <2>1. PICK by \in Bijection({e \in seen : e.way = 1}, acc.stops) : \A e \in DOMAIN by : ExitOf(by[e], e)
    BY DEF PairInv
  <2>2. PICK p \in {e \in seen : e.way = 1} : by[p] = s
    BY <2>1 DEF Bijection, Surjection
  <2>3. DOMAIN by = {e \in seen : e.way = 1}
    BY <2>1 DEF Bijection, Surjection
  <2>4. s.exit = p.at
    BY <2>1, <2>2, <2>3 DEF ExitOf
  <2> QED
    BY <2>2, <2>4
<1>8. \A s \in acc.stops, u \in Waiting(new) : s.enter # None => u.at <= s.enter \/ s.exit < u.at
  <2> SUFFICES ASSUME NEW s \in acc.stops, NEW u \in Waiting(acc) \cup {o}, s.enter # None
               PROVE  u.at <= s.enter \/ s.exit < u.at
    BY <1>4
  <2>1. CASE u = o
    BY <2>1, <1>7
  <2>2. CASE u \in Waiting(acc)
    BY <2>2 DEF PairInv
  <2> QED
    BY <2>1, <2>2
<1> HIDE DEF S, E
<1>9. /\ new = [open |-> new.open, stops |-> new.stops]
      /\ new.open \in Seq(E) /\ Len(new.open) = n + 1 /\ new.stops = acc.stops
  BY <1>2
<1>10. new.stops \subseteq StopRecords
  BY <1>9 DEF PairInv
<1>11. \E by \in Bijection({p \in S : p.way = 1}, new.stops) : \A p \in DOMAIN by : ExitOf(by[p], p)
  BY <1>6, <1>9 DEF PairInv
<1>12. \E by \in Bijection(E \ Waiting(new), {s \in new.stops : s.enter # None}) :
          \A p \in DOMAIN by : EntryOf(by[p], p)
  BY <1>6, <1>9 DEF PairInv
<1> HIDE DEF new
<1>13. PairInv(new, S)
  BY <1>5, <1>8, <1>9, <1>10, <1>11, <1>12 DEF PairInv, E
<1> QED
  BY <1>1, <1>13 DEF S

(* An exit that fits no entry makes a stop of its own. *)
LEMMA ExitAlone ==
  ASSUME NEW acc, NEW seen, seen \subseteq Obs, PairInv(acc, seen),
         NEW o \in Obs, o \notin seen, o.way = 1
  PROVE  PairInv([acc EXCEPT !.stops = @ \cup {[enter |-> None, exit |-> o.at, lap |-> o.lap]}], seen \cup {o})
<1> DEFINE S == seen \cup {o}
           X == {p \in seen : p.way = 1}
           stop == [enter |-> None, exit |-> o.at, lap |-> o.lap]
           new == [open |-> acc.open, stops |-> acc.stops \cup {stop}]
<1>1. [acc EXCEPT !.stops = @ \cup {stop}] = new
  <2>1. acc = [open |-> acc.open, stops |-> acc.stops]
    BY DEF PairInv
  <2> QED
    BY <2>1, SMTT(30)
<1>2. PICK by \in Bijection(X, acc.stops) : \A p \in DOMAIN by : ExitOf(by[p], p)
  BY DEF PairInv
<1>3. DOMAIN by = X /\ \A s \in acc.stops : \E p \in X : by[p] = s
  BY <1>2 DEF Bijection, Surjection
<1>4. stop \notin acc.stops
  <2> SUFFICES ASSUME stop \in acc.stops PROVE FALSE
    OBVIOUS
  <2>1. PICK p \in X : by[p] = stop
    BY <1>3
  <2>2. ExitOf(stop, p)
    BY <2>1, <1>2, <1>3
  <2>3. p.at = o.at /\ p.lap = o.lap /\ p.way = o.way /\ p \in Obs
    BY <2>2 DEF ExitOf
  <2>4. p = o
    BY <2>3 DEF Obs
  <2> QED
    BY <2>4
<1>5. {p \in S : p.way = 1} = X \cup {o} /\ {p \in S : p.way = 0} = {p \in seen : p.way = 0}
  OBVIOUS
<1>6. Waiting(new) = Waiting(acc) /\ {s \in acc.stops \cup {stop} : s.enter # None} = {s \in acc.stops : s.enter # None}
  BY DEF Waiting
<1>7. stop \in StopRecords
  BY DEF StopRecords, Maybe, Obs
<1>8. ExitOf(stop, o)
  BY DEF ExitOf
<1> DEFINE with == [p \in X \cup {o} |-> IF p = o THEN stop ELSE by[p]]
<1>9. with \in Bijection(X \cup {o}, acc.stops \cup {stop})
  <2> o \notin X
    OBVIOUS
  <2> HIDE DEF X, stop
  <2> QED
    BY <1>2, <1>4, BijectionAdds
<1>10. \A p \in DOMAIN with : ExitOf(with[p], p)
  <2>1. \A p \in X : by[p] = by[p] /\ ExitOf(by[p], p)
    BY <1>2, <1>3
  <2> HIDE DEF X, stop
  <2> QED
    BY <2>1, <1>8
<1> HIDE DEF with, X, S
<1>11. /\ new = [open |-> new.open, stops |-> new.stops]
       /\ new.open = acc.open /\ new.stops = acc.stops \cup {stop}
  OBVIOUS
<1>12. \A s \in new.stops, u \in Waiting(new) : s.enter # None => u.at <= s.enter \/ s.exit < u.at
  <2>1. \A s \in new.stops : s.enter # None => s \in acc.stops
    BY <1>6, <1>11
  <2> QED
    BY <2>1, <1>6 DEF PairInv
<1> HIDE DEF new, stop
<1>13. new.open \in Seq({p \in S : p.way = 0})
  BY <1>5, <1>11 DEF PairInv
<1>14. \A i, j \in 1..Len(new.open) : i < j => new.open[i] # new.open[j] /\ new.open[i].at <= new.open[j].at
  BY <1>11 DEF PairInv
<1>15. new.stops \subseteq StopRecords
  BY <1>7, <1>11 DEF PairInv
<1>16. \E f \in Bijection({p \in S : p.way = 1}, new.stops) : \A p \in DOMAIN f : ExitOf(f[p], p)
  BY <1>5, <1>9, <1>10, <1>11
<1>17. \E f \in Bijection({p \in S : p.way = 0} \ Waiting(new), {s \in new.stops : s.enter # None}) :
          \A p \in DOMAIN f : EntryOf(f[p], p)
  BY <1>5, <1>6, <1>11 DEF PairInv
<1>18. PairInv(new, S)
  BY <1>11, <1>12, <1>13, <1>14, <1>15, <1>16, <1>17 DEF PairInv
<1> QED
  BY <1>1, <1>18 DEF S, stop

(* An exit that fits the last entry makes a stop with it. *)
LEMMA ExitPaired ==
  ASSUME NEW acc, NEW seen, seen \subseteq Obs, PairInv(acc, seen),
         NEW o \in Obs, o \notin seen, o.way = 1,
         acc.open # <<>>, o.lap \in {Last(acc.open).lap, Last(acc.open).lap + 1},
         Last(acc.open).at <= o.at
  PROVE  PairInv([open |-> Front(acc.open),
                  stops |-> acc.stops \cup
                     {[enter |-> Last(acc.open).at, exit |-> o.at, lap |-> Last(acc.open).lap]}],
                 seen \cup {o})
<1> DEFINE S == seen \cup {o}
           X == {p \in seen : p.way = 1}
           N == {p \in seen : p.way = 0}
           n == Len(acc.open)
           e == Last(acc.open)
           stop == [enter |-> e.at, exit |-> o.at, lap |-> e.lap]
           new == [open |-> Front(acc.open), stops |-> acc.stops \cup {stop}]
           Entered(T) == {s \in T : s.enter # None}
<1>1. /\ n \in Nat \ {0} /\ e = acc.open[n] /\ acc.open \in Seq(N)
      /\ e \in seen /\ e.way = 0 /\ e.at \in Nat /\ e.lap \in Nat /\ e \in Waiting(acc) /\ e \in N
  <2>1. acc.open \in Seq(N)
    BY DEF PairInv
  <2>2. n \in Nat \ {0}
    BY <2>1, EmptySeq
  <2>3. n \in 1..n /\ e = acc.open[n]
    BY <2>2 DEF Last
  <2> QED
    BY <2>1, <2>2, <2>3, PairUnfold
<1>2. /\ Front(acc.open) \in Seq(N) /\ Len(Front(acc.open)) = n - 1
      /\ \A i \in 1..(n - 1) : Front(acc.open)[i] = acc.open[i]
  <2>1. \A i \in 1..(n - 1) : acc.open[i] \in N
    BY <1>1, PairUnfold
  <2> HIDE DEF n
  <2>2. n - 1 \in Int /\ 1 \in Int /\ n - 1 - 1 + 1 = n - 1 /\ (~ (1 <= n - 1) => n - 1 = 0)
    BY <1>1
  <2>3. /\ SubSeq(acc.open, 1, n - 1) \in Seq(N)
        /\ Len(SubSeq(acc.open, 1, n - 1)) = IF 1 <= n - 1 THEN (n - 1) - 1 + 1 ELSE 0
        /\ \A i \in 1..((n - 1) - 1 + 1) : SubSeq(acc.open, 1, n - 1)[i] = acc.open[1 + i - 1]
    BY <2>1, <2>2, SubSeqProperties
  <2>4. \A i \in 1..(n - 1) : i \in 1..((n - 1) - 1 + 1) /\ 1 + i - 1 = i
    BY <1>1
  <2> QED
    BY <2>2, <2>3, <2>4 DEF Front, n
<1>3. Waiting(new) = Waiting(acc) \ {e}
  <2>1. DOMAIN Front(acc.open) = 1..(n - 1) /\ DOMAIN acc.open = 1..n
    BY <1>1, <1>2, LenProperties
  <2>2. \A i \in 1..(n - 1) : i \in 1..n /\ acc.open[i] # e
    <3> SUFFICES ASSUME NEW i \in 1..(n - 1) PROVE i \in 1..n /\ acc.open[i] # e
      OBVIOUS
    <3>1. i \in 1..n /\ n \in 1..n /\ i < n
      BY <1>1
    <3> QED
      BY <3>1, <1>1 DEF PairInv
  <2>3. \A i \in 1..n : i = n \/ i \in 1..(n - 1)
    BY <1>1
  <2>4. Waiting(new) = {Front(acc.open)[i] : i \in 1..(n - 1)} /\ Waiting(acc) = {acc.open[i] : i \in 1..n}
    BY <2>1 DEF Waiting
  <2> HIDE DEF new, e, n
  <2>5. \A u \in Waiting(new) : u \in Waiting(acc) \ {e}
    BY <2>2, <2>4, <1>2
  <2>6. \A u \in Waiting(acc) \ {e} : u \in Waiting(new)
    <3> SUFFICES ASSUME NEW u \in Waiting(acc), u # e PROVE u \in Waiting(new)
      OBVIOUS
    <3>1. PICK i \in 1..n : acc.open[i] = u
      BY <2>4
    <3>2. i \in 1..(n - 1)
      BY <3>1, <2>3, <1>1
    <3> QED
      BY <3>1, <3>2, <2>4, <1>2
  <2> QED
    BY <2>5, <2>6
<1>4. PICK by \in Bijection(X, acc.stops) : \A p \in DOMAIN by : ExitOf(by[p], p)
  BY DEF PairInv
<1>5. PICK of \in Bijection(N \ Waiting(acc), Entered(acc.stops)) : \A p \in DOMAIN of : EntryOf(of[p], p)
  BY DEF PairInv
<1>6. DOMAIN of = N \ Waiting(acc) /\ \A s \in Entered(acc.stops) : \E p \in N \ Waiting(acc) : of[p] = s
  BY <1>5 DEF Bijection, Surjection
<1>7. stop.enter # None
  BY <1>1, NoneIsNoNumber
<1>8. stop \notin acc.stops
  <2> SUFFICES ASSUME stop \in acc.stops PROVE FALSE
    OBVIOUS
  <2>1. PICK p \in N \ Waiting(acc) : of[p] = stop
    BY <1>6, <1>7
  <2>2. EntryOf(stop, p)
    BY <2>1, <1>5, <1>6
  <2>3. p.at = e.at /\ p.lap = e.lap /\ p.way = e.way /\ p \in Obs /\ e \in Obs
    BY <2>2, <1>1 DEF EntryOf
  <2>4. p = e
    <3> HIDE DEF e
    <3> QED
      BY <2>3 DEF Obs
  <2> QED
    BY <2>4, <1>1
<1>9. stop \in StopRecords
  BY <1>1 DEF StopRecords, Maybe, Obs
<1>10. ExitOf(stop, o) /\ EntryOf(stop, e)
  <2>1. e.lap \in {o.lap, o.lap - 1}
    BY <1>1 DEF Obs
  <2> QED
    BY <2>1, <1>7 DEF ExitOf, EntryOf
<1> DEFINE with == [p \in X \cup {o} |-> IF p = o THEN stop ELSE by[p]]
           into == [p \in (N \ Waiting(acc)) \cup {e} |-> IF p = e THEN stop ELSE of[p]]
<1>11. /\ with \in Bijection(X \cup {o}, acc.stops \cup {stop})
       /\ \A p \in DOMAIN with : ExitOf(with[p], p)
  <2>1. o \notin X
    OBVIOUS
  <2>2. DOMAIN by = X
    BY <1>4 DEF Bijection, Surjection
  <2> HIDE DEF X, stop
  <2>3. with \in Bijection(X \cup {o}, acc.stops \cup {stop})
    BY <1>4, <1>8, <2>1, BijectionAdds
  <2>4. \A p \in DOMAIN with : ExitOf(with[p], p)
    BY <2>2, <1>4, <1>10
  <2> QED
    BY <2>3, <2>4
<1>12. /\ into \in Bijection((N \ Waiting(acc)) \cup {e}, Entered(acc.stops) \cup {stop})
       /\ \A p \in DOMAIN into : EntryOf(into[p], p)
  <2>1. e \notin N \ Waiting(acc) /\ stop \notin Entered(acc.stops)
    BY <1>1, <1>8
  <2> HIDE DEF N, stop, Entered, e
  <2>3. into \in Bijection((N \ Waiting(acc)) \cup {e}, Entered(acc.stops) \cup {stop})
    BY <1>5, <2>1, BijectionAdds
  <2>4. \A p \in DOMAIN into : EntryOf(into[p], p)
    BY <1>5, <1>6, <1>10
  <2> QED
    BY <2>3, <2>4
<1>13. /\ {p \in S : p.way = 1} = X \cup {o} /\ {p \in S : p.way = 0} = N
       /\ N \ Waiting(new) = (N \ Waiting(acc)) \cup {e}
       /\ Entered(acc.stops \cup {stop}) = Entered(acc.stops) \cup {stop}
  <2> HIDE DEF e, new, stop
  <2>1. {p \in S : p.way = 1} = X \cup {o} /\ {p \in S : p.way = 0} = N
    OBVIOUS
  <2>2. N \ Waiting(new) = (N \ Waiting(acc)) \cup {e}
    BY <1>1, <1>3
  <2>3. Entered(acc.stops \cup {stop}) = Entered(acc.stops) \cup {stop}
    BY <1>7
  <2> QED
    BY <2>1, <2>2, <2>3
<1>14. \A u \in Waiting(new) : u.at <= e.at
  <2> SUFFICES ASSUME NEW u \in Waiting(acc) \ {e} PROVE u.at <= e.at
    BY <1>3
  <2>1. PICK i \in 1..n : acc.open[i] = u
    BY PairUnfold
  <2>2. i < n /\ n \in 1..n
    BY <2>1, <1>1
  <2> QED
    BY <2>1, <2>2, <1>1 DEF PairInv
<1>15. /\ new = [open |-> new.open, stops |-> new.stops]
       /\ new.open = Front(acc.open) /\ new.stops = acc.stops \cup {stop}
  OBVIOUS
<1>16. stop.enter = e.at
  OBVIOUS
<1> HIDE DEF with, into, X, N, S, e, stop
<1>17. \A s \in new.stops, u \in Waiting(new) : s.enter # None => u.at <= s.enter \/ s.exit < u.at
  <2> SUFFICES ASSUME NEW s \in acc.stops \cup {stop}, NEW u \in Waiting(new), s.enter # None
               PROVE  u.at <= s.enter \/ s.exit < u.at
    BY <1>15
  <2>1. CASE s = stop
    BY <2>1, <1>14, <1>16
  <2>2. CASE s \in acc.stops
    <3>1. u \in Waiting(acc)
      BY <1>3
    <3> QED
      BY <3>1, <2>2 DEF PairInv
  <2> QED
    BY <2>1, <2>2
<1>18. \A i, j \in 1..Len(new.open) : i < j => new.open[i] # new.open[j] /\ new.open[i].at <= new.open[j].at
  <2> SUFFICES ASSUME NEW i \in 1..(n - 1), NEW j \in 1..(n - 1), i < j
               PROVE  acc.open[i] # acc.open[j] /\ acc.open[i].at <= acc.open[j].at
    BY <1>2, <1>15
  <2>1. i \in 1..n /\ j \in 1..n
    BY <1>1
  <2> QED
    BY <2>1 DEF PairInv
<1> HIDE DEF new
<1>19. new.open \in Seq({p \in S : p.way = 0})
  BY <1>2, <1>13, <1>15
<1>20. new.stops \subseteq StopRecords
  BY <1>9, <1>15 DEF PairInv
<1>21. \E f \in Bijection({p \in S : p.way = 1}, new.stops) : \A p \in DOMAIN f : ExitOf(f[p], p)
  BY <1>11, <1>13, <1>15
<1>22. \E f \in Bijection({p \in S : p.way = 0} \ Waiting(new), Entered(new.stops)) :
          \A p \in DOMAIN f : EntryOf(f[p], p)
  BY <1>12, <1>13, <1>15
<1>23. PairInv(new, S)
  BY <1>15, <1>17, <1>18, <1>19, <1>20, <1>21, <1>22 DEF PairInv
<1> QED
  BY <1>23 DEF S, new, stop, e

(* Each observation in its turn keeps the pairing. *)
LEMMA PairKeeps ==
  ASSUME NEW acc, NEW seen, seen \subseteq Obs, PairInv(acc, seen), NEW o \in Obs, o \notin seen,
         \A p \in seen : p.at <= o.at /\ (p.way = 1 /\ o.way = 0 => p.at < o.at)
  PROVE  PairInv(Pair(acc, o), seen \cup {o})
<1>1. o.way \in {0, 1}
  BY DEF Obs
<1>2. CASE o.way = 0
  BY <1>2, EntryWaits DEF Pair
<1>3. CASE o.way = 1
  <2>1. CASE acc.open = <<>> \/ o.lap \notin {Last(acc.open).lap, Last(acc.open).lap + 1}
    <3>1. Pair(acc, o) = [acc EXCEPT !.stops = @ \cup {[enter |-> None, exit |-> o.at, lap |-> o.lap]}]
      BY <1>3, <2>1 DEF Pair
    <3> QED
      BY <3>1, <1>3, ExitAlone
  <2>2. CASE acc.open # <<>> /\ o.lap \in {Last(acc.open).lap, Last(acc.open).lap + 1}
    <3>1. Pair(acc, o) = [open |-> Front(acc.open),
                          stops |-> acc.stops \cup
                     {[enter |-> Last(acc.open).at, exit |-> o.at, lap |-> Last(acc.open).lap]}]
      BY <1>3, <2>2 DEF Pair
    <3>2. Last(acc.open) \in seen
      <4>1. Len(acc.open) \in 1..Len(acc.open)
        BY <2>2, PairUnfold, EmptySeq DEF PairInv
      <4> QED
        BY <4>1, PairUnfold DEF Last
    <3> QED
      BY <3>1, <3>2, <1>3, <2>2, ExitPaired
  <2> QED
    BY <2>1, <2>2
<1> QED
  BY <1>1, <1>2, <1>3

PairedUp(laps, d) ==
  FoldLeft(Pair, [open |-> <<>>, stops |-> {}], Ordered(ObsKey(Observations(laps, d))))

(* All the observations of a driver are paired in the end. *)
LEMMA AllPaired ==
  ASSUME NEW laps, LapTable(laps), NEW d
  PROVE  PairInv(PairedUp(laps, d), Observations(laps, d))
<1> DEFINE S == Observations(laps, d)
           q == Ordered(ObsKey(S))
           n == Len(q)
           Seen(m) == {q[i] : i \in 1..m}
           P == {m \in 0..n : PairInv(Acc(q, m), Seen(m))}
<1>1. S \subseteq Obs /\ IsFiniteSet(S) /\ Lists(q, ObsKey(S)) /\ DOMAIN ObsKey(S) = S
  BY ObservedFinite, ObservedInOrder DEF ObsKey
<1>2. /\ n \in Nat /\ DOMAIN q = 1..n
      /\ \A i \in 1..n : q[i] \in S
      /\ \A o \in S : \E i \in 1..n : q[i] = o
      /\ \A i, j \in 1..n : i < j => Before(ObsKey(S)[q[i]], ObsKey(S)[q[j]])
  <2> HIDE DEF q, S
  <2>1. q \in Seq(S)
    BY <1>1 DEF Lists
  <2>2. n \in Nat /\ DOMAIN q = 1..n
    BY <2>1, LenProperties
  <2>3. \A i \in 1..n : q[i] \in S
    BY <2>1, ElementOfSeq
  <2> QED
    BY <1>1, <2>2, <2>3 DEF Lists
<1> HIDE DEF q, n, S
<1>3. ASSUME NEW i \in 1..n, NEW j \in 1..n, i < j
      PROVE  /\ q[i].at <= q[j].at /\ q[i] # q[j]
             /\ q[i].way = 1 /\ q[j].way = 0 => q[i].at < q[j].at
  <2> DEFINE a == q[i]
             b == q[j]
  <2>1. a \in Obs /\ b \in Obs /\ a \in S /\ b \in S /\ Before(ObsKey(S)[a], ObsKey(S)[b])
    BY <1>1, <1>2, <1>3
  <2> HIDE DEF a, b
  <2>2. Before(<<a.at, a.way, a.lap>>, <<b.at, b.way, b.lap>>)
    BY <2>1 DEF ObsKey
  <2>3. a.at \in Int /\ b.at \in Int /\ a.way \in {0, 1} /\ b.way \in {0, 1} /\ a.lap \in Int /\ b.lap \in Int
    BY <2>1 DEF Obs
  <2>4. <<a.at, a.way, a.lap>> \in Keys(3) /\ <<b.at, b.way, b.lap>> \in Keys(3)
    BY <2>3 DEF Keys
  <2>5. a.at <= b.at /\ (a.at = b.at => a.way <= b.way)
    BY <2>2, <2>4, BeforeFirst
  <2>6. a # b
    BY <2>2, <2>4, BeforeOrders
  <2> QED
    BY <2>3, <2>5, <2>6 DEF a, b
<1>4. 0 \in P
  <2>1. Seen(0) = {} /\ Acc(q, 0) = NoStops
    BY FoldNext DEF Acc
  <2>2. PairInv(Acc(q, 0), Seen(0))
    <3> HIDE DEF Seen
    <3> QED
      BY <2>1, NothingPaired
  <2>3. 0 \in 0..n
    BY <1>2
  <2> QED
    BY <2>2, <2>3
<1>5. ASSUME NEW m \in 0..(n - 1), m \in P PROVE m + 1 \in P
  <2> DEFINE o == q[m + 1]
  <2>1. m \in Nat /\ m + 1 \in 1..n /\ o \in Obs
    BY <1>1, <1>2
  <2>2. Seen(m + 1) = Seen(m) \cup {o} /\ Seen(m) \subseteq Obs
    <3>1. \A i \in 1..(m + 1) : i = m + 1 \/ i \in 1..m
      BY <2>1
    <3>2. \A i \in 1..m : i \in 1..(m + 1) /\ i \in 1..n /\ m + 1 \in 1..(m + 1)
      BY <2>1, <1>2
    <3>3. Seen(m) \subseteq Obs
      BY <3>2, <1>1, <1>2
    <3>4. Seen(m + 1) = Seen(m) \cup {o}
      BY <3>1, <3>2, <2>1
    <3> QED
      BY <3>3, <3>4
  <2>3. \A p \in Seen(m) : /\ p # o /\ p.at <= o.at
                           /\ p.way = 1 /\ o.way = 0 => p.at < o.at
    <3> SUFFICES ASSUME NEW i \in 1..m
                 PROVE  /\ q[i] # o /\ q[i].at <= o.at
                        /\ q[i].way = 1 /\ o.way = 0 => q[i].at < o.at
      OBVIOUS
    <3>1. i \in 1..n /\ i < m + 1
      BY <2>1, <1>2
    <3> QED
      BY <3>1, <2>1, <1>3
  <2>4. PairInv(Acc(q, m), Seen(m))
    BY <1>5
  <2>5. Acc(q, m + 1) = Pair(Acc(q, m), o)
    BY <2>1, FoldNext DEF Acc, Step
  <2> HIDE DEF Seen, o
  <2>6. PairInv(Pair(Acc(q, m), o), Seen(m) \cup {o})
    BY <2>1, <2>2, <2>3, <2>4, PairKeeps
  <2>7. PairInv(Acc(q, m + 1), Seen(m + 1))
    BY <2>2, <2>5, <2>6 DEF o
  <2>8. m + 1 \in 0..n
    BY <2>1, <1>2
  <2> QED
    BY <2>7, <2>8
<1>6. n \in P
  <2> HIDE DEF P
  <2>1. 0..n \subseteq P
    BY <1>2, <1>4, <1>5, UpTo
  <2> QED
    BY <2>1, <1>2
<1>7. Seen(n) = S
  BY <1>2
<1>8. PairedUp(laps, d) = Acc(q, n)
  <2>1. IsFiniteSet(DOMAIN q) /\ DOMAIN q \in SUBSET Int
    BY <1>2, FS_Interval
  <2>2. FoldLeft(Pair, NoStops, q) = Fold("pair", NoStops, q, DOMAIN q)
    BY <2>1, PairedFold
  <2> QED
    BY <2>2, <1>2 DEF PairedUp, NoStops, Acc, q, S
<1> QED
  BY <1>6, <1>7, <1>8 DEF S

(* Two bijections of sets that are apart make one. *)
LEMMA BijectionsJoin ==
  ASSUME NEW S1, NEW T1, NEW by1 \in Bijection(S1, T1), NEW S2, NEW T2, NEW by2 \in Bijection(S2, T2),
         S1 \cap S2 = {}, T1 \cap T2 = {}
  PROVE  [p \in S1 \cup S2 |-> IF p \in S1 THEN by1[p] ELSE by2[p]] \in Bijection(S1 \cup S2, T1 \cup T2)
<1> DEFINE with == [p \in S1 \cup S2 |-> IF p \in S1 THEN by1[p] ELSE by2[p]]
<1>1. /\ by1 \in [S1 -> T1] /\ \A a, b \in S1 : by1[a] = by1[b] => a = b
      /\ \A t \in T1 : \E a \in S1 : by1[a] = t
      /\ by2 \in [S2 -> T2] /\ \A a, b \in S2 : by2[a] = by2[b] => a = b
      /\ \A t \in T2 : \E a \in S2 : by2[a] = t
  BY DEF Bijection, Injection, Surjection, IsInjective
<1>2. /\ DOMAIN with = S1 \cup S2
      /\ \A p \in S1 : with[p] = by1[p] /\ by1[p] \in T1
      /\ \A p \in S2 : with[p] = by2[p] /\ by2[p] \in T2
      /\ with = [p \in S1 \cup S2 |-> with[p]]
  BY <1>1
<1> HIDE DEF with
<1>3. with \in [S1 \cup S2 -> T1 \cup T2]
  BY <1>2
<1>4. \A a, b \in S1 \cup S2 : with[a] = with[b] => a = b
  <2> SUFFICES ASSUME NEW a \in S1 \cup S2, NEW b \in S1 \cup S2, with[a] = with[b] PROVE a = b
    OBVIOUS
  <2>1. \A x \in S1, y \in S2 : with[x] # with[y]
    BY <1>2
  <2>2. (a \in S1 /\ b \in S1) \/ (a \in S2 /\ b \in S2)
    <3>1. ~ (a \in S1 /\ b \in S2) /\ ~ (b \in S1 /\ a \in S2)
      BY <2>1
    <3> QED
      BY <3>1
  <2> QED
    BY <2>2, <1>1, <1>2
<1>5. \A t \in T1 \cup T2 : \E a \in S1 \cup S2 : with[a] = t
  BY <1>1, <1>2
<1>6. with \in Bijection(S1 \cup S2, T1 \cup T2)
  BY <1>2, <1>3, <1>4, <1>5 DEF Bijection, Injection, Surjection, IsInjective
<1> QED
  BY <1>6 DEF with

(* A bijection followed by a function that tells its values apart is one. *)
LEMMA BijectionImage ==
  ASSUME NEW S, NEW T, NEW by \in Bijection(S, T), NEW g, T \subseteq DOMAIN g,
         \A a, b \in DOMAIN g : g[a] = g[b] => a = b
  PROVE  [p \in S |-> g[by[p]]] \in Bijection(S, {g[t] : t \in T})
<1> DEFINE with == [p \in S |-> g[by[p]]]
           U == {g[t] : t \in T}
<1>1. /\ by \in [S -> T] /\ \A a, b \in S : by[a] = by[b] => a = b
      /\ \A t \in T : \E a \in S : by[a] = t
  BY DEF Bijection, Injection, Surjection, IsInjective
<1>2. /\ \A p \in S : with[p] = g[by[p]] /\ by[p] \in T /\ with[p] \in U
      /\ with = [p \in S |-> with[p]] /\ DOMAIN with = S
      /\ \A u \in U : \E t \in T : u = g[t]
  BY <1>1
<1> HIDE DEF with, U
<1>3. with \in [S -> U]
  BY <1>2
<1>4. \A a, b \in S : with[a] = with[b] => a = b
  BY <1>1, <1>2
<1>5. \A u \in U : \E a \in S : with[a] = u
  BY <1>1, <1>2
<1>6. with \in Bijection(S, U)
  BY <1>2, <1>3, <1>4, <1>5 DEF Bijection, Injection, Surjection, IsInjective
<1> QED
  BY <1>6 DEF with, U

StopTable == [enter : Maybe(Nat), exit : Maybe(Nat), lap : Nat]
Paired(S, T) ==
  /\ \E of \in Bijection({o \in S : o.way = 0}, {s \in T : s.enter # None}) :
        \A o \in DOMAIN of : of[o].enter = o.at /\ of[o].lap = o.lap
  /\ \E of \in Bijection({o \in S : o.way = 1}, {s \in T : s.exit # None}) :
        \A o \in DOMAIN of : of[o].exit = o.at /\ of[o].lap \in {o.lap, o.lap - 1}
  /\ \A s, u \in T :
        s.enter # None /\ s.exit # None /\ u.enter # None /\ u.exit = None
        => u.enter <= s.enter \/ s.exit < u.enter

(* The stops of a driver are the pairs and the entries that waited to the end. *)
LEMMA StopsOfPaired ==
  ASSUME NEW laps, LapTable(laps), NEW d
  PROVE  /\ StopsOf(laps, d) \subseteq StopTable /\ Paired(Observations(laps, d), StopsOf(laps, d))
         /\ \A s \in StopsOf(laps, d) : s.enter # None \/ s.exit # None
<1> DEFINE S == Observations(laps, d)
           T == StopsOf(laps, d)
           acc == PairedUp(laps, d)
           W == Waiting(acc)
           lone == [e \in W |-> [enter |-> e.at, exit |-> None, lap |-> e.lap]]
           alone == {lone[e] : e \in W}
           E == {o \in S : o.way = 0}
           X == {o \in S : o.way = 1}
           entered == {s \in acc.stops : s.enter # None}
<1>1. PairInv(acc, S) /\ S \subseteq Obs /\ None \notin Nat
  BY AllPaired, ObservedFinite, NoneIsNoNumber
<1>2. T = acc.stops \cup alone
  <2>1. ToSet(acc.open) = W
    BY DEF ToSet, Waiting
  <2>2. T = acc.stops \cup {[enter |-> e.at, exit |-> None, lap |-> e.lap] : e \in ToSet(acc.open)}
    BY DEF StopsOf, PairedUp, ObsKey
  <2> HIDE DEF acc, T
  <2> QED
    BY <2>1, <2>2
<1> HIDE DEF acc, S, T
<1>3. /\ W \subseteq E
      /\ \A s \in acc.stops : s \in StopRecords /\ s.enter \in Maybe(Nat) /\ s.exit \in Nat /\ s.lap \in Nat
  BY <1>1, PairUnfold DEF PairInv
<1>4. /\ \E by \in Bijection(X, acc.stops) : \A o \in DOMAIN by : ExitOf(by[o], o)
      /\ \E by \in Bijection(E \ W, entered) : \A o \in DOMAIN by : EntryOf(by[o], o)
      /\ \A s \in acc.stops, u \in W : s.enter # None => u.at <= s.enter \/ s.exit < u.at
  BY <1>1 DEF PairInv
<1>5. \A e \in W : /\ e \in Obs /\ e.at \in Nat /\ e.lap \in Nat /\ e.way = 0
                   /\ lone[e].enter = e.at /\ lone[e].exit = None /\ lone[e].lap = e.lap
                   /\ lone[e] \in StopTable
  <2> SUFFICES ASSUME NEW e \in W
               PROVE  /\ e \in Obs /\ e.at \in Nat /\ e.lap \in Nat /\ e.way = 0
                      /\ lone[e].enter = e.at /\ lone[e].exit = None /\ lone[e].lap = e.lap
                      /\ lone[e] \in StopTable
    OBVIOUS
  <2>1. e \in Obs /\ e.at \in Nat /\ e.lap \in Nat /\ e.way = 0
    BY <1>1, <1>3 DEF Obs
  <2> HIDE DEF W
  <2> QED
    BY <2>1 DEF StopTable, Maybe
<1>6. T \subseteq StopTable
  <2>1. \A s \in StopRecords : s \in StopTable
    BY DEF StopRecords, StopTable, Maybe
  <2> QED
    BY <2>1, <1>2, <1>3, <1>5
<1>7. lone \in Bijection(W, alone)
  <2>1. \A a, b \in W : lone[a] = lone[b] => a = b
    <3> SUFFICES ASSUME NEW a \in W, NEW b \in W, lone[a] = lone[b] PROVE a = b
      OBVIOUS
    <3>1. a.at = b.at /\ a.lap = b.lap /\ a.way = b.way /\ a \in Obs /\ b \in Obs
      <4> HIDE DEF lone, W
      <4> QED
        BY <1>5
    <3> QED
      BY <3>1 DEF Obs
  <2>2. lone \in [W -> alone] /\ \A s \in alone : \E e \in W : lone[e] = s
    OBVIOUS
  <2> HIDE DEF lone, alone, W
  <2> QED
    BY <2>1, <2>2 DEF Bijection, Injection, Surjection, IsInjective
<1>8. \A s \in alone : s.enter \in Nat /\ s.exit = None /\ \E e \in W : s = lone[e]
  BY <1>5
<1> HIDE DEF lone, alone, W
<1>9. \E of \in Bijection(E, {s \in T : s.enter # None}) :
        \A o \in DOMAIN of : of[o].enter = o.at /\ of[o].lap = o.lap
  <2>1. PICK by \in Bijection(E \ W, entered) : \A o \in DOMAIN by : EntryOf(by[o], o)
    BY <1>4
  <2> DEFINE of == [p \in (E \ W) \cup W |-> IF p \in E \ W THEN by[p] ELSE lone[p]]
  <2>2. (E \ W) \cap W = {} /\ entered \cap alone = {}
    BY <1>1, <1>3, <1>8
  <2>3. of \in Bijection((E \ W) \cup W, entered \cup alone)
    <3> HIDE DEF E, entered
    <3> QED
      BY <2>2, <1>7, BijectionsJoin
  <2>4. (E \ W) \cup W = E
    BY <1>3
  <2>5. entered \cup alone = {s \in T : s.enter # None}
    BY <1>1, <1>2, <1>8
  <2>6. DOMAIN by = E \ W /\ DOMAIN of = (E \ W) \cup W
    BY DEF Bijection, Injection
  <2>7. \A o \in DOMAIN of : of[o].enter = o.at /\ of[o].lap = o.lap
    BY <2>1, <2>6, <1>5 DEF EntryOf
  <2> HIDE DEF of
  <2> QED
    BY <2>3, <2>4, <2>5, <2>7
<1>10. \E of \in Bijection(X, {s \in T : s.exit # None}) :
        \A o \in DOMAIN of : of[o].exit = o.at /\ of[o].lap \in {o.lap, o.lap - 1}
  <2>1. acc.stops = {s \in T : s.exit # None}
    BY <1>1, <1>2, <1>3, <1>8
  <2> QED
    BY <2>1, <1>4 DEF ExitOf
<1>11. ASSUME NEW s \in T, NEW u \in T, s.enter # None, s.exit # None, u.enter # None, u.exit = None
       PROVE  u.enter <= s.enter \/ s.exit < u.enter
  <2>1. s \in acc.stops /\ u \in alone
    BY <1>1, <1>2, <1>3, <1>8, <1>11
  <2>2. PICK e \in W : u = lone[e]
    BY <2>1, <1>8
  <2> QED
    BY <2>1, <2>2, <1>4, <1>5, <1>11
<1>12. \A s \in T : s.enter # None \/ s.exit # None
  BY <1>1, <1>2, <1>3, <1>8
<1> QED
  BY <1>6, <1>9, <1>10, <1>11, <1>12 DEF Paired, S, T

(* So are those of a driver in a session. *)
LEMMA StopsPaired ==
  ASSUME NEW laps, LapTable(laps), NEW d
  PROVE  Paired(Observations(laps, d), {s \in Stops(laps) : s.driver = d})
<1> DEFINE S == Observations(laps, d)
           T == StopsOf(laps, d)
           U == {s \in Stops(laps) : s.driver = d}
           g == [s \in T |-> [driver |-> d, enter |-> s.enter, exit |-> s.exit, lap |-> s.lap]]
<1>1. CASE d \in {l.driver : l \in laps}
  <2>1. U = {g[s] : s \in T}
    BY <1>1 DEF Stops
  <2>2. T \subseteq StopTable /\ Paired(S, T)
    BY StopsOfPaired
  <2>3. /\ DOMAIN g = T
        /\ \A s \in T : g[s].enter = s.enter /\ g[s].exit = s.exit /\ g[s].lap = s.lap
    OBVIOUS
  <2> HIDE DEF S, T, U, g
  <2>4. \A a, b \in DOMAIN g : g[a] = g[b] => a = b
    <3> SUFFICES ASSUME NEW a \in T, NEW b \in T, g[a] = g[b] PROVE a = b
      BY <2>3
    <3>1. a.enter = b.enter /\ a.exit = b.exit /\ a.lap = b.lap
      BY <2>3
    <3> QED
      BY <3>1, <2>2 DEF StopTable
  <2>5. \E of \in Bijection({o \in S : o.way = 0}, {s \in U : s.enter # None}) :
        \A o \in DOMAIN of : of[o].enter = o.at /\ of[o].lap = o.lap
    <3> DEFINE E == {o \in S : o.way = 0}
               R == {s \in T : s.enter # None}
    <3>1. PICK of \in Bijection(E, R) : \A o \in DOMAIN of : of[o].enter = o.at /\ of[o].lap = o.lap
      BY <2>2 DEF Paired
    <3>2. {g[s] : s \in R} = {s \in U : s.enter # None}
      BY <2>1, <2>3
    <3>3. DOMAIN of = E /\ R \subseteq T /\ \A o \in E : of[o] \in R
      BY DEF Bijection, Injection
    <3> HIDE DEF E, R
    <3>4. [o \in E |-> g[of[o]]] \in Bijection(E, {g[s] : s \in R})
      BY <2>3, <2>4, <3>3, BijectionImage
    <3>5. \A o \in E : g[of[o]].enter = o.at /\ g[of[o]].lap = o.lap
      BY <2>3, <3>1, <3>3
    <3> DEFINE h == [o \in E |-> g[of[o]]]
    <3>6. DOMAIN h = E /\ \A o \in E : h[o] = g[of[o]]
      OBVIOUS
    <3>7. h \in Bijection(E, {s \in U : s.enter # None})
      BY <3>2, <3>4
    <3> HIDE DEF h
    <3> QED
      BY <3>5, <3>6, <3>7, ZenonT(30) DEF E
  <2>6. \E of \in Bijection({o \in S : o.way = 1}, {s \in U : s.exit # None}) :
        \A o \in DOMAIN of : of[o].exit = o.at /\ of[o].lap \in {o.lap, o.lap - 1}
    <3> DEFINE X == {o \in S : o.way = 1}
               R == {s \in T : s.exit # None}
    <3>1. PICK of \in Bijection(X, R) :
            \A o \in DOMAIN of : of[o].exit = o.at /\ of[o].lap \in {o.lap, o.lap - 1}
      BY <2>2 DEF Paired
    <3>2. {g[s] : s \in R} = {s \in U : s.exit # None}
      BY <2>1, <2>3
    <3>3. DOMAIN of = X /\ R \subseteq T /\ \A o \in X : of[o] \in R
      BY DEF Bijection, Injection
    <3> HIDE DEF X, R
    <3>4. [o \in X |-> g[of[o]]] \in Bijection(X, {g[s] : s \in R})
      BY <2>3, <2>4, <3>3, BijectionImage
    <3>5. \A o \in X : g[of[o]].exit = o.at /\ g[of[o]].lap \in {o.lap, o.lap - 1}
      BY <2>3, <3>1, <3>3
    <3> DEFINE h == [o \in X |-> g[of[o]]]
    <3>6. DOMAIN h = X /\ \A o \in X : h[o] = g[of[o]]
      OBVIOUS
    <3>7. h \in Bijection(X, {s \in U : s.exit # None})
      BY <3>2, <3>4
    <3> HIDE DEF h
    <3> QED
      BY <3>5, <3>6, <3>7 DEF X
  <2>7. \A s, u \in U :
        s.enter # None /\ s.exit # None /\ u.enter # None /\ u.exit = None
        => u.enter <= s.enter \/ s.exit < u.enter
    BY <2>1, <2>2, <2>3 DEF Paired
  <2> QED
    BY <2>5, <2>6, <2>7 DEF Paired, S, U
<1>2. CASE d \notin {l.driver : l \in laps}
  <2>1. S = {} /\ U = {}
    BY <1>2 DEF Observations, Stops
  <2> HIDE DEF S, U
  <2>2. [x \in {} |-> x] \in Bijection({}, {})
    BY DEF Bijection, Injection, Surjection, IsInjective
  <2>3. /\ {o \in S : o.way = 0} = {} /\ {o \in S : o.way = 1} = {}
        /\ {s \in U : s.enter # None} = {} /\ {s \in U : s.exit # None} = {}
    BY <2>1
  <2>4. \A o \in DOMAIN [x \in {} |-> x] : FALSE
    OBVIOUS
  <2>5. Paired(S, U)
    BY <2>1, <2>2, <2>3, <2>4 DEF Paired
  <2> QED
    BY <2>5 DEF S, U
<1> QED
  BY <1>1, <1>2

--------------------------------------------------------------------------------
(* What is ingested is what is derived of the records of the rows.              *)
Session(r) == Derived(Records(r))
Ingested ==
  /\ rows \in Sessions
  /\ stored # None => stored = [session |-> Session(rows), events |-> Timeline(Session(rows))]
                      /\ Valid(Session(rows))

(* What is ingested is Ingested. *)
LEMMA IngestedHolds == ReplaySpec => []Ingested
<1>1. ReplayInit => Ingested
  BY DEF ReplayInit, Ingested
<1>2. Ingested /\ [ReplayNext]_replayVars => Ingested'
  <2> SUFFICES ASSUME Ingested, [ReplayNext]_replayVars PROVE Ingested'
    OBVIOUS
  <2>1. CASE Ingest
    BY <2>1 DEF Ingest, Ingested, Session
  <2>2. CASE UNCHANGED <<rows, stored>>
    BY <2>2 DEF Ingested
  <2>3. Open \/ (\E t \in Time : AskTime(t)) \/ (\E n \in LapNumber, phase \in {"start", "end"} : AskLap(n, phase))
        => UNCHANGED <<rows, stored>>
    BY DEF Open, AskTime, AskLap
  <2> QED
    BY <2>1, <2>2, <2>3 DEF ReplayNext, replayVars
<1> QED
  BY <1>1, <1>2, PTL DEF ReplaySpec

(* Every entry and every exit of the pits observed is in one stop and no more,  *)
(* and no exit is paired over a later entry that is left without one.           *)
THEOREM PitStopsPairUp == ReplaySpec => []StopsPairUp
<1>1. Ingested => StopsPairUp
  <2> SUFFICES ASSUME Ingested, stored # None, NEW d \in Driver
               PROVE  Paired(Observations(stored.session.laps, d), {s \in stored.session.stops : s.driver = d})
    BY DEF StopsPairUp, Paired
  <2>1. rows \in Sessions /\ stored.session = Derived(Records(rows))
    BY DEF Ingested, Session
  <2>2. LapTable(Records(rows).laps)
    BY <2>1, LapRecordsTable
  <2>3. stored.session.laps = Records(rows).laps /\ stored.session.stops = Stops(Records(rows).laps)
    BY <2>1 DEF Derived
  <2> QED
    BY <2>2, <2>3, StopsPaired
<1> QED
  BY <1>1, IngestedHolds, PTL

--------------------------------------------------------------------------------
(* Events.  Those of a session are finite, and no two have one key, so its      *)
(* timeline lists them in order of time.                                        *)

(* The stops of a session are finite and typed. *)
StopRows == [driver : Nat, enter : Maybe(Nat), exit : Maybe(Nat), lap : Nat]

(* The stops of a session are finitely many rows. *)
LEMMA StopsTable ==
  ASSUME NEW laps, LapTable(laps)
  PROVE  IsFiniteSet(Stops(laps)) /\ Stops(laps) \subseteq StopRows
<1> DEFINE D == {l.driver : l \in laps}
           tag == [d \in D |-> {[driver |-> d, enter |-> s.enter, exit |-> s.exit, lap |-> s.lap] :
                                s \in StopsOf(laps, d)}]
           parts == {tag[d] : d \in D}
<1>1. Stops(laps) = UNION parts
  <2>1. parts = {{[driver |-> d, enter |-> s.enter, exit |-> s.exit, lap |-> s.lap] :
                  s \in StopsOf(laps, d)} : d \in D}
    OBVIOUS
  <2> QED
    BY <2>1 DEF Stops
<1>2. \A d \in D : IsFiniteSet(tag[d]) /\ tag[d] \subseteq StopRows
  <2> SUFFICES ASSUME NEW d \in D PROVE IsFiniteSet(tag[d]) /\ tag[d] \subseteq StopRows
    OBVIOUS
  <2> DEFINE T == StopsOf(laps, d)
             S == Observations(laps, d)
             E == {s \in T : s.enter # None}
             X == {s \in T : s.exit # None}
             g == [s \in T |-> [driver |-> d, enter |-> s.enter, exit |-> s.exit, lap |-> s.lap]]
  <2>1. d \in Nat
    BY DEF LapTable, Lap
  <2>2. T \subseteq StopTable /\ Paired(S, T) /\ \A s \in T : s.enter # None \/ s.exit # None
    BY StopsOfPaired
  <2>3. IsFiniteSet(S)
    BY ObservedFinite
  <2>4. tag[d] = {g[s] : s \in DOMAIN g} /\ DOMAIN g = T
    OBVIOUS
  <2>5. \A s \in T : g[s] \in StopRows
    <3> SUFFICES ASSUME NEW s \in StopTable
                 PROVE  [driver |-> d, enter |-> s.enter, exit |-> s.exit, lap |-> s.lap] \in StopRows
      BY <2>2
    <3> QED
      BY <2>1 DEF StopTable, StopRows
  <2> HIDE DEF S, T, g, tag
  <2>6. IsFiniteSet(E)
    <3>1. PICK f : f \in Bijection({o \in S : o.way = 0}, E)
      BY <2>2 DEF Paired
    <3>2. f \in Surjection({o \in S : o.way = 0}, E) /\ IsFiniteSet({o \in S : o.way = 0})
      BY <3>1, <2>3, FS_Subset DEF Bijection
    <3> HIDE DEF E
    <3> QED
      BY <3>2, FS_Surjection
  <2>7. IsFiniteSet(X)
    <3>1. PICK f : f \in Bijection({o \in S : o.way = 1}, X)
      BY <2>2 DEF Paired
    <3>2. f \in Surjection({o \in S : o.way = 1}, X) /\ IsFiniteSet({o \in S : o.way = 1})
      BY <3>1, <2>3, FS_Subset DEF Bijection
    <3> HIDE DEF X
    <3> QED
      BY <3>2, FS_Surjection
  <2>8. T = E \cup X
    BY <2>2
  <2>9. IsFiniteSet(T)
    <3> HIDE DEF E, X
    <3> QED
      BY <2>6, <2>7, <2>8, FS_Union
  <2> QED
    BY <2>4, <2>5, <2>9, ImageFinite
<1>3. IsFiniteSet(D)
  <2> DEFINE g == [l \in laps |-> l.driver]
  <2>1. D = {g[l] : l \in DOMAIN g} /\ DOMAIN g = laps
    OBVIOUS
  <2> HIDE DEF D, g
  <2> QED
    BY <2>1, ImageFinite DEF LapTable
<1>4. IsFiniteSet(parts)
  <2>1. DOMAIN tag = D
    OBVIOUS
  <2> HIDE DEF tag, D
  <2> QED
    BY <1>3, <2>1, ImageFinite
<1>5. \A p \in parts : IsFiniteSet(p) /\ p \subseteq StopRows
  <2> HIDE DEF tag, D
  <2> QED
    BY <1>2
<1> HIDE DEF parts
<1> QED
  BY <1>1, <1>4, <1>5, FS_UNION

(* A set of naturals that is finite and not empty has a least element. *)
LEMMA LeastIn ==
  ASSUME NEW S \in SUBSET Int, IsFiniteSet(S), S # {}
  PROVE  \E m \in S : \A x \in S : m <= x
<1> DEFINE g == [x \in S |-> 0 - x]
           M == {g[x] : x \in DOMAIN g}
<1>1. M \in SUBSET Int /\ IsFiniteSet(M) /\ M # {}
  <2>1. M \in SUBSET Int /\ M # {} /\ DOMAIN g = S
    <3>1. DOMAIN g = S /\ \A x \in S : g[x] \in Int
      OBVIOUS
    <3>2. PICK x \in S : TRUE
      OBVIOUS
    <3> HIDE DEF g
    <3> QED
      BY <3>1, <3>2
  <2>2. IsFiniteSet(M)
    <3> HIDE DEF g
    <3> QED
      BY <2>1, ImageFinite
  <2> QED
    BY <2>1, <2>2
<1>2. PICK m \in M : \A x \in M : m >= x
  <2> HIDE DEF M
  <2> QED
    BY <1>1, MaxIn
<1>3. PICK y \in S : m = 0 - y
  OBVIOUS
<1>4. \A x \in S : 0 - y >= 0 - x
  BY <1>2, <1>3
<1>5. \A x \in S : x \in Int /\ y \in Int
  OBVIOUS
<1> QED
  BY <1>4, <1>5

(* There are as many stints as numbers of stints; each starts at no time or at  *)
(* a number's.                                                                  *)
LEMMA StintsTable ==
  ASSUME NEW laps, LapTable(laps)
  PROVE  /\ IsFiniteSet(Stints(laps))
         /\ \A t \in Stints(laps) : t.driver \in Nat /\ t.number \in Nat /\ t.start \in Maybe(Nat)
         /\ \A t, u \in Stints(laps) : t.driver = u.driver /\ t.number = u.number => t = u
<1> DEFINE L == {l \in laps : l.stint # None}
           G(l) == {o \in laps : o.driver = l.driver /\ o.stint = l.stint}
           g == [l \in L |-> Stint(G(l))]
<1>1. Stints(laps) = {g[l] : l \in DOMAIN g} /\ DOMAIN g = L
  BY DEF Stints
<1>2. IsFiniteSet(L)
  BY FS_Subset DEF LapTable
<1>3. ASSUME NEW l \in L
      PROVE  \E f \in G(l) : g[l].driver = f.driver /\ g[l].number = f.stint /\ g[l].start = f.start
  <2> DEFINE f == CHOOSE x \in G(l) : \A o \in G(l) : x.lap <= o.lap
             n == [o \in G(l) |-> o.lap]
             N == {n[o] : o \in DOMAIN n}
  <2>1. IsFiniteSet(G(l)) /\ l \in G(l)
    BY FS_Subset DEF LapTable
  <2>2. \A o \in G(l) : o.lap \in Int
    BY DEF LapTable, Lap
  <2>3. N \in SUBSET Int /\ N # {} /\ DOMAIN n = G(l)
    BY <2>1, <2>2
  <2>4. IsFiniteSet(N)
    <3> HIDE DEF n, G
    <3> QED
      BY <2>1, <2>3, ImageFinite
  <2>5. PICK m \in N : \A x \in N : m <= x
    <3> HIDE DEF N
    <3> QED
      BY <2>3, <2>4, LeastIn
  <2>6. \E x \in G(l) : \A o \in G(l) : x.lap <= o.lap
    BY <2>5
  <2> HIDE DEF G
  <2>7. f \in G(l)
    BY <2>6
  <2>8. g[l].driver = f.driver /\ g[l].number = f.stint /\ g[l].start = f.start
    BY DEF Stint
  <2> QED
    BY <2>7, <2>8
<1>4. \A l \in L : /\ g[l].driver = l.driver /\ g[l].number = l.stint
                   /\ g[l].start \in Maybe(Nat) /\ l.driver \in Nat /\ l.stint \in Nat
  <2> SUFFICES ASSUME NEW l \in L
               PROVE  /\ g[l].driver = l.driver /\ g[l].number = l.stint
                      /\ g[l].start \in Maybe(Nat) /\ l.driver \in Nat /\ l.stint \in Nat
    OBVIOUS
  <2>1. PICK f \in G(l) : g[l].driver = f.driver /\ g[l].number = f.stint /\ g[l].start = f.start
    BY <1>3
  <2>2. f.start \in Maybe(Nat) /\ l.driver \in Nat /\ l.stint \in Nat
    BY DEF LapTable, Lap, Maybe
  <2> QED
    BY <2>1, <2>2
<1>5. \A l, k \in L : l.driver = k.driver /\ l.stint = k.stint => g[l] = g[k]
  <2> SUFFICES ASSUME NEW l \in L, NEW k \in L, l.driver = k.driver, l.stint = k.stint
               PROVE  g[l] = g[k]
    OBVIOUS
  <2>1. G(l) = G(k)
    OBVIOUS
  <2> QED
    BY <2>1
<1> HIDE DEF g, L
<1>6. IsFiniteSet(Stints(laps))
  BY <1>1, <1>2, ImageFinite
<1> QED
  BY <1>1, <1>4, <1>5, <1>6

(* The tables of a session. *)
Tabled(s) ==
  /\ LapTable(s.laps)
  /\ IsFiniteSet(s.weather) /\ \A w, v \in s.weather : w.id = v.id => w = v
  /\ \A w \in s.weather : w.id \in Nat /\ w.at \in Nat
  /\ IsFiniteSet(s.control) /\ \A c, b \in s.control : c.id = b.id => c = b
  /\ \A c \in s.control : c.id \in Nat /\ c.source \in Nat /\ c.at \in Nat
  /\ IsFiniteSet(s.positions) /\ \A p, o \in s.positions : p.id = o.id => p = o
  /\ \A p \in s.positions : p.id \in Nat /\ p.driver \in Nat /\ p.at \in Nat /\ p.place \in Nat
  /\ IsFiniteSet(s.stints)
  /\ \A t \in s.stints : t.driver \in Nat /\ t.number \in Nat /\ t.start \in Maybe(Nat)
  /\ \A t, u \in s.stints : t.driver = u.driver /\ t.number = u.number => t = u
  /\ IsFiniteSet(s.stops) /\ s.stops \subseteq StopRows

(* A session that is derived is Tabled. *)
LEMMA SessionTabled ==
  ASSUME NEW r \in Sessions
  PROVE  Tabled(Session(r))
<1> DEFINE s == Session(r)
           rs == Records(r)
<1>1. /\ s.laps = rs.laps /\ s.weather = rs.weather /\ s.control = rs.control
      /\ s.positions = rs.positions /\ s.stints = Stints(rs.laps) /\ s.stops = Stops(rs.laps)
  BY DEF Session, Derived
<1>2. LapTable(rs.laps)
  BY LapRecordsTable
<1>3. /\ rs.weather \subseteq r.weather /\ rs.control \subseteq {c \in r.control : c.at # None}
      /\ rs.positions \subseteq r.positions
  BY RecordsAreRows
<1>4. /\ Table(r.weather) /\ \A w \in r.weather : WeatherRow(w)
      /\ Table(r.control) /\ \A c \in r.control : ControlRow(c)
      /\ Table(r.positions) /\ \A p \in r.positions : PositionRow(p)
  BY SessionsAssumption
<1> HIDE DEF s, rs
<1>5. /\ IsFiniteSet(rs.weather) /\ IsFiniteSet(rs.control) /\ IsFiniteSet(rs.positions)
  <2>1. {c \in r.control : c.at # None} \subseteq r.control
    OBVIOUS
  <2>2. rs.control \subseteq r.control
    BY <1>3, <2>1
  <2> QED
    BY <1>3, <1>4, <2>2, FS_Subset DEF Table
<1>6. \A w, v \in rs.weather : w.id = v.id => w = v
  BY <1>3, <1>4 DEF Table
<1>7. \A w \in rs.weather : w.id \in Nat /\ w.at \in Nat
  BY <1>3, <1>4 DEF WeatherRow
<1>8. \A c, b \in rs.control : c.id = b.id => c = b
  BY <1>3, <1>4 DEF Table
<1>9. \A c \in rs.control : c.id \in Nat /\ c.source \in Nat /\ c.at \in Nat
  BY <1>3, <1>4 DEF ControlRow, Maybe
<1>10. \A p, o \in rs.positions : p.id = o.id => p = o
  BY <1>3, <1>4 DEF Table
<1>11. \A p \in rs.positions : p.id \in Nat /\ p.driver \in Nat /\ p.at \in Nat /\ p.place \in Nat
  BY <1>3, <1>4 DEF PositionRow
<1>12. Tabled(s)
  BY <1>1, <1>2, <1>5, <1>6, <1>7, <1>8, <1>9, <1>10, <1>11, StintsTable, StopsTable DEF Tabled
<1> QED
  BY <1>12 DEF s

(* The events of one kind, each of another record. *)
EventRow(e) ==
  /\ e = Event(e.kind, e.at, e.driver, <<e.tie[1], e.tie[2]>>, e.of)
  /\ e.at \in Nat /\ e.driver \in Nat /\ e.tie[1] \in Nat /\ e.tie[2] \in Nat
Keyed(F, k) ==
  /\ IsFiniteSet(F) /\ \A e \in F : e.kind = k /\ EventRow(e)
  /\ \A e, f \in F : e.at = f.at /\ e.driver = f.driver /\ e.tie[1] = f.tie[1] /\ e.tie[2] = f.tie[2] => e = f

(* A family of events of one kind whose ids differ is Keyed. *)
LEMMA FamilyKeyed ==
  ASSUME NEW k, NEW g, IsFiniteSet(DOMAIN g),
         \A x \in DOMAIN g : g[x].kind = k /\ EventRow(g[x]),
         \A x, y \in DOMAIN g :
            g[x].at = g[y].at /\ g[x].driver = g[y].driver
            /\ g[x].tie[1] = g[y].tie[1] /\ g[x].tie[2] = g[y].tie[2] => x = y
  PROVE  Keyed({g[x] : x \in DOMAIN g}, k)
BY ImageFinite DEF Keyed

(* Other is one-to-one: an unknown time is told from the start of the session. *)
LEMMA OtherTellsApart ==
  /\ \A t \in Maybe(Nat) : Other(t) \in Nat
  /\ \A t, u \in Maybe(Nat) : Other(t) = Other(u) => t = u
BY NoneIsNoNumber DEF Other, Maybe

Kinds == {"marker", "status", "weather", "control", "stint", "enter", "place", "lap", "exit"}

(* Each kind of event has its own priority. *)
LEMMA PriorityTellsApart ==
  /\ \A k \in Kinds : Priority[k] \in Nat
  /\ \A k, m \in Kinds : Priority[k] = Priority[m] => k = m
BY DEF Kinds, Priority

(* The fields of an event. *)
LEMMA EventIs ==
  ASSUME NEW e, NEW k, NEW of, NEW a \in Nat, NEW d \in Nat, NEW i \in Nat, NEW j \in Nat,
         e = Event(k, a, d, <<i, j>>, of)
  PROVE  /\ e.kind = k /\ EventRow(e) /\ e.of = of
         /\ e.at = a /\ e.driver = d /\ e.tie[1] = i /\ e.tie[2] = j
BY DEF Event, EventRow

(* Events of one kind have keys that differ. *)
LEMMA KindsKeyed ==
  ASSUME NEW s, Tabled(s)
  PROVE  /\ \A k \in Kinds : Keyed({e \in Events(s) : e.kind = k}, k)
         /\ \A e \in Events(s) : e.kind \in Kinds
<1> DEFINE L == {l \in s.laps : l.end # None /\ ~ l.deleted}
           C == StatusChanges(s.control)
           T == {t \in s.stints : t.start # None}
           N == {p \in s.stops : p.enter # None}
           X == {p \in s.stops : p.exit # None}
           marker == [x \in {None} |-> Event("marker", 0, 0, <<0, 0>>, x)]
           weather == [w \in s.weather |-> Event("weather", w.at, 0, <<0, w.id>>, w)]
           control == [c \in s.control |-> Event("control", c.at, 0, <<c.source, c.id>>, c)]
           status == [c \in C |-> Event("status", c.at, 0, <<c.source, c.id>>, c)]
           stint == [t \in T |-> Event("stint", t.start, t.driver, <<0, t.number>>, t)]
           enter == [p \in N |-> Event("enter", p.enter, p.driver, <<p.lap, Other(p.exit)>>, p)]
           exit == [p \in X |-> Event("exit", p.exit, p.driver, <<p.lap, Other(p.enter)>>, p)]
           place == [p \in s.positions |-> Event("place", p.at, p.driver, <<0, p.id>>, p)]
           lap == [l \in L |-> Event("lap", l.end, l.driver, <<0, l.id>>, l)]
           All(g) == {g[x] : x \in DOMAIN g}
<1>0. /\ IsFiniteSet(L) /\ IsFiniteSet(C) /\ IsFiniteSet(T) /\ IsFiniteSet(N) /\ IsFiniteSet(X)
      /\ C \subseteq s.control /\ IsFiniteSet({None})
  <2>1. C \subseteq s.control
    BY DEF StatusChanges
  <2>2. IsFiniteSet(s.laps) /\ IsFiniteSet(s.control) /\ IsFiniteSet(s.stints) /\ IsFiniteSet(s.stops)
    BY DEF Tabled, LapTable
  <2> HIDE DEF C
  <2> QED
    BY <2>1, <2>2, FS_Subset, FS_Singleton
<1> HIDE DEF C
<1>1. Keyed(All(marker), "marker")
  <2>1. /\ DOMAIN marker = {None}
        /\ \A x \in {None} : marker[x] = Event("marker", 0, 0, <<0, 0>>, x)
    OBVIOUS
  <2> HIDE DEF marker
  <2>2. \A x \in {None} : marker[x].kind = "marker" /\ EventRow(marker[x])
    <3> SUFFICES ASSUME NEW x \in {None}
                 PROVE  marker[x].kind = "marker" /\ EventRow(marker[x])
      OBVIOUS
    <3> QED
      BY <2>1, EventIs
  <2> QED
    BY <1>0, <2>1, <2>2, FamilyKeyed
<1>2. Keyed(All(weather), "weather")
  <2>1. /\ DOMAIN weather = s.weather
        /\ \A x \in s.weather : weather[x] = Event("weather", x.at, 0, <<0, x.id>>, x)
                                /\ x.at \in Nat /\ x.id \in Nat
    BY DEF Tabled
  <2> HIDE DEF weather
  <2>2. \A x \in s.weather : /\ weather[x].kind = "weather" /\ EventRow(weather[x])
                             /\ weather[x].tie[2] = x.id
    <3> SUFFICES ASSUME NEW x \in s.weather
                 PROVE  /\ weather[x].kind = "weather" /\ EventRow(weather[x])
                        /\ weather[x].tie[2] = x.id
      OBVIOUS
    <3>1. weather[x] = Event("weather", x.at, 0, <<0, x.id>>, x)
      BY <2>1
    <3>2. x.at \in Nat /\ x.id \in Nat
      BY <2>1
    <3> QED
      BY <3>1, <3>2, EventIs
  <2>3. \A x, y \in s.weather : weather[x].tie[2] = weather[y].tie[2] => x = y
    BY <2>2 DEF Tabled
  <2>4. IsFiniteSet(s.weather)
    BY DEF Tabled
  <2> QED
    BY <2>1, <2>2, <2>3, <2>4, FamilyKeyed
<1>3. Keyed(All(control), "control")
  <2>1. /\ DOMAIN control = s.control
        /\ \A x \in s.control : control[x] = Event("control", x.at, 0, <<x.source, x.id>>, x)
                                /\ x.at \in Nat /\ x.id \in Nat /\ x.source \in Nat
    BY DEF Tabled
  <2> HIDE DEF control
  <2>2. \A x \in s.control : /\ control[x].kind = "control" /\ EventRow(control[x])
                             /\ control[x].tie[2] = x.id
    <3> SUFFICES ASSUME NEW x \in s.control
                 PROVE  /\ control[x].kind = "control" /\ EventRow(control[x])
                        /\ control[x].tie[2] = x.id
      OBVIOUS
    <3>1. control[x] = Event("control", x.at, 0, <<x.source, x.id>>, x)
      BY <2>1
    <3>2. x.at \in Nat /\ x.id \in Nat /\ x.source \in Nat
      BY <2>1
    <3>3. control[x] = [kind |-> "control", at |-> x.at, driver |-> 0, tie |-> <<x.source, x.id>>, of |-> x]
      BY <3>1 DEF Event
    <3>4. /\ control[x].kind = "control" /\ control[x].at = x.at /\ control[x].driver = 0
          /\ control[x].tie = <<x.source, x.id>> /\ control[x].of = x
      BY <3>3
    <3>5. control[x].tie[1] = x.source /\ control[x].tie[2] = x.id
      BY <3>4
    <3>6. EventRow(control[x])
      BY <3>1, <3>2, <3>4, <3>5 DEF EventRow
    <3> QED
      BY <3>4, <3>5, <3>6
  <2>3. \A x, y \in s.control : control[x].tie[2] = control[y].tie[2] => x = y
    BY <2>2 DEF Tabled
  <2>4. IsFiniteSet(s.control)
    BY DEF Tabled
  <2> QED
    BY <2>1, <2>2, <2>3, <2>4, FamilyKeyed
<1>4. Keyed(All(status), "status")
  <2>1. /\ DOMAIN status = C
        /\ \A x \in C : status[x] = Event("status", x.at, 0, <<x.source, x.id>>, x)
                        /\ x.at \in Nat /\ x.id \in Nat /\ x.source \in Nat
    BY <1>0 DEF Tabled
  <2> HIDE DEF status
  <2>2. \A x \in C : /\ status[x].kind = "status" /\ EventRow(status[x])
                     /\ status[x].tie[2] = x.id
    <3> SUFFICES ASSUME NEW x \in C
                 PROVE  /\ status[x].kind = "status" /\ EventRow(status[x])
                        /\ status[x].tie[2] = x.id
      OBVIOUS
    <3>1. status[x] = Event("status", x.at, 0, <<x.source, x.id>>, x)
      BY <2>1
    <3>2. x.at \in Nat /\ x.id \in Nat /\ x.source \in Nat
      BY <2>1
    <3>3. status[x] = [kind |-> "status", at |-> x.at, driver |-> 0, tie |-> <<x.source, x.id>>, of |-> x]
      BY <3>1 DEF Event
    <3>4. /\ status[x].kind = "status" /\ status[x].at = x.at /\ status[x].driver = 0
          /\ status[x].tie = <<x.source, x.id>> /\ status[x].of = x
      BY <3>3
    <3>5. status[x].tie[1] = x.source /\ status[x].tie[2] = x.id
      BY <3>4
    <3>6. EventRow(status[x])
      BY <3>1, <3>2, <3>4, <3>5 DEF EventRow
    <3> QED
      BY <3>4, <3>5, <3>6
  <2>3. \A x, y \in C : status[x].tie[2] = status[y].tie[2] => x = y
    BY <1>0, <2>2 DEF Tabled
  <2> QED
    BY <1>0, <2>1, <2>2, <2>3, FamilyKeyed
<1>5. Keyed(All(stint), "stint")
  <2>1. /\ DOMAIN stint = T
        /\ \A x \in T : stint[x] = Event("stint", x.start, x.driver, <<0, x.number>>, x)
                        /\ x.start \in Nat /\ x.driver \in Nat /\ x.number \in Nat
    BY DEF Tabled, Maybe
  <2> HIDE DEF stint
  <2>2. \A x \in T : /\ stint[x].kind = "stint" /\ EventRow(stint[x])
                     /\ stint[x].tie[2] = x.number /\ stint[x].driver = x.driver
    <3> SUFFICES ASSUME NEW x \in T
                 PROVE  /\ stint[x].kind = "stint" /\ EventRow(stint[x])
                        /\ stint[x].tie[2] = x.number /\ stint[x].driver = x.driver
      OBVIOUS
    <3>1. stint[x] = Event("stint", x.start, x.driver, <<0, x.number>>, x)
      BY <2>1
    <3>2. x.start \in Nat /\ x.driver \in Nat /\ x.number \in Nat
      BY <2>1
    <3> QED
      BY <3>1, <3>2, EventIs
  <2>3. \A x, y \in T : stint[x].tie[2] = stint[y].tie[2] /\ stint[x].driver = stint[y].driver => x = y
    BY <2>2 DEF Tabled
  <2> HIDE DEF T
  <2> QED
    BY <1>0, <2>1, <2>2, <2>3, FamilyKeyed
<1>6. Keyed(All(enter), "enter")
  <2>1. /\ DOMAIN enter = N
        /\ \A x \in N : /\ enter[x] = Event("enter", x.enter, x.driver, <<x.lap, Other(x.exit)>>, x)
                        /\ x.enter \in Nat /\ x.driver \in Nat /\ x.lap \in Nat /\ Other(x.exit) \in Nat
                        /\ x.exit \in Maybe(Nat) /\ x \in StopRows
    <3>1. \A x \in N : /\ x.enter \in Nat /\ x.driver \in Nat /\ x.lap \in Nat
                       /\ x.exit \in Maybe(Nat) /\ x \in StopRows
      BY DEF Tabled, StopRows, Maybe
    <3> QED
      BY <3>1, OtherTellsApart
  <2> HIDE DEF enter, N
  <2>2. \A x \in N : /\ enter[x].kind = "enter" /\ EventRow(enter[x])
                     /\ enter[x].tie[2] = Other(x.exit) /\ enter[x].tie[1] = x.lap
                     /\ enter[x].driver = x.driver /\ enter[x].at = x.enter
    <3> SUFFICES ASSUME NEW x \in N
                 PROVE  /\ enter[x].kind = "enter" /\ EventRow(enter[x])
                        /\ enter[x].tie[2] = Other(x.exit) /\ enter[x].tie[1] = x.lap
                        /\ enter[x].driver = x.driver /\ enter[x].at = x.enter
      OBVIOUS
    <3>1. enter[x] = Event("enter", x.enter, x.driver, <<x.lap, Other(x.exit)>>, x)
      BY <2>1
    <3>2. x.enter \in Nat /\ x.driver \in Nat /\ x.lap \in Nat /\ Other(x.exit) \in Nat /\ x.exit \in Maybe(Nat) /\ x \in StopRows
      BY <2>1
    <3>3. enter[x] = [kind |-> "enter", at |-> x.enter, driver |-> x.driver, tie |-> <<x.lap, Other(x.exit)>>, of |-> x]
      BY <3>1 DEF Event
    <3>4. /\ enter[x].kind = "enter" /\ enter[x].at = x.enter /\ enter[x].driver = x.driver
          /\ enter[x].tie = <<x.lap, Other(x.exit)>> /\ enter[x].of = x
      BY <3>3
    <3>5. enter[x].tie[1] = x.lap /\ enter[x].tie[2] = Other(x.exit)
      BY <3>4
    <3>6. EventRow(enter[x])
      BY <3>1, <3>2, <3>4, <3>5 DEF EventRow
    <3> QED
      BY <3>4, <3>5, <3>6
  <2>3. ASSUME NEW x \in N, NEW y \in N, enter[x].at = enter[y].at, enter[x].driver = enter[y].driver,
               enter[x].tie[1] = enter[y].tie[1], enter[x].tie[2] = enter[y].tie[2]
        PROVE  x = y
    <3>1. x.enter = y.enter /\ x.driver = y.driver /\ x.lap = y.lap /\ Other(x.exit) = Other(y.exit)
      BY <2>2, <2>3
    <3>2. x \in StopRows /\ y \in StopRows /\ x.exit \in Maybe(Nat) /\ y.exit \in Maybe(Nat)
      BY <2>1
    <3>3. x.exit = y.exit
      BY <3>1, <3>2, OtherTellsApart
    <3> QED
      BY <3>1, <3>2, <3>3 DEF StopRows
  <2> QED
    BY <1>0, <2>1, <2>2, <2>3, FamilyKeyed
<1>7. Keyed(All(exit), "exit")
  <2>1. /\ DOMAIN exit = X
        /\ \A x \in X : /\ exit[x] = Event("exit", x.exit, x.driver, <<x.lap, Other(x.enter)>>, x)
                        /\ x.exit \in Nat /\ x.driver \in Nat /\ x.lap \in Nat /\ Other(x.enter) \in Nat
                        /\ x.enter \in Maybe(Nat) /\ x \in StopRows
    <3>1. \A x \in X : /\ x.exit \in Nat /\ x.driver \in Nat /\ x.lap \in Nat
                       /\ x.enter \in Maybe(Nat) /\ x \in StopRows
      BY DEF Tabled, StopRows, Maybe
    <3> QED
      BY <3>1, OtherTellsApart
  <2> HIDE DEF exit, X
  <2>2. \A x \in X : /\ exit[x].kind = "exit" /\ EventRow(exit[x])
                     /\ exit[x].tie[2] = Other(x.enter) /\ exit[x].tie[1] = x.lap
                     /\ exit[x].driver = x.driver /\ exit[x].at = x.exit
    <3> SUFFICES ASSUME NEW x \in X
                 PROVE  /\ exit[x].kind = "exit" /\ EventRow(exit[x])
                        /\ exit[x].tie[2] = Other(x.enter) /\ exit[x].tie[1] = x.lap
                        /\ exit[x].driver = x.driver /\ exit[x].at = x.exit
      OBVIOUS
    <3>1. exit[x] = Event("exit", x.exit, x.driver, <<x.lap, Other(x.enter)>>, x)
      BY <2>1
    <3>2. x.exit \in Nat /\ x.driver \in Nat /\ x.lap \in Nat /\ Other(x.enter) \in Nat /\ x.enter \in Maybe(Nat) /\ x \in StopRows
      BY <2>1
    <3> QED
      BY <3>1, <3>2, EventIs
  <2>3. ASSUME NEW x \in X, NEW y \in X, exit[x].at = exit[y].at, exit[x].driver = exit[y].driver,
               exit[x].tie[1] = exit[y].tie[1], exit[x].tie[2] = exit[y].tie[2]
        PROVE  x = y
    <3>1. x.exit = y.exit /\ x.driver = y.driver /\ x.lap = y.lap /\ Other(x.enter) = Other(y.enter)
      BY <2>2, <2>3
    <3>2. x \in StopRows /\ y \in StopRows /\ x.enter \in Maybe(Nat) /\ y.enter \in Maybe(Nat)
      BY <2>1
    <3>3. x.enter = y.enter
      BY <3>1, <3>2, OtherTellsApart
    <3> QED
      BY <3>1, <3>2, <3>3 DEF StopRows
  <2> QED
    BY <1>0, <2>1, <2>2, <2>3, FamilyKeyed
<1>8. Keyed(All(place), "place")
  <2>1. /\ DOMAIN place = s.positions
        /\ \A x \in s.positions : place[x] = Event("place", x.at, x.driver, <<0, x.id>>, x)
                                  /\ x.at \in Nat /\ x.id \in Nat /\ x.driver \in Nat
    BY DEF Tabled
  <2> HIDE DEF place
  <2>2. \A x \in s.positions : /\ place[x].kind = "place" /\ EventRow(place[x])
                               /\ place[x].tie[2] = x.id
    <3> SUFFICES ASSUME NEW x \in s.positions
                 PROVE  /\ place[x].kind = "place" /\ EventRow(place[x])
                        /\ place[x].tie[2] = x.id
      OBVIOUS
    <3>1. place[x] = Event("place", x.at, x.driver, <<0, x.id>>, x)
      BY <2>1
    <3>2. x.at \in Nat /\ x.id \in Nat /\ x.driver \in Nat
      BY <2>1
    <3> QED
      BY <3>1, <3>2, EventIs, SMTT(30)
  <2>3. \A x, y \in s.positions : place[x].tie[2] = place[y].tie[2] => x = y
    BY <2>2 DEF Tabled
  <2>4. IsFiniteSet(s.positions)
    BY DEF Tabled
  <2> QED
    BY <2>1, <2>2, <2>3, <2>4, FamilyKeyed
<1>9. Keyed(All(lap), "lap")
  <2>1. /\ DOMAIN lap = L
        /\ \A x \in L : lap[x] = Event("lap", x.end, x.driver, <<0, x.id>>, x)
                        /\ x.end \in Nat /\ x.id \in Nat /\ x.driver \in Nat
    BY DEF Tabled, LapTable, Lap, Maybe
  <2> HIDE DEF lap
  <2>2. \A x \in L : lap[x].kind = "lap" /\ EventRow(lap[x]) /\ lap[x].tie[2] = x.id
    <3> SUFFICES ASSUME NEW x \in L
                 PROVE  lap[x].kind = "lap" /\ EventRow(lap[x]) /\ lap[x].tie[2] = x.id
      OBVIOUS
    <3>1. lap[x] = Event("lap", x.end, x.driver, <<0, x.id>>, x)
      BY <2>1
    <3>2. x.end \in Nat /\ x.id \in Nat /\ x.driver \in Nat
      BY <2>1
    <3> QED
      BY <3>1, <3>2, EventIs
  <2>3. \A x, y \in L : lap[x].tie[2] = lap[y].tie[2] => x = y
    BY <2>2 DEF Tabled, LapTable
  <2> HIDE DEF L
  <2> QED
    BY <1>0, <2>1, <2>2, <2>3, FamilyKeyed
<1>10. Events(s) = All(marker) \cup All(weather) \cup All(control) \cup All(status) \cup All(stint)
                   \cup All(enter) \cup All(exit) \cup All(place) \cup All(lap)
  <2>1. /\ All(marker) = {Event("marker", 0, 0, <<0, 0>>, None)}
        /\ All(weather) = {Event("weather", w.at, 0, <<0, w.id>>, w) : w \in s.weather}
        /\ All(control) = {Event("control", c.at, 0, <<c.source, c.id>>, c) : c \in s.control}
        /\ All(status) = {Event("status", c.at, 0, <<c.source, c.id>>, c) : c \in StatusChanges(s.control)}
    BY DEF C
  <2>2. /\ All(stint) = {Event("stint", t.start, t.driver, <<0, t.number>>, t) : t \in T}
        /\ All(enter) = {Event("enter", p.enter, p.driver, <<p.lap, Other(p.exit)>>, p) : p \in N}
        /\ All(exit) = {Event("exit", p.exit, p.driver, <<p.lap, Other(p.enter)>>, p) : p \in X}
        /\ All(place) = {Event("place", p.at, p.driver, <<0, p.id>>, p) : p \in s.positions}
    OBVIOUS
  <2>3. All(lap) = LapEvents(s)
    BY DEF LapEvents
  <2> HIDE DEF marker, weather, control, status, stint, enter, exit, place, lap, All
  <2> QED
    BY <2>1, <2>2, <2>3 DEF Events
<1> DEFINE F1 == All(marker)
           F2 == All(weather)
           F3 == All(control)
           F4 == All(status)
           F5 == All(stint)
           F6 == All(enter)
           F7 == All(exit)
           F8 == All(place)
           F9 == All(lap)
<1>11. /\ Keyed(F1, "marker") /\ Keyed(F2, "weather") /\ Keyed(F3, "control") /\ Keyed(F4, "status")
       /\ Keyed(F5, "stint") /\ Keyed(F6, "enter") /\ Keyed(F7, "exit") /\ Keyed(F8, "place")
       /\ Keyed(F9, "lap")
       /\ Events(s) = F1 \cup F2 \cup F3 \cup F4 \cup F5 \cup F6 \cup F7 \cup F8 \cup F9
  BY <1>1, <1>2, <1>3, <1>4, <1>5, <1>6, <1>7, <1>8, <1>9, <1>10
<1> HIDE DEF F1, F2, F3, F4, F5, F6, F7, F8, F9
<1>12. /\ \A e \in F1 : e.kind = "marker"
       /\ \A e \in F2 : e.kind = "weather"
       /\ \A e \in F3 : e.kind = "control"
       /\ \A e \in F4 : e.kind = "status"
       /\ \A e \in F5 : e.kind = "stint"
       /\ \A e \in F6 : e.kind = "enter"
       /\ \A e \in F7 : e.kind = "exit"
       /\ \A e \in F8 : e.kind = "place"
       /\ \A e \in F9 : e.kind = "lap"
  BY <1>11 DEF Keyed
<1>13. /\ {e \in Events(s) : e.kind = "marker"} = F1
       /\ {e \in Events(s) : e.kind = "weather"} = F2
       /\ {e \in Events(s) : e.kind = "control"} = F3
       /\ {e \in Events(s) : e.kind = "status"} = F4
       /\ {e \in Events(s) : e.kind = "stint"} = F5
       /\ {e \in Events(s) : e.kind = "enter"} = F6
       /\ {e \in Events(s) : e.kind = "exit"} = F7
       /\ {e \in Events(s) : e.kind = "place"} = F8
       /\ {e \in Events(s) : e.kind = "lap"} = F9
  BY <1>11, <1>12
<1>14. ASSUME NEW k \in Kinds PROVE Keyed({e \in Events(s) : e.kind = k}, k)
  <2>1. CASE k = "marker"
    BY <1>11, <1>13, <2>1
  <2>2. CASE k = "weather"
    BY <1>11, <1>13, <2>2
  <2>3. CASE k = "control"
    BY <1>11, <1>13, <2>3
  <2>4. CASE k = "status"
    BY <1>11, <1>13, <2>4
  <2>5. CASE k = "stint"
    BY <1>11, <1>13, <2>5
  <2>6. CASE k = "enter"
    BY <1>11, <1>13, <2>6
  <2>7. CASE k = "exit"
    BY <1>11, <1>13, <2>7
  <2>8. CASE k = "place"
    BY <1>11, <1>13, <2>8
  <2>9. CASE k = "lap"
    BY <1>11, <1>13, <2>9
  <2> QED
    BY <2>1, <2>2, <2>3, <2>4, <2>5, <2>6, <2>7, <2>8, <2>9 DEF Kinds
<1>15. \A e \in Events(s) : e.kind \in Kinds
  BY <1>11, <1>12 DEF Kinds
<1> QED
  BY <1>14, <1>15

(* A key is two tuples on end. *)
LEMMA FiveNumbers ==
  ASSUME NEW a \in Int, NEW b \in Int, NEW c \in Int, NEW d \in Int, NEW e \in Int
  PROVE  <<a, b, c>> \o <<d, e>> = <<a, b, c, d, e>>
<1> DEFINE x == <<a, b, c>>
           y == <<d, e>>
           z == <<a, b, c, d, e>>
<1>1. /\ x \in Seq(Int) /\ Len(x) = 3 /\ x[1] = a /\ x[2] = b /\ x[3] = c
      /\ y \in Seq(Int) /\ Len(y) = 2 /\ y[1] = d /\ y[2] = e
      /\ z \in Seq(Int) /\ Len(z) = 5 /\ z[1] = a /\ z[2] = b /\ z[3] = c /\ z[4] = d /\ z[5] = e
  OBVIOUS
<1> HIDE DEF x, y, z
<1>0. x \in Seq(Int) /\ y \in Seq(Int)
  BY <1>1
<1>5. /\ x \o y \in Seq(Int) /\ Len(x \o y) = Len(x) + Len(y)
      /\ \A i \in 1 .. Len(x) + Len(y) : (x \o y)[i] = IF i <= Len(x) THEN x[i] ELSE y[i - Len(x)]
  BY <1>0, ConcatProperties, Zenon
<1>2. x \o y \in Seq(Int) /\ Len(x \o y) = 5
  BY <1>1, <1>5
<1>3. ASSUME NEW i \in 1..5 PROVE (x \o y)[i] = z[i]
  <2>0. Len(x) + Len(y) = 5 /\ Len(x) = 3
    BY <1>1
  <2> DEFINE w == x \o y
  <2>3. \A n \in 1..5 : w[n] = IF n <= 3 THEN x[n] ELSE y[n - 3]
    BY <2>0, <1>5
  <2> HIDE DEF w
  <2>4. w[i] = IF i <= 3 THEN x[i] ELSE y[i - 3]
    BY <2>3
  <2>1. (x \o y)[i] = IF i <= 3 THEN x[i] ELSE y[i - 3]
    BY <2>4 DEF w
  <2>2. i = 1 \/ i = 2 \/ i = 3 \/ i = 4 \/ i = 5
    OBVIOUS
  <2> QED
    BY <1>1, <2>1, <2>2, SMTT(30)
<1>4. x \o y = z
  BY <1>1, <1>2, <1>3, SeqEqual
<1> QED
  BY <1>4 DEF x, y, z

EventKey(s) == [e \in Events(s) |-> <<e.at, Priority[e.kind], e.driver>> \o e.tie]

(* So have all events of a session: the timeline's order is total. *)
LEMMA EventsKeyed ==
  ASSUME NEW s, Tabled(s)
  PROVE  /\ IsFiniteSet(Events(s))
         /\ \A e \in Events(s) : /\ e.kind \in Kinds /\ EventRow(e) /\ EventKey(s)[e] \in Keys(5)
                                 /\ EventKey(s)[e][1] = e.at /\ EventKey(s)[e][2] = Priority[e.kind]
                                 /\ EventKey(s)[e][3] = e.driver
                                 /\ EventKey(s)[e][4] = e.tie[1] /\ EventKey(s)[e][5] = e.tie[2]
         /\ \A e, f \in Events(s) : EventKey(s)[e] = EventKey(s)[f] => e = f
<1> DEFINE fam == [k \in Kinds |-> {e \in Events(s) : e.kind = k}]
           parts == {fam[k] : k \in DOMAIN fam}
           key == EventKey(s)
<1>1. /\ \A k \in Kinds : Keyed(fam[k], k)
      /\ \A e \in Events(s) : e.kind \in Kinds /\ e \in fam[e.kind]
      /\ Events(s) = UNION parts
  BY KindsKeyed
<1>2. IsFiniteSet(Kinds)
  <2>1. Kinds = {"marker", "status", "weather", "control"} \cup {"stint", "enter", "place"} \cup {"lap", "exit"}
    BY DEF Kinds
  <2>2. /\ IsFiniteSet({"marker"}) /\ IsFiniteSet({"status"}) /\ IsFiniteSet({"weather"})
        /\ IsFiniteSet({"control"}) /\ IsFiniteSet({"stint"}) /\ IsFiniteSet({"enter"})
        /\ IsFiniteSet({"place"}) /\ IsFiniteSet({"lap"}) /\ IsFiniteSet({"exit"})
    BY FS_Singleton
  <2>3. Kinds = ((((((({"marker"} \cup {"status"}) \cup {"weather"}) \cup {"control"}) \cup {"stint"})
                     \cup {"enter"}) \cup {"place"}) \cup {"lap"}) \cup {"exit"}
    BY DEF Kinds
  <2> QED
    BY <2>2, <2>3, FS_Union
<1>3. IsFiniteSet(Events(s))
  <2>1. IsFiniteSet(parts)
    <3>1. DOMAIN fam = Kinds
      OBVIOUS
    <3> HIDE DEF fam
    <3> QED
      BY <1>2, <3>1, ImageFinite
  <2>2. \A p \in parts : IsFiniteSet(p)
    BY <1>1 DEF Keyed
  <2> HIDE DEF parts
  <2> QED
    BY <1>1, <2>1, <2>2, FS_UNION
<1>4. \A e \in Events(s) : EventRow(e)
  <2> HIDE DEF fam
  <2> QED
    BY <1>1 DEF Keyed
<1>5. ASSUME NEW e \in Events(s)
      PROVE  /\ key[e] = <<e.at, Priority[e.kind], e.driver, e.tie[1], e.tie[2]>>
             /\ key[e] \in Keys(5) /\ key[e][1] = e.at /\ key[e][2] = Priority[e.kind]
             /\ key[e][3] = e.driver /\ key[e][4] = e.tie[1] /\ key[e][5] = e.tie[2]
  <2> DEFINE a == e.tie[1]
             b == e.tie[2]
             c == e.tie
             k == Priority[e.kind]
  <2>1. EventRow(e) /\ e.kind \in Kinds
    BY <1>1, <1>4
  <2>2. e.at \in Nat /\ e.driver \in Nat /\ a \in Nat /\ b \in Nat /\ k \in Nat
    BY <2>1, PriorityTellsApart DEF EventRow
  <2>3. c = <<a, b>>
    <3> HIDE DEF a, b
    <3>1. e = Event(e.kind, e.at, e.driver, <<a, b>>, e.of)
      BY <2>1 DEF EventRow, a, b
    <3> QED
      BY <3>1 DEF Event
  <2>4. key[e] = <<e.at, k, e.driver>> \o c
    BY DEF EventKey
  <2> HIDE DEF a, b, c, k
  <2>5. key[e] = <<e.at, k, e.driver, a, b>>
    <3> HIDE DEF key
    <3> QED
      BY <2>2, <2>3, <2>4, FiveNumbers
  <2>6. key[e] \in Keys(5)
    <3> HIDE DEF key
    <3> QED
      BY <2>2, <2>5 DEF Keys
  <2>7. key[e][1] = e.at /\ key[e][2] = k /\ key[e][3] = e.driver /\ key[e][4] = a /\ key[e][5] = b
    <3> HIDE DEF key
    <3> QED
      BY <2>5
  <2> QED
    BY <2>5, <2>6, <2>7 DEF a, b, k
<1>6. ASSUME NEW e \in Events(s), NEW f \in Events(s), key[e] = key[f]
      PROVE  e = f
  <2> HIDE DEF key
  <2>1. /\ e.at = f.at /\ Priority[e.kind] = Priority[f.kind] /\ e.driver = f.driver
        /\ e.tie[1] = f.tie[1] /\ e.tie[2] = f.tie[2]
    BY <1>5, <1>6
  <2>2. e.kind = f.kind /\ e \in fam[e.kind] /\ f \in fam[e.kind] /\ Keyed(fam[e.kind], e.kind)
    BY <1>1, <2>1, PriorityTellsApart
  <2> HIDE DEF fam
  <2> QED
    BY <2>1, <2>2 DEF Keyed
<1> QED
  BY <1>1, <1>3, <1>4, <1>5, <1>6

(* The timeline of a session has every event once, in order of time. *)
Sorted(ev) == \A i, j \in 1..Len(ev) : i < j => ev[i].at <= ev[j].at

(* The timeline lists the session's events in the order of time. *)
LEMMA TimelineSorted ==
  ASSUME NEW s, Tabled(s)
  PROVE  /\ Timeline(s) \in Seq(Events(s)) /\ Len(Timeline(s)) \in Nat
         /\ DOMAIN Timeline(s) = 1..Len(Timeline(s))
         /\ \A i \in 1..Len(Timeline(s)) :
              Timeline(s)[i] \in Events(s) /\ EventRow(Timeline(s)[i]) /\ Timeline(s)[i].at \in Nat
         /\ \A e \in Events(s) : \E i \in 1..Len(Timeline(s)) : Timeline(s)[i] = e
         /\ Sorted(Timeline(s))
<1> DEFINE q == Timeline(s)
           key == EventKey(s)
<1>1. q = Ordered(key) /\ DOMAIN key = Events(s)
  BY DEF Timeline, EventKey
<1>2. Lists(q, key)
  <2> HIDE DEF key
  <2> QED
    BY <1>1, EventsKeyed, OrderedLists DEF key
<1> HIDE DEF q
<1>3. q \in Seq(Events(s))
  BY <1>1, <1>2 DEF Lists
<1>4. Len(q) \in Nat /\ DOMAIN q = 1..Len(q) /\ \A i \in 1..Len(q) : q[i] \in Events(s)
  BY <1>3, LenProperties, ElementOfSeq
<1>5. \A e \in Events(s) : EventRow(e) /\ e.at \in Nat
  BY EventsKeyed DEF EventRow
<1>6. \A e \in Events(s) : \E i \in 1..Len(q) : q[i] = e
  BY <1>1, <1>2 DEF Lists
<1>7. ASSUME NEW i \in 1..Len(q), NEW j \in 1..Len(q), i < j
      PROVE  q[i].at <= q[j].at
  <2>1. Before(key[q[i]], key[q[j]])
    BY <1>2, <1>7 DEF Lists
  <2>2. /\ key[q[i]] \in Keys(5) /\ key[q[j]] \in Keys(5)
        /\ key[q[i]][1] = q[i].at /\ key[q[j]][1] = q[j].at
    BY <1>4, EventsKeyed
  <2> HIDE DEF key
  <2> QED
    BY <2>1, <2>2, BeforeFirst
<1> QED
  BY <1>3, <1>4, <1>5, <1>6, <1>7 DEF Sorted, q

--------------------------------------------------------------------------------
(* Replay.  What the first m events make of a fresh state is a fold of the      *)
(* whole timeline, whichever of its states one starts from.                     *)
States(ev, m) == Fold("apply", Fresh, ev, 1..m)

(* The replay of a prefix is where the fold of the whole stands there. *)
LEMMA ReplayPrefix ==
  ASSUME NEW E, NEW ev \in Seq(E), NEW m \in 0..Len(ev)
  PROVE  Replayed(Fresh, SubSeq(ev, 1, m)) = States(ev, m)
<1> DEFINE q == SubSeq(ev, 1, m)
<1>1. Len(ev) \in Nat /\ m \in Nat /\ m <= Len(ev) /\ \A i \in 1..m : ev[i] \in E
  <2>1. Len(ev) \in Nat
    BY LenProperties
  <2>2. m \in Nat /\ m <= Len(ev) /\ \A i \in 1..m : i \in 1..Len(ev)
    BY <2>1
  <2> QED
    BY <2>1, <2>2, ElementOfSeq
<1>2. q \in Seq(E) /\ Len(q) = m /\ \A i \in 1..m : q[i] = ev[i]
  <2>1. /\ q \in Seq(E) /\ Len(q) = (IF 1 <= m THEN m - 1 + 1 ELSE 0)
        /\ \A i \in 1 .. m - 1 + 1 : q[i] = ev[1 + i - 1]
    BY <1>1, SubSeqProperties
  <2> HIDE DEF q
  <2>2. m - 1 + 1 = m /\ \A i \in 1..m : 1 + i - 1 = i
    BY <1>1
  <2> QED
    BY <1>1, <2>1, <2>2
<1> HIDE DEF q
<1>3. DOMAIN q = 1..m /\ IsFiniteSet(1..m) /\ 1..m \in SUBSET Int
  BY <1>1, <1>2, LenProperties, FS_Interval
<1>4. Replayed(Fresh, q) = Fold("apply", Fresh, q, 1..m)
  BY <1>3, ReplayedFold
<1>5. Fold("apply", Fresh, q, 1..m) = Fold("apply", Fresh, ev, 1..m)
  BY <1>2, <1>3, FoldSame
<1> QED
  BY <1>4, <1>5 DEF q, States

(* The replay from a checkpoint on is the replay from the start. *)
LEMMA ReplayOn ==
  ASSUME NEW E, NEW ev \in Seq(E), NEW m \in 0..Len(ev), NEW i \in 0..m
  PROVE  Replayed(States(ev, i), SubSeq(ev, i + 1, m)) = States(ev, m)
<1> DEFINE q == SubSeq(ev, i + 1, m)
           n == m - i
           s == States(ev, i)
           P == {j \in 0..n : Fold("apply", s, q, 1..j) = States(ev, i + j)}
<1>1. /\ Len(ev) \in Nat /\ m \in Nat /\ i \in Nat /\ i <= m /\ n \in Nat /\ i + n = m
      /\ \A j \in (i + 1)..m : ev[j] \in E
  <2>1. Len(ev) \in Nat
    BY LenProperties
  <2>2. m \in Nat /\ i \in Nat /\ i <= m /\ \A j \in (i + 1)..m : j \in 1..Len(ev)
    BY <2>1
  <2>3. n \in Nat /\ i + n = m
    BY <2>2
  <2> QED
    BY <2>1, <2>2, <2>3, ElementOfSeq
<1>2. q \in Seq(E) /\ Len(q) = n /\ \A j \in 1..n : q[j] = ev[i + j]
  <2>1. /\ q \in Seq(E) /\ Len(q) = (IF i + 1 <= m THEN m - (i + 1) + 1 ELSE 0)
        /\ \A j \in 1 .. m - (i + 1) + 1 : q[j] = ev[(i + 1) + j - 1]
    BY <1>1, SubSeqProperties
  <2> HIDE DEF q
  <2>2. m - (i + 1) + 1 = m - i /\ \A j \in Int : (i + 1) + j - 1 = i + j
    BY <1>1
  <2>3. Len(q) = n
    BY <1>1, <2>1
  <2>4. \A j \in 1..n : q[j] = ev[i + j]
    BY <2>1, <2>2
  <2> QED
    BY <2>1, <2>3, <2>4
<1> HIDE DEF q, s, n
<1>3. DOMAIN q = 1..n /\ IsFiniteSet(1..n) /\ 1..n \in SUBSET Int
  BY <1>1, <1>2, LenProperties, FS_Interval
<1>4. 0 \in P
  <2>1. i + 0 = i /\ 1..0 = {} /\ 0 \in 0..n
    BY <1>1
  <2>2. Fold("apply", s, q, {}) = s
    BY FoldNext
  <2> QED
    BY <2>1, <2>2 DEF s
<1>5. ASSUME NEW j \in 0..(n - 1), j \in P PROVE j + 1 \in P
  <2>1. j \in Nat /\ j + 1 \in 1..n /\ j + 1 \in 0..n /\ i + j \in Nat /\ i + (j + 1) = (i + j) + 1
    BY <1>1
  <2>2. Fold("apply", s, q, 1..(j + 1)) = Step("apply", Fold("apply", s, q, 1..j), q[j + 1])
    BY <2>1, FoldNext
  <2>3. States(ev, (i + j) + 1) = Step("apply", States(ev, i + j), ev[(i + j) + 1])
    BY <2>1, FoldNext DEF States
  <2>4. q[j + 1] = ev[(i + j) + 1]
    BY <2>1, <1>2
  <2>5. Fold("apply", s, q, 1..(j + 1)) = States(ev, i + (j + 1))
    BY <2>1, <2>2, <2>3, <2>4, <1>5
  <2> QED
    BY <2>1, <2>5
<1>6. n \in P
  <2> HIDE DEF P
  <2>1. 0..n \subseteq P
    BY <1>1, <1>4, <1>5, UpTo
  <2> QED
    BY <2>1, <1>1
<1>7. Replayed(s, q) = Fold("apply", s, q, 1..n)
  BY <1>3, ReplayedFold
<1> QED
  BY <1>1, <1>6, <1>7 DEF q, s

(* In a timeline that is sorted no event is of a time before the last one's. *)
Timed(ev, m) ==
  LET st == States(ev, m)
  IN /\ {"at", "track", "weather", "control", "backward", "car"} \subseteq DOMAIN st
     /\ st.at = (IF m = 0 THEN 0 ELSE ev[m].at) /\ ~ st.backward /\ st.backward \in BOOLEAN

(* An event no earlier than the state does not turn it back. *)
LEMMA ApplyTimed ==
  ASSUME NEW s, NEW e
  PROVE  /\ DOMAIN Apply(s, e) = DOMAIN s
         /\ "at" \in DOMAIN s /\ "backward" \in DOMAIN s
            => Apply(s, e).at = e.at /\ Apply(s, e).backward = (s.backward \/ e.at < s.at)
<1>1. DOMAIN Transition(s, e) = DOMAIN s
  BY DEF Transition
<1> QED
  BY <1>1 DEF Apply

(* So no state of a sorted timeline goes back. *)
LEMMA StatesTimed ==
  ASSUME NEW E, NEW ev \in Seq(E), Sorted(ev), \A i \in 1..Len(ev) : ev[i].at \in Nat,
         NEW m \in 0..Len(ev)
  PROVE  Timed(ev, m)
<1> DEFINE N == Len(ev)
           P == {k \in 0..N : Timed(ev, k)}
<1>1. N \in Nat
  BY LenProperties
<1>2. 0 \in P
  <2>1. 1..0 = {}
    OBVIOUS
  <2>2. States(ev, 0) = Fresh
    BY <2>1, FoldNext DEF States
  <2>3. /\ {"at", "track", "weather", "control", "backward", "car"} \subseteq DOMAIN Fresh
        /\ Fresh.at = 0 /\ Fresh.backward = FALSE
    BY DEF Fresh
  <2>4. Timed(ev, 0)
    BY <2>2, <2>3 DEF Timed
  <2> QED
    BY <1>1, <2>4
<1>3. ASSUME NEW k \in 0..(N - 1), k \in P PROVE k + 1 \in P
  <2> DEFINE st == States(ev, k)
             nx == States(ev, k + 1)
             e == ev[k + 1]
  <2>1. k \in Nat /\ k + 1 \in 1..N /\ k + 1 \in 0..N /\ k + 1 # 0
    BY <1>1
  <2>2. nx = Apply(st, e)
    BY <2>1, FoldNext DEF States, Step
  <2>3. e.at \in Nat
    BY <2>1
  <2>4. ~ (e.at < st.at)
    <3>1. CASE k = 0
      BY <3>1, <1>3, <2>3 DEF Timed
    <3>2. CASE k # 0
      <4>1. k \in 1..N /\ k < k + 1
        BY <2>1, <3>2
      <4>2. ev[k].at <= ev[k + 1].at /\ ev[k].at \in Nat
        BY <4>1, <2>1 DEF Sorted
      <4>3. st.at = ev[k].at
        BY <3>2, <1>3 DEF Timed
      <4> QED
        BY <4>2, <4>3, <2>3
    <3> QED
      BY <3>1, <3>2
  <2>5. /\ {"at", "track", "weather", "control", "backward", "car"} \subseteq DOMAIN st
        /\ ~ st.backward
    BY <1>3 DEF Timed
  <2> HIDE DEF st, nx, e
  <2>6. DOMAIN nx = DOMAIN st /\ nx.at = e.at /\ nx.backward = (st.backward \/ e.at < st.at)
    BY <2>2, <2>5, ApplyTimed
  <2>7. nx.backward = FALSE
    BY <2>4, <2>5, <2>6
  <2>8. Timed(ev, k + 1)
    BY <2>1, <2>5, <2>6, <2>7 DEF Timed, nx, e
  <2> QED
    BY <2>1, <2>8
<1>4. 0..N \subseteq P
  <2> HIDE DEF P
  <2> QED
    BY <1>1, <1>2, <1>3, UpTo
<1> QED
  BY <1>4

(* The events up to a time are the first of a timeline that is sorted. *)
LEMMA LimitIsPrefix ==
  ASSUME NEW E, NEW ev \in Seq(E), Sorted(ev), \A i \in 1..Len(ev) : ev[i].at \in Nat, NEW t \in Nat
  PROVE  /\ EventLimit(ev, t) \in 0..Len(ev)
         /\ \A i \in DOMAIN ev : ev[i].at <= t <=> i <= EventLimit(ev, t)
<1> DEFINE N == Len(ev)
           S == {i \in DOMAIN ev : ev[i].at <= t}
<1>1. N \in Nat /\ DOMAIN ev = 1..N
  BY LenProperties
<1>2. \E n \in 0..N : S = 1..n
  <2>1. CASE S = {}
    <3>1. 1..0 = {} /\ 0 \in 0..N
      BY <1>1
    <3> QED
      BY <2>1, <3>1
  <2>2. CASE S # {}
    <3>1. S \in SUBSET Int /\ S \subseteq 1..N /\ IsFiniteSet(1..N)
      BY <1>1, FS_Interval
    <3>2. IsFiniteSet(S)
      <4> HIDE DEF S
      <4> QED
        BY <3>1, FS_Subset
    <3>3. PICK n \in S : \A x \in S : n >= x
      <4> HIDE DEF S
      <4> QED
        BY <2>2, <3>1, <3>2, MaxIn
    <3>4. n \in 1..N /\ n \in 0..N /\ ev[n].at <= t
      BY <1>1, <3>3
    <3>5. \A i \in 1..n : i \in S
      <4> SUFFICES ASSUME NEW i \in 1..n PROVE i \in S
        OBVIOUS
      <4>1. i \in 1..N /\ ev[i].at \in Nat /\ ev[n].at \in Nat
        BY <1>1, <3>4
      <4>2. ev[i].at <= ev[n].at
        <5>1. CASE i = n
          BY <5>1, <4>1
        <5>2. CASE i # n
          BY <5>2, <3>4, <4>1 DEF Sorted
        <5> QED
          BY <5>1, <5>2
      <4> QED
        BY <1>1, <3>4, <4>1, <4>2
    <3>6. \A x \in S : x \in 1..n
      BY <1>1, <3>3, <3>4
    <3>7. S = 1..n
      <4> HIDE DEF S
      <4> QED
        BY <3>5, <3>6
    <3> QED
      BY <3>4, <3>7
  <2> QED
    BY <2>1, <2>2
<1>3. PICK n \in 0..N : S = 1..n
  BY <1>2
<1>4. EventLimit(ev, t) = n
  <2>1. EventLimit(ev, t) = Cardinality(S)
    BY DEF EventLimit
  <2>2. Cardinality(1..n) = n
    BY <1>1, FS_Interval
  <2> QED
    BY <1>3, <2>1, <2>2
<1>5. \A i \in DOMAIN ev : i \in S <=> i <= n
  <2> HIDE DEF S
  <2> QED
    BY <1>1, <1>3
<1> QED
  BY <1>4, <1>5

(* Any state answered is that of the events up to its time. *)
LEMMA StateAtReplays ==
  ASSUME NEW s, Tabled(s), NEW k, NEW t \in Nat
  PROVE  LET ev == Timeline(s)
             data == [session |-> s, events |-> ev]
             got == StateAt(data, Opened(data, k), t)
             n == EventLimit(ev, t)
         IN "state" \in DOMAIN got =>
              /\ n \in 0..Len(ev) /\ \A i \in DOMAIN ev : ev[i].at <= t <=> i <= n
              /\ got = [state |-> [States(ev, n) EXCEPT !.at = t], lap |-> ReferenceLap(Cursors(s), t)]
              /\ States(ev, n) = Replayed(Fresh, SubSeq(ev, 1, n))
              /\ ~ [States(ev, n) EXCEPT !.at = t].backward
<1> DEFINE ev == Timeline(s)
           data == [session |-> s, events |-> ev]
           eng == Opened(data, k)
           got == StateAt(data, eng, t)
           n == EventLimit(ev, t)
           N == Len(ev)
           Marks == {0, N} \cup {i \in 1..N : i % k = 0}
           Low == {i \in Marks : i <= n}
           i == CHOOSE i \in DOMAIN eng.checkpoints :
                  i <= n /\ \A j \in DOMAIN eng.checkpoints : j <= n => j <= i
<1> SUFFICES ASSUME "state" \in DOMAIN got
             PROVE  /\ n \in 0..N /\ \A j \in DOMAIN ev : ev[j].at <= t <=> j <= n
                    /\ got = [state |-> [States(ev, n) EXCEPT !.at = t], lap |-> ReferenceLap(Cursors(s), t)]
                    /\ States(ev, n) = Replayed(Fresh, SubSeq(ev, 1, n))
                    /\ ~ [States(ev, n) EXCEPT !.at = t].backward
  OBVIOUS
<1>1. /\ ev \in Seq(Events(s)) /\ N \in Nat /\ DOMAIN ev = 1..N /\ Sorted(ev)
      /\ \A j \in 1..N : ev[j].at \in Nat
  BY TimelineSorted
<1>2. /\ data.events = ev /\ data.session = s
  OBVIOUS
<1>3. /\ eng.cursors = Cursors(s)
      /\ eng.checkpoints = [j \in Marks |-> Replayed(Fresh, SubSeq(ev, 1, j))]
  BY DEF Opened
<1>4. got = [state |-> [Replayed(eng.checkpoints[i], SubSeq(ev, i + 1, n)) EXCEPT !.at = t],
             lap |-> ReferenceLap(Cursors(s), t)]
  <2>1. got = IF t > Last(ev).at THEN [error |-> TRUE]
              ELSE [state |-> [Replayed(eng.checkpoints[i], SubSeq(ev, i + 1, n)) EXCEPT !.at = t],
                    lap |-> ReferenceLap(Cursors(s), t)]
    BY <1>3 DEF StateAt
  <2>2. "state" \notin DOMAIN [error |-> TRUE]
    OBVIOUS
  <2> HIDE DEF got, eng, i, n, ev
  <2> QED
    BY <2>1, <2>2
<1> HIDE DEF got, data, eng, ev, N
<1>5. n \in 0..N /\ \A j \in DOMAIN ev : ev[j].at <= t <=> j <= n
  <2> HIDE DEF n
  <2> QED
    BY <1>1, LimitIsPrefix DEF n, N
<1> HIDE DEF n
<1>6. i \in Marks /\ i <= n
  <2>5. \A x \in Marks : x \in 0..N
    BY <1>1
  <2>6. 0 \in Low /\ n \in Int
    BY <1>1, <1>5
  <2>1. Low \in SUBSET Int /\ Low # {} /\ Low \subseteq 0..N /\ IsFiniteSet(0..N)
    <3>1. IsFiniteSet(0..N)
      BY <1>1, FS_Interval
    <3>2. Low \subseteq 0..N
      BY <2>5
    <3> HIDE DEF Low, Marks
    <3> QED
      BY <2>6, <3>1, <3>2
  <2>2. PICK m \in Low : \A x \in Low : m >= x
    <3> HIDE DEF Low
    <3>1. IsFiniteSet(Low)
      BY <2>1, FS_Subset
    <3> QED
      BY <2>1, <3>1, MaxIn
  <2>3. DOMAIN eng.checkpoints = Marks
    BY <1>3
  <2>4. m \in Marks /\ m <= n /\ \A j \in Marks : j <= n => j <= m
    BY <2>2, <2>5
  <2> HIDE DEF Marks
  <2> QED
    BY <2>3, <2>4
<1> HIDE DEF i
<1>7. i \in 0..n /\ i \in 0..N
  BY <1>1, <1>5, <1>6
<1>8. eng.checkpoints[i] = States(ev, i)
  <2> HIDE DEF Marks
  <2>1. eng.checkpoints[i] = Replayed(Fresh, SubSeq(ev, 1, i))
    BY <1>3, <1>6
  <2> QED
    BY <2>1, <1>1, <1>7, ReplayPrefix DEF N
<1>9. Replayed(eng.checkpoints[i], SubSeq(ev, i + 1, n)) = States(ev, n)
  BY <1>1, <1>5, <1>7, <1>8, ReplayOn DEF N
<1>10. States(ev, n) = Replayed(Fresh, SubSeq(ev, 1, n))
  BY <1>1, <1>5, ReplayPrefix DEF N
<1>11. Timed(ev, n)
  BY <1>1, <1>5, StatesTimed DEF N
<1>12. ~ [States(ev, n) EXCEPT !.at = t].backward
  BY <1>11 DEF Timed
<1> QED
  BY <1>4, <1>5, <1>9, <1>10, <1>12

(* What the engine is, and what was answered. *)
Engaged ==
  /\ Ingested
  /\ engine # None => stored # None /\ \E k \in Interval : engine = Opened(stored, k)
  /\ answer # None => engine # None /\ answer.at \in Nat /\ answer.got = StateAt(stored, engine, answer.at)

(* A cursor starts and ends at times. *)
LEMMA CursorsTimed ==
  ASSUME NEW s, Tabled(s), NEW c \in Cursors(s)
  PROVE  c.start \in Nat /\ c.end \in Nat
<1>1. PICK p \in s.positions, l \in s.laps : l.start # None /\ c.start = l.start /\ c.end = p.at
  <2> DEFINE Leads(p) == \A o \in s.positions :
               o.place = 1 /\ o.lap = p.lap => ~ Before(<<o.at, o.driver>>, <<p.at, p.driver>>)
             Led(p) == {l \in s.laps :
               /\ p.place = 1 /\ p.lap # None /\ Leads(p)
               /\ l.driver = p.driver /\ l.lap = p.lap
               /\ l.start # None /\ l.start <= p.at}
             Of(p) == {[lap |-> p.lap, driver |-> p.driver, start |-> l.start, end |-> p.at] : l \in Led(p)}
  <2>1. Cursors(s) = UNION {Of(p) : p \in s.positions}
    BY DEF Cursors
  <2> HIDE DEF Of
  <2>2. PICK p \in s.positions : c \in Of(p)
    BY <2>1
  <2>3. PICK l \in Led(p) : c = [lap |-> p.lap, driver |-> p.driver, start |-> l.start, end |-> p.at]
    BY <2>2 DEF Of
  <2>4. l \in s.laps /\ l.start # None /\ c.start = l.start /\ c.end = p.at
    BY <2>3
  <2> QED
    BY <2>4
<1>2. l.start \in Maybe(Nat) /\ p.at \in Nat
  BY DEF Tabled, LapTable, Lap
<1> QED
  BY <1>1, <1>2 DEF Maybe

(* An engine that is open is Engaged on what is stored. *)
LEMMA EngagedHolds == ReplaySpec => []Engaged
<1>1. ReplayInit => Engaged
  BY DEF ReplayInit, Engaged, Ingested
<1>2. Ingested' /\ Engaged /\ [ReplayNext]_replayVars => Engaged'
  <2> SUFFICES ASSUME Ingested', Engaged, [ReplayNext]_replayVars PROVE Engaged'
    OBVIOUS
  <2>1. CASE Ingest
    <3>1. stored = None /\ engine = None /\ answer = None
      BY <2>1 DEF Ingest, Engaged
    <3> QED
      BY <2>1, <3>1 DEF Ingest, Engaged
  <2>2. CASE Open
    <3>1. engine = None /\ answer = None /\ stored # None
      BY <2>2 DEF Open, Engaged
    <3> QED
      BY <2>2, <3>1 DEF Open, Engaged
  <2>3. ASSUME NEW t \in Time, AskTime(t) PROVE Engaged'
    <3>1. /\ engine # None /\ answer' = [at |-> t, got |-> StateAt(stored, engine, t)]
          /\ UNCHANGED <<rows, stored, engine>>
      BY <2>3 DEF AskTime
    <3>2. answer'.at = t /\ answer'.got = StateAt(stored', engine', t) /\ t \in Nat
      BY <3>1, TimeAssumption
    <3> QED
      BY <3>1, <3>2 DEF Engaged
  <2>4. ASSUME NEW n \in LapNumber, NEW phase \in {"start", "end"}, AskLap(n, phase) PROVE Engaged'
    <3>1. PICK c \in engine.cursors :
            LET t == IF phase = "start" THEN c.start ELSE c.end
            IN answer' = [at |-> t, got |-> StateAt(stored, engine, t)]
      BY <2>4 DEF AskLap
    <3> DEFINE t == IF phase = "start" THEN c.start ELSE c.end
    <3>2. engine # None /\ UNCHANGED <<rows, stored, engine>>
      BY <2>4 DEF AskLap
    <3>3. rows \in Sessions /\ stored = [session |-> Session(rows), events |-> Timeline(Session(rows))]
      BY <3>2 DEF Engaged, Ingested
    <3>7. PICK k \in Interval : engine = Opened(stored, k)
      BY <3>2 DEF Engaged
    <3>8. engine.cursors = Cursors(stored.session) /\ stored.session = Session(rows)
      BY <3>3, <3>7 DEF Opened
    <3>4. engine.cursors = Cursors(Session(rows))
      BY <3>8
    <3>5. t \in Nat
      BY <3>3, <3>4, SessionTabled, CursorsTimed
    <3>6. answer'.at = t /\ answer'.got = StateAt(stored', engine', t)
      BY <3>1, <3>2
    <3> HIDE DEF t
    <3> QED
      BY <3>2, <3>5, <3>6 DEF Engaged
  <2>5. CASE UNCHANGED replayVars
    BY <2>5 DEF replayVars, Engaged
  <2> QED
    BY <2>1, <2>2, <2>3, <2>4, <2>5 DEF ReplayNext
<1> QED
  BY <1>1, <1>2, IngestedHolds, PTL DEF ReplaySpec

(* Wherever the checkpoints lie, the state answered is that of all events up to *)
(* the time, replayed from the start, and none of them goes back in time.       *)
THEOREM StateIsReplay == ReplaySpec => []StateAtIsReplay
<1>1. Engaged => StateAtIsReplay
  <2> SUFFICES ASSUME Engaged, Answered PROVE StateAtIsReplay
    BY DEF StateAtIsReplay
  <2> DEFINE s == Session(rows)
             ev == Timeline(s)
             t == answer.at
             n == EventLimit(ev, t)
  <2>1. /\ answer # None /\ engine # None /\ stored # None /\ rows \in Sessions
        /\ "state" \in DOMAIN answer.got /\ t \in Nat
    BY DEF Answered, Engaged, Ingested
  <2>2. stored = [session |-> s, events |-> ev]
    BY <2>1 DEF Engaged, Ingested
  <2>3. PICK k \in Interval : engine = Opened(stored, k)
    BY <2>1 DEF Engaged
  <2>4. answer.got = StateAt(stored, Opened(stored, k), t)
    BY <2>1, <2>3 DEF Engaged
  <2>5. Tabled(s)
    BY <2>1, SessionTabled
  <2> HIDE DEF s, n
  <2>6. /\ n \in 0..Len(ev) /\ \A i \in DOMAIN ev : ev[i].at <= t <=> i <= n
        /\ answer.got = [state |-> [States(ev, n) EXCEPT !.at = t], lap |-> ReferenceLap(Cursors(s), t)]
        /\ States(ev, n) = Replayed(Fresh, SubSeq(ev, 1, n))
        /\ ~ [States(ev, n) EXCEPT !.at = t].backward
    BY <2>1, <2>2, <2>4, <2>5, StateAtReplays DEF n
  <2>7. stored.events = ev
    BY <2>2
  <2>8. answer.got.state = [Replayed(Fresh, SubSeq(ev, 1, n)) EXCEPT !.at = t]
    BY <2>6
  <2>10. answer.got.state = [States(ev, n) EXCEPT !.at = t]
    BY <2>6
  <2>9. ~ answer.got.state.backward
    BY <2>6, <2>10, Zenon
  <2> HIDE DEF ev
  <2> QED
    BY <2>6, <2>7, <2>8, <2>9 DEF StateAtIsReplay
<1> QED
  BY <1>1, EngagedHolds, PTL

--------------------------------------------------------------------------------
(* No look-ahead.  The records known at a time make a session of their own: its *)
(* stops, stints, changes of status and cursors are those of the whole up to    *)
(* that time, so its events are, and they are listed in the same order.         *)

(* What is known at a time, as operators of its own.                            *)
Seen(x, t) == IF x # None /\ x <= t THEN x ELSE None
LapAt(l, t) ==
  [l EXCEPT !.start = Seen(@, t), !.end = Seen(@, t), !.enter = Seen(@, t), !.exit = Seen(@, t)]
Shows(l, t) == \E x \in {l.start, l.end, l.enter, l.exit} : Seen(x, t) # None
Reached(laps, l, t) == \E o \in laps : o.driver = l.driver /\ o.lap >= l.lap /\ Shows(o, t)
LapsAt(laps, t) == {LapAt(l, t) : l \in {l \in laps : Reached(laps, l, t)}}
Columns(laps) == \A l \in laps : LapColumns \subseteq DOMAIN l /\ l.compound \in Nat

(* The cut is made of them. *)
LEMMA CutIs ==
  ASSUME NEW rs, NEW t
  PROVE  /\ Cut(rs, t).laps = LapsAt(rs.laps, t)
         /\ Cut(rs, t).weather = {w \in rs.weather : w.at <= t}
         /\ Cut(rs, t).control = {c \in rs.control : c.at <= t}
         /\ Cut(rs, t).positions = {p \in rs.positions : p.at <= t}
BY DEF Cut, LapsAt, LapAt, Reached, Shows, Seen

(* A lap as it is known: the same but for its times. *)
LapSame(c, l, t) ==
  /\ c.id = l.id /\ c.driver = l.driver /\ c.lap = l.lap /\ c.deleted = l.deleted /\ c.stint = l.stint
  /\ c.compound = l.compound /\ c.time = l.time /\ c.life = l.life
  /\ c.start = Seen(l.start, t) /\ c.end = Seen(l.end, t)
  /\ c.enter = Seen(l.enter, t) /\ c.exit = Seen(l.exit, t)

(* The lap as it is known has the lap's cells, its times if they are seen. *)
LEMMA LapAtIs ==
  ASSUME NEW l, LapColumns \subseteq DOMAIN l, NEW t
  PROVE  LapSame(LapAt(l, t), l, t)
<1> DEFINE a == Seen(l.start, t)
           b == Seen(l.end, t)
           c == Seen(l.enter, t)
           d == Seen(l.exit, t)
           n == LapAt(l, t)
<1>1. n = [l EXCEPT !.start = a, !.end = b, !.enter = c, !.exit = d]
  BY DEF LapAt, LapColumns
<1>2. /\ {"id", "driver", "lap", "deleted", "start", "end", "enter", "exit", "stint", "compound",
          "time", "life"} \subseteq DOMAIN l
  BY DEF LapColumns
<1> HIDE DEF a, b, c, d, n
<1>3. /\ n.id = l.id /\ n.driver = l.driver /\ n.lap = l.lap /\ n.deleted = l.deleted /\ n.stint = l.stint
      /\ n.compound = l.compound /\ n.time = l.time /\ n.life = l.life
      /\ n.start = a /\ n.end = b /\ n.enter = c /\ n.exit = d
  BY ONLY <1>1, <1>2
<1> QED
  BY <1>3 DEF LapSame, a, b, c, d, n

(* Times that are known are those up to now. *)
LEMMA SeenIs ==
  ASSUME NEW x \in Maybe(Nat), NEW t \in Nat
  PROVE  /\ Seen(x, t) \in Maybe(Nat)
         /\ Seen(x, t) # None <=> x # None /\ x <= t
         /\ Seen(x, t) # None => Seen(x, t) = x /\ x \in Nat
BY NoneIsNoNumber DEF Seen, Maybe

(* The laps known are a table as the laps are. *)
LEMMA LapsAtTable ==
  ASSUME NEW laps, LapTable(laps), Columns(laps), NEW t \in Nat
  PROVE  /\ LapTable(LapsAt(laps, t))
         /\ \A l \in laps : LapSame(LapAt(l, t), l, t)
         /\ \A l \in laps : Reached(laps, l, t) => LapAt(l, t) \in LapsAt(laps, t)
         /\ \A l \in laps : Shows(l, t) => Reached(laps, l, t)
         /\ \A c \in LapsAt(laps, t) : \E l \in laps : c = LapAt(l, t) /\ Reached(laps, l, t)
<1> DEFINE K == {l \in laps : Reached(laps, l, t)}
           at == [l \in K |-> LapAt(l, t)]
<1>1. \A l \in laps : LapSame(LapAt(l, t), l, t)
  BY LapAtIs DEF Columns
<1>2. LapsAt(laps, t) = {at[l] : l \in DOMAIN at} /\ DOMAIN at = K
  BY DEF LapsAt
<1>3. IsFiniteSet(K)
  BY FS_Subset DEF LapTable
<1>4. IsFiniteSet(LapsAt(laps, t))
  <2> HIDE DEF at, K
  <2> QED
    BY <1>2, <1>3, ImageFinite
<1>5. \A c \in LapsAt(laps, t) : \E l \in laps : c = LapAt(l, t) /\ Reached(laps, l, t)
  BY DEF LapsAt
<1>6. \A l \in laps : Lap(l) => Lap(LapAt(l, t))
  <2> SUFFICES ASSUME NEW l \in laps, Lap(l) PROVE Lap(LapAt(l, t))
    OBVIOUS
  <2> DEFINE c == LapAt(l, t)
  <2>1. LapSame(c, l, t)
    BY <1>1
  <2>2. /\ Seen(l.start, t) \in Maybe(Nat) /\ Seen(l.end, t) \in Maybe(Nat)
        /\ Seen(l.enter, t) \in Maybe(Nat) /\ Seen(l.exit, t) \in Maybe(Nat)
    BY SeenIs DEF Lap
  <2> HIDE DEF c
  <2>3. Lap(c)
    BY <2>1, <2>2 DEF Lap, LapSame
  <2> QED
    BY <2>3 DEF c
<1>7. \A c \in LapsAt(laps, t) : Lap(c)
  BY <1>5, <1>6 DEF LapTable
<1>8. \A l, o \in LapsAt(laps, t) : l.id = o.id => l = o
  BY <1>1, <1>5 DEF LapTable, LapSame
<1>9. \A l, o \in LapsAt(laps, t) : l.driver = o.driver /\ l.lap = o.lap => l = o
  BY <1>1, <1>5 DEF LapTable, LapSame
<1>10. \A l \in laps : Shows(l, t) => Reached(laps, l, t)
  BY DEF Reached, LapTable, Lap
<1>11. \A l \in laps : Reached(laps, l, t) => LapAt(l, t) \in LapsAt(laps, t)
  BY DEF LapsAt
<1> QED
  BY <1>1, <1>4, <1>5, <1>7, <1>8, <1>9, <1>10, <1>11 DEF LapTable

(* The session that ends there is Tabled. *)
LEMMA CutTabled ==
  ASSUME NEW rs, Tabled(Derived(rs)), Columns(rs.laps), NEW t \in Nat
  PROVE  Tabled(Derived(Cut(rs, t)))
<1> DEFINE s == Derived(rs)
           k == Cut(rs, t)
           c == Derived(k)
<1>1. /\ s.laps = rs.laps /\ s.weather = rs.weather /\ s.control = rs.control /\ s.positions = rs.positions
      /\ c.laps = k.laps /\ c.weather = k.weather /\ c.control = k.control /\ c.positions = k.positions
      /\ c.stints = Stints(k.laps) /\ c.stops = Stops(k.laps)
  BY DEF Derived
<1>2. /\ k.laps = LapsAt(rs.laps, t) /\ k.weather \subseteq rs.weather
      /\ k.control \subseteq rs.control /\ k.positions \subseteq rs.positions
  BY CutIs
<1>3. LapTable(k.laps)
  BY <1>1, <1>2, LapsAtTable DEF Tabled
<1> HIDE DEF s, k, c
<1>4. Tabled(s)
  BY DEF s
<1>5. IsFiniteSet(k.weather) /\ IsFiniteSet(k.control) /\ IsFiniteSet(k.positions)
  BY <1>1, <1>2, <1>4, FS_Subset DEF Tabled
<1>6. Tabled(c)
  BY <1>1, <1>2, <1>3, <1>4, <1>5, StintsTable, StopsTable DEF Tabled
<1> QED
  BY <1>6 DEF c, k
(* Two lists in one strict order, with the same elements, are the same; first that *)
(* as much of one as there is of the other agrees with it.                      *)
InRange(k, a, n) == \E i \in 1..n : a[i] = k
Rising(a, n, m) ==
  /\ \A i \in 1..n : a[i] \in Keys(m)
  /\ \A i, j \in 1..n : i < j => Before(a[i], a[j])

(* Two rising lists of the same elements agree as far as the first goes. *)
LEMMA RisingAgree ==
  ASSUME NEW m \in Nat, NEW a, NEW n \in Nat, Rising(a, n, m), NEW b, NEW k \in Nat, Rising(b, k, m),
         \A i \in 1..n : InRange(a[i], b, k), \A j \in 1..k : InRange(b[j], a, n)
  PROVE  n <= k /\ \A i \in 1..n : a[i] = b[i]
<1> DEFINE P == {x \in 0..n : x <= k /\ \A i \in 1..x : a[i] = b[i]}
<1>1. 0 \in P
  OBVIOUS
<1>2. ASSUME NEW x \in 0..(n - 1), x \in P PROVE x + 1 \in P
  <2>1. /\ x \in Nat /\ x <= k /\ x + 1 \in 1..n /\ \A i \in 1..x : a[i] = b[i] /\ i \in 1..n
        /\ x + 1 \in 0..n
    BY <1>2
  <2> HIDE DEF P
  <2>2. PICK j \in 1..k : b[j] = a[x + 1]
    BY <2>1 DEF InRange
  <2>3. ~ (j < x + 1)
    <3> SUFFICES ASSUME j < x + 1 PROVE FALSE
      OBVIOUS
    <3>1. j \in 1..x /\ j \in 1..n
      BY <2>1
    <3>2. Before(a[j], a[x + 1]) /\ a[j] = a[x + 1]
      BY <2>1, <2>2, <3>1 DEF Rising
    <3>3. a[j] \in Keys(m)
      BY <3>1 DEF Rising
    <3> QED
      BY <3>2, <3>3, BeforeOrders
  <2>4. x + 1 <= k
    BY <2>1, <2>3
  <2>5. ~ (j > x + 1)
    <3> SUFFICES ASSUME j > x + 1 PROVE FALSE
      OBVIOUS
    <3>1. x + 1 \in 1..k
      BY <2>1, <2>4
    <3>2. Before(b[x + 1], a[x + 1])
      BY <2>2, <3>1 DEF Rising
    <3>3. PICK i \in 1..n : a[i] = b[x + 1]
      BY <3>1 DEF InRange
    <3>4. a[i] \in Keys(m) /\ a[x + 1] \in Keys(m)
      BY <2>1 DEF Rising
    <3>5. i < x + 1
      <4> SUFFICES ASSUME ~ (i < x + 1) PROVE FALSE
        OBVIOUS
      <4>1. i = x + 1 \/ x + 1 < i
        BY <2>1
      <4>2. a[i] = a[x + 1] \/ Before(a[x + 1], a[i])
        BY <2>1, <4>1 DEF Rising
      <4> QED
        BY <3>2, <3>3, <3>4, <4>2, BeforeOrders
    <3>6. i \in 1..x /\ i \in 1..k
      BY <2>1, <3>5
    <3>7. b[i] = b[x + 1] /\ Before(b[i], b[x + 1])
      BY <2>1, <3>1, <3>3, <3>5, <3>6 DEF Rising
    <3>8. b[i] \in Keys(m)
      BY <3>6 DEF Rising
    <3> QED
      BY <3>7, <3>8, BeforeOrders
  <2>6. j = x + 1
    BY <2>1, <2>3, <2>5
  <2>7. \A i \in 1..(x + 1) : a[i] = b[i]
    <3> SUFFICES ASSUME NEW i \in 1..(x + 1) PROVE a[i] = b[i]
      OBVIOUS
    <3>1. i = x + 1 \/ i \in 1..x
      BY <2>1
    <3> QED
      BY <2>1, <2>2, <2>6, <3>1
  <2> QED
    BY <2>1, <2>4, <2>7 DEF P
<1>3. 0..n \subseteq P
  <2> HIDE DEF P
  <2> QED
    BY <1>1, <1>2, UpTo
<1>4. n \in P
  <2> HIDE DEF P
  <2> QED
    BY <1>3
<1> QED
  BY <1>4

(* ... and then that there is as much of both. *)
LEMMA RisingSame ==
  ASSUME NEW m \in Nat, NEW a, NEW n \in Nat, Rising(a, n, m), NEW b, NEW k \in Nat, Rising(b, k, m),
         \A i \in 1..n : InRange(a[i], b, k), \A j \in 1..k : InRange(b[j], a, n)
  PROVE  n = k /\ \A i \in 1..n : a[i] = b[i]
<1>1. n <= k /\ \A i \in 1..n : a[i] = b[i]
  BY RisingAgree
<1>2. k <= n
  BY RisingAgree
<1> QED
  BY <1>1, <1>2

--------------------------------------------------------------------------------
(* Pit stops.  What has been observed up to a time is the first of what is      *)
(* observed in all, and what is observed later changes no stop that has ended.  *)
LEMMA ObservedAt ==
  ASSUME NEW laps, LapTable(laps), Columns(laps), NEW t \in Nat, NEW d
  PROVE  Observations(LapsAt(laps, t), d) = {o \in Observations(laps, d) : o.at <= t}
<1> DEFINE cut == LapsAt(laps, t)
           S == Observations(laps, d)
           K == Observations(cut, d)
<1>1. /\ \A l \in laps : LapSame(LapAt(l, t), l, t) /\ (Reached(laps, l, t) => LapAt(l, t) \in cut)
                         /\ (Shows(l, t) => Reached(laps, l, t))
      /\ \A c \in cut : \E l \in laps : c = LapAt(l, t) /\ Reached(laps, l, t)
  BY LapsAtTable
<1>2. \A l \in laps : l.enter \in Maybe(Nat) /\ l.exit \in Maybe(Nat)
  BY DEF LapTable, Lap
<1> HIDE DEF cut
<1>3. ASSUME NEW o \in K PROVE o \in S /\ o.at <= t
  <2>1. CASE \E c \in cut : c.driver = d /\ c.enter # None /\ o = [at |-> c.enter, way |-> 0, lap |-> c.lap]
    <3>1. PICK c \in cut : c.driver = d /\ c.enter # None /\ o = [at |-> c.enter, way |-> 0, lap |-> c.lap]
      BY <2>1
    <3>2. PICK l \in laps : c = LapAt(l, t)
      BY <1>1
    <3>3. c.driver = l.driver /\ c.lap = l.lap /\ c.enter = Seen(l.enter, t)
      BY <1>1, <3>2 DEF LapSame
    <3>4. l.enter # None /\ l.enter <= t /\ c.enter = l.enter
      BY <1>2, <3>1, <3>3, SeenIs
    <3> QED
      BY <3>1, <3>3, <3>4 DEF Observations
  <2>2. CASE \E c \in cut : c.driver = d /\ c.exit # None /\ o = [at |-> c.exit, way |-> 1, lap |-> c.lap]
    <3>1. PICK c \in cut : c.driver = d /\ c.exit # None /\ o = [at |-> c.exit, way |-> 1, lap |-> c.lap]
      BY <2>2
    <3>2. PICK l \in laps : c = LapAt(l, t)
      BY <1>1
    <3>3. c.driver = l.driver /\ c.lap = l.lap /\ c.exit = Seen(l.exit, t)
      BY <1>1, <3>2 DEF LapSame
    <3>4. l.exit # None /\ l.exit <= t /\ c.exit = l.exit
      BY <1>2, <3>1, <3>3, SeenIs
    <3> QED
      BY <3>1, <3>3, <3>4 DEF Observations
  <2> QED
    BY <2>1, <2>2 DEF Observations
<1>4. ASSUME NEW o \in S, o.at <= t PROVE o \in K
  <2>1. CASE \E l \in laps : l.driver = d /\ l.enter # None /\ o = [at |-> l.enter, way |-> 0, lap |-> l.lap]
    <3>1. PICK l \in laps : l.driver = d /\ l.enter # None /\ o = [at |-> l.enter, way |-> 0, lap |-> l.lap]
      BY <2>1
    <3>2. l.enter <= t /\ Seen(l.enter, t) = l.enter
      BY <1>2, <1>4, <3>1, SeenIs
    <3>3. Shows(l, t)
      BY <3>1, <3>2 DEF Shows
    <3>4. LapAt(l, t) \in cut /\ LapSame(LapAt(l, t), l, t)
      BY <1>1, <3>3
    <3>5. \E c \in cut : c.driver = d /\ c.enter # None /\ o = [at |-> c.enter, way |-> 0, lap |-> c.lap]
      BY <3>1, <3>2, <3>4 DEF LapSame
    <3> QED
      BY <3>5 DEF Observations
  <2>2. CASE \E l \in laps : l.driver = d /\ l.exit # None /\ o = [at |-> l.exit, way |-> 1, lap |-> l.lap]
    <3>1. PICK l \in laps : l.driver = d /\ l.exit # None /\ o = [at |-> l.exit, way |-> 1, lap |-> l.lap]
      BY <2>2
    <3>2. l.exit <= t /\ Seen(l.exit, t) = l.exit
      BY <1>2, <1>4, <3>1, SeenIs
    <3>3. Shows(l, t)
      BY <3>1, <3>2 DEF Shows
    <3>4. LapAt(l, t) \in cut /\ LapSame(LapAt(l, t), l, t)
      BY <1>1, <3>3
    <3>5. \E c \in cut : c.driver = d /\ c.exit # None /\ o = [at |-> c.exit, way |-> 1, lap |-> c.lap]
      BY <3>1, <3>2, <3>4 DEF LapSame
    <3> QED
      BY <3>5 DEF Observations
  <2> QED
    BY <2>1, <2>2 DEF Observations
<1> QED
  BY <1>3, <1>4 DEF cut

(* What was observed up to a time is the first part of what is paired. *)
LEMMA ObservedPrefix ==
  ASSUME NEW S, S \subseteq Obs, IsFiniteSet(S), NEW t \in Nat,
         NEW K, K = {o \in S : o.at <= t},
         NEW q, q = Ordered(ObsKey(S)), NEW p, p = Ordered(ObsKey(K))
  PROVE  /\ Len(p) \in Nat /\ Len(q) \in Nat /\ Len(p) <= Len(q)
         /\ DOMAIN p = 1..Len(p) /\ DOMAIN q = 1..Len(q)
         /\ \A i \in 1..Len(p) : p[i] = q[i]
         /\ \A i \in 1..Len(q) : q[i] \in S /\ (i > Len(p) => q[i].at > t)
<1> DEFINE N == Len(q)
           n == Len(p)
           k == EventLimit(q, t)
           a == [i \in 1..k |-> ObsKey(S)[q[i]]]
           b == [i \in 1..n |-> ObsKey(K)[p[i]]]
<1>1. /\ K \subseteq Obs /\ IsFiniteSet(K) /\ K \subseteq S
      /\ DOMAIN ObsKey(S) = S /\ DOMAIN ObsKey(K) = K
  BY FS_Subset DEF ObsKey
<1>2. Lists(q, ObsKey(S)) /\ Lists(p, ObsKey(K))
  BY <1>1, ObservedInOrder
<1>3. /\ q \in Seq(S) /\ p \in Seq(K)
      /\ \A o \in S : \E i \in 1..N : q[i] = o
      /\ \A o \in K : \E i \in 1..n : p[i] = o
      /\ \A i, j \in 1..N : i < j => Before(ObsKey(S)[q[i]], ObsKey(S)[q[j]])
      /\ \A i, j \in 1..n : i < j => Before(ObsKey(K)[p[i]], ObsKey(K)[p[j]])
  BY <1>1, <1>2 DEF Lists
<1>4. /\ N \in Nat /\ n \in Nat /\ DOMAIN q = 1..N /\ DOMAIN p = 1..n
      /\ \A i \in 1..N : q[i] \in S
      /\ \A i \in 1..n : p[i] \in K
  BY <1>3, LenProperties, ElementOfSeq
<1>5. \A o \in Obs : /\ <<o.at, o.way, o.lap>> \in Keys(3) /\ o.at \in Nat
                     /\ <<o.at, o.way, o.lap>>[1] = o.at
  <2> SUFFICES ASSUME NEW o \in Obs PROVE <<o.at, o.way, o.lap>> \in Keys(3) /\ o.at \in Nat
    OBVIOUS
  <2>1. o.at \in Int /\ o.way \in Int /\ o.lap \in Int /\ o.at \in Nat
    BY DEF Obs
  <2> QED
    BY <2>1 DEF Keys
<1>6. \A o \in Obs, u \in Obs : <<o.at, o.way, o.lap>> = <<u.at, u.way, u.lap>> => o = u
  <2> SUFFICES ASSUME NEW o \in Obs, NEW u \in Obs, <<o.at, o.way, o.lap>> = <<u.at, u.way, u.lap>>
               PROVE  o = u
    OBVIOUS
  <2>1. o.at = u.at /\ o.way = u.way /\ o.lap = u.lap
    OBVIOUS
  <2> QED
    BY <2>1 DEF Obs
<1> HIDE DEF N, n
<1>7. \A i, j \in 1..N : i < j => q[i].at <= q[j].at
  <2> SUFFICES ASSUME NEW i \in 1..N, NEW j \in 1..N, i < j PROVE q[i].at <= q[j].at
    OBVIOUS
  <2> DEFINE u == <<q[i].at, q[i].way, q[i].lap>>
             v == <<q[j].at, q[j].way, q[j].lap>>
  <2>1. Before(u, v) /\ q[i] \in Obs /\ q[j] \in Obs
    BY <1>3, <1>4 DEF ObsKey
  <2>2. u \in Keys(3) /\ v \in Keys(3) /\ u[1] = q[i].at /\ v[1] = q[j].at
    BY <1>5, <2>1
  <2> HIDE DEF u, v
  <2> QED
    BY <2>1, <2>2, BeforeFirst
<1>8. k \in 0..N /\ \A i \in 1..N : q[i].at <= t <=> i <= k
  <2>1. Sorted(q) /\ \A i \in 1..Len(q) : q[i].at \in Nat
    BY <1>4, <1>5, <1>7 DEF Sorted, N
  <2> QED
    BY <1>3, <1>4, <2>1, LimitIsPrefix DEF N
<1> HIDE DEF k
<1>9. k \in Nat /\ \A i \in 1..k : i \in 1..N /\ q[i] \in K
  BY <1>4, <1>8
<1>10. \A i \in 1..k : a[i] = <<q[i].at, q[i].way, q[i].lap>>
  BY <1>1, <1>9 DEF ObsKey
<1>11. \A i \in 1..n : b[i] = <<p[i].at, p[i].way, p[i].lap>>
  BY <1>1, <1>4 DEF ObsKey
<1>12. Rising(a, k, 3)
  <2>1. \A i, j \in 1..k : i < j => Before(a[i], a[j])
    BY <1>3, <1>9
  <2>2. \A i \in 1..k : a[i] \in Keys(3)
    <3> HIDE DEF a
    <3> QED
      BY <1>1, <1>5, <1>9, <1>10
  <2> HIDE DEF a
  <2> QED
    BY <2>1, <2>2 DEF Rising
<1>13. Rising(b, n, 3)
  <2>1. \A i, j \in 1..n : i < j => Before(b[i], b[j])
    BY <1>3 DEF n
  <2>2. \A i \in 1..n : b[i] \in Keys(3)
    <3> HIDE DEF b
    <3> QED
      BY <1>1, <1>4, <1>5, <1>11
  <2> HIDE DEF b
  <2> QED
    BY <2>1, <2>2 DEF Rising
<1> HIDE DEF a, b
<1>14. \A i \in 1..k : InRange(a[i], b, n)
  <2> SUFFICES ASSUME NEW i \in 1..k PROVE \E j \in 1..n : b[j] = a[i]
    BY DEF InRange
  <2>1. PICK j \in 1..n : p[j] = q[i]
    BY <1>3, <1>9 DEF n
  <2> QED
    BY <1>10, <1>11, <2>1
<1>15. \A j \in 1..n : InRange(b[j], a, k)
  <2> SUFFICES ASSUME NEW j \in 1..n PROVE \E i \in 1..k : a[i] = b[j]
    BY DEF InRange
  <2>1. p[j] \in S /\ p[j].at <= t
    BY <1>4
  <2>2. PICK i \in 1..N : q[i] = p[j]
    BY <1>3, <2>1 DEF N
  <2>3. i \in 1..k
    BY <1>8, <1>9, <2>1, <2>2
  <2> QED
    BY <1>10, <1>11, <2>2, <2>3
<1>16. k = n /\ \A i \in 1..k : a[i] = b[i]
  BY <1>4, <1>9, <1>12, <1>13, <1>14, <1>15, RisingSame
<1>17. \A i \in 1..n : p[i] = q[i]
  BY <1>1, <1>4, <1>6, <1>9, <1>10, <1>11, <1>16
<1>18. \A i \in 1..N : i > n => q[i].at > t
  <2> SUFFICES ASSUME NEW i \in 1..N, i > n PROVE q[i].at > t
    OBVIOUS
  <2>2. ~ (i <= k)
    BY <1>4, <1>16
  <2>3. q[i] \in Obs
    BY <1>4
  <2>1. q[i].at \in Nat /\ ~ (q[i].at <= t)
    BY <1>5, <1>8, <2>2, <2>3
  <2> QED
    BY <2>1
<1> QED
  BY <1>4, <1>8, <1>16, <1>17, <1>18 DEF N, n

(* An observation after that time ends only stops after it. *)
LEMMA PairedLater ==
  ASSUME NEW acc, acc = [open |-> acc.open, stops |-> acc.stops], NEW o \in Obs,
         NEW t \in Nat, o.at > t
  PROVE  /\ Pair(acc, o) = [open |-> Pair(acc, o).open, stops |-> Pair(acc, o).stops]
         /\ {s \in Pair(acc, o).stops : s.exit <= t} = {s \in acc.stops : s.exit <= t}
<1> DEFINE e == Last(acc.open)
           x == [enter |-> None, exit |-> o.at, lap |-> o.lap]
           y == [enter |-> e.at, exit |-> o.at, lap |-> e.lap]
           new == Pair(acc, o)
<1>1. o.at \in Nat
  BY DEF Obs
<1>2. x.exit = o.at /\ y.exit = o.at
  OBVIOUS
<1>3. \/ new = [acc EXCEPT !.open = Append(@, o)]
      \/ new = [acc EXCEPT !.stops = @ \cup {x}]
      \/ new = [open |-> Front(acc.open), stops |-> acc.stops \cup {y}]
  BY DEF Pair
<1> HIDE DEF e, x, y, new
<1>4. CASE new = [acc EXCEPT !.open = Append(@, o)]
  <2>1. new = [open |-> Append(acc.open, o), stops |-> acc.stops]
    BY <1>4
  <2> QED
    BY <2>1 DEF new
<1>5. CASE new = [acc EXCEPT !.stops = @ \cup {x}]
  <2>1. new = [open |-> acc.open, stops |-> acc.stops \cup {x}]
    BY <1>5
  <2>2. {s \in new.stops : s.exit <= t} = {s \in acc.stops : s.exit <= t}
    BY <1>1, <1>2, <2>1
  <2> QED
    BY <2>1, <2>2 DEF new
<1>6. CASE new = [open |-> Front(acc.open), stops |-> acc.stops \cup {y}]
  <2>2. {s \in new.stops : s.exit <= t} = {s \in acc.stops : s.exit <= t}
    BY <1>1, <1>2, <1>6
  <2> QED
    BY <1>6, <2>2 DEF new
<1> QED
  BY <1>3, <1>4, <1>5, <1>6

(* So the stops that have ended by a time are those of what was observed by then. *)
LEMMA EndedByThen ==
  ASSUME NEW laps, LapTable(laps), Columns(laps), NEW t \in Nat, NEW d
  PROVE  {s \in PairedUp(laps, d).stops : s.exit <= t} = PairedUp(LapsAt(laps, t), d).stops
<1> DEFINE cut == LapsAt(laps, t)
           S == Observations(laps, d)
           K == Observations(cut, d)
           q == Ordered(ObsKey(S))
           p == Ordered(ObsKey(K))
           N == Len(q)
           n == Len(p)
           Ended(m) == {s \in Acc(q, m).stops : s.exit <= t}
           Is(m) == /\ Acc(q, m) = [open |-> Acc(q, m).open, stops |-> Acc(q, m).stops]
                    /\ Ended(m) = Acc(q, n).stops
           P == {m \in 0..N : m >= n => Is(m)}
<1>1. LapTable(cut)
  BY LapsAtTable
<1>2. /\ S \subseteq Obs /\ IsFiniteSet(S) /\ K \subseteq Obs
      /\ K = {o \in S : o.at <= t}
  BY <1>1, ObservedFinite, ObservedAt
<1> HIDE DEF cut, S, K
<1>3. /\ n \in Nat /\ N \in Nat /\ n <= N /\ DOMAIN p = 1..n /\ DOMAIN q = 1..N
      /\ \A i \in 1..n : p[i] = q[i]
      /\ \A i \in 1..N : q[i] \in S /\ (i > n => q[i].at > t)
  BY <1>2, ObservedPrefix
<1> HIDE DEF q, p
<1>4. PairedUp(laps, d) = Acc(q, N) /\ PairedUp(cut, d) = Acc(p, n)
  <2>1. /\ IsFiniteSet(DOMAIN q) /\ DOMAIN q \in SUBSET Int
        /\ IsFiniteSet(DOMAIN p) /\ DOMAIN p \in SUBSET Int
    BY <1>3, FS_Interval
  <2>2. /\ FoldLeft(Pair, NoStops, q) = Fold("pair", NoStops, q, DOMAIN q)
        /\ FoldLeft(Pair, NoStops, p) = Fold("pair", NoStops, p, DOMAIN p)
    BY <2>1, PairedFold
  <2> QED
    BY <2>2, <1>3 DEF PairedUp, NoStops, Acc, q, S, p, K
<1>5. Acc(p, n) = Acc(q, n)
  <2> HIDE DEF n, N
  <2>2. n \in Nat
    BY <1>3
  <2>1. 1..n \in SUBSET Int /\ IsFiniteSet(1..n)
    BY <2>2, FS_Interval
  <2> QED
    BY <1>3, <2>1, FoldSame DEF Acc
<1> HIDE DEF N, n
<1>6. PairInv(Acc(q, n), K)
  BY <1>1, <1>4, <1>5, AllPaired DEF K
<1>7. Is(n)
  <2>1. Acc(q, n) = [open |-> Acc(q, n).open, stops |-> Acc(q, n).stops]
    BY <1>6 DEF PairInv
  <2>2. \A s \in Acc(q, n).stops : s.exit <= t
    <3>1. PICK by \in Bijection({o \in K : o.way = 1}, Acc(q, n).stops) :
            \A o \in DOMAIN by : ExitOf(by[o], o)
      BY <1>6 DEF PairInv
    <3>2. DOMAIN by = {o \in K : o.way = 1} /\ \A s \in Acc(q, n).stops : \E o \in DOMAIN by : by[o] = s
      BY <3>1 DEF Bijection, Surjection
    <3>3. \A o \in DOMAIN by : by[o].exit = o.at /\ o.at <= t
      BY <1>2, <3>1, <3>2 DEF ExitOf
    <3> QED
      BY <3>2, <3>3
  <2> QED
    BY <2>1, <2>2
<1>8. 0 \in P
  BY <1>3, <1>7
<1>9. ASSUME NEW m \in 0..(N - 1), m \in P PROVE m + 1 \in P
  <2>1. m \in Nat /\ m + 1 \in 1..N /\ m + 1 \in 0..N
    BY <1>3
  <2>2. CASE m + 1 = n
    BY <1>7, <2>1, <2>2
  <2>3. CASE m + 1 < n
    BY <1>3, <2>1, <2>3
  <2>4. CASE m >= n
    <3>1. Is(m)
      BY <1>9, <2>4
    <3>2. q[m + 1] \in Obs /\ q[m + 1].at > t
      BY <1>2, <1>3, <2>1, <2>4
    <3>3. Acc(q, m + 1) = Pair(Acc(q, m), q[m + 1])
      BY <2>1, FoldNext DEF Acc, Step
    <3> DEFINE acc == Acc(q, m)
               new == Acc(q, m + 1)
    <3>4. acc = [open |-> acc.open, stops |-> acc.stops] /\ {s \in acc.stops : s.exit <= t} = Acc(q, n).stops
      BY <3>1
    <3>5. new = Pair(acc, q[m + 1])
      BY <3>3
    <3> HIDE DEF acc, new
    <3>6. /\ new = [open |-> new.open, stops |-> new.stops]
          /\ {s \in new.stops : s.exit <= t} = Acc(q, n).stops
      BY <3>2, <3>4, <3>5, PairedLater
    <3>7. Is(m + 1)
      BY <3>6 DEF new
    <3> QED
      BY <2>1, <3>7
  <2> QED
    BY <1>3, <2>1, <2>2, <2>3, <2>4
<1>10. N \in P
  <2> HIDE DEF P
  <2>1. 0..N \subseteq P
    BY <1>3, <1>8, <1>9, UpTo
  <2> QED
    BY <2>1, <1>3
<1>11. Is(N)
  BY <1>3, <1>10
<1> QED
  BY <1>4, <1>5, <1>11 DEF cut

(* What the stops of a session are, for each driver. *)
LEMMA StopsAre ==
  ASSUME NEW laps, LapTable(laps)
  PROVE  /\ \A p \in Stops(laps) : \E s \in StopsOf(laps, p.driver) :
               p = [driver |-> p.driver, enter |-> s.enter, exit |-> s.exit, lap |-> s.lap]
         /\ \A d \in Nat : \A s \in StopsOf(laps, d) :
               [driver |-> d, enter |-> s.enter, exit |-> s.exit, lap |-> s.lap] \in Stops(laps)
<1>1. ASSUME NEW p \in Stops(laps)
      PROVE  \E s \in StopsOf(laps, p.driver) :
               p = [driver |-> p.driver, enter |-> s.enter, exit |-> s.exit, lap |-> s.lap]
  <2>1. PICK d \in {l.driver : l \in laps} : \E s \in StopsOf(laps, d) :
          p = [driver |-> d, enter |-> s.enter, exit |-> s.exit, lap |-> s.lap]
    BY DEF Stops
  <2>2. p.driver = d
    BY <2>1
  <2> QED
    BY <2>1, <2>2
<1>2. ASSUME NEW d, NEW s \in StopsOf(laps, d)
      PROVE  [driver |-> d, enter |-> s.enter, exit |-> s.exit, lap |-> s.lap] \in Stops(laps)
  <2>1. Paired(Observations(laps, d), StopsOf(laps, d)) /\ (s.enter # None \/ s.exit # None)
    BY StopsOfPaired
  <2>2. \E o \in Observations(laps, d) : TRUE
    <3>1. CASE s.enter # None
      <4>1. PICK of \in Bijection({o \in Observations(laps, d) : o.way = 0},
                                  {x \in StopsOf(laps, d) : x.enter # None}) : TRUE
        BY <2>1 DEF Paired
      <4>2. \E o \in {o \in Observations(laps, d) : o.way = 0} : of[o] = s
        BY <3>1, <4>1 DEF Bijection, Surjection
      <4> QED
        BY <4>2
    <3>2. CASE s.exit # None
      <4>1. PICK of \in Bijection({o \in Observations(laps, d) : o.way = 1},
                                  {x \in StopsOf(laps, d) : x.exit # None}) : TRUE
        BY <2>1 DEF Paired
      <4>2. \E o \in {o \in Observations(laps, d) : o.way = 1} : of[o] = s
        BY <3>2, <4>1 DEF Bijection, Surjection
      <4> QED
        BY <4>2
    <3> QED
      BY <2>1, <3>1, <3>2
  <2>3. \E l \in laps : l.driver = d
    BY <2>2 DEF Observations
  <2> QED
    BY <2>3 DEF Stops
<1> QED
  BY <1>1, <1>2

(* The stops whose end is known. *)
LEMMA ExitsKnown ==
  ASSUME NEW laps, LapTable(laps), Columns(laps), NEW t \in Nat
  PROVE  {p \in Stops(laps) : p.exit # None /\ p.exit <= t} = {p \in Stops(LapsAt(laps, t)) : p.exit # None}
<1> DEFINE cut == LapsAt(laps, t)
<1>1. LapTable(cut)
  BY LapsAtTable
<1>2. \A d : {s \in PairedUp(laps, d).stops : s.exit <= t} = PairedUp(cut, d).stops
  BY EndedByThen
<1> HIDE DEF cut
<1>3. ASSUME NEW any, LapTable(any), NEW d
      PROVE  {s \in StopsOf(any, d) : s.exit # None} = PairedUp(any, d).stops
  <2>1. PairInv(PairedUp(any, d), Observations(any, d))
    BY <1>3, AllPaired
  <2>2. StopsOf(any, d) = PairedUp(any, d).stops \cup
            {[enter |-> e.at, exit |-> None, lap |-> e.lap] : e \in ToSet(PairedUp(any, d).open)}
    BY DEF StopsOf, PairedUp, ObsKey
  <2>3. \A s \in PairedUp(any, d).stops : s.exit # None
    BY <2>1, NoneIsNoNumber DEF PairInv, StopRecords
  <2> QED
    BY <2>2, <2>3
<1>4. \A d : {s \in StopsOf(laps, d) : s.exit # None /\ s.exit <= t} = {s \in StopsOf(cut, d) : s.exit # None}
  <2> SUFFICES ASSUME NEW d
               PROVE  {s \in StopsOf(laps, d) : s.exit # None /\ s.exit <= t}
                      = {s \in StopsOf(cut, d) : s.exit # None}
    OBVIOUS
  <2>1. /\ {s \in StopsOf(laps, d) : s.exit # None} = PairedUp(laps, d).stops
        /\ {s \in StopsOf(cut, d) : s.exit # None} = PairedUp(cut, d).stops
    BY <1>1, <1>3
  <2> QED
    BY <1>2, <2>1
<1>5. ASSUME NEW p \in Stops(laps), p.exit # None, p.exit <= t PROVE p \in Stops(cut)
  <2>1. p.driver \in Nat
    BY StopsTable DEF StopRows
  <2>2. PICK s \in StopsOf(laps, p.driver) :
          p = [driver |-> p.driver, enter |-> s.enter, exit |-> s.exit, lap |-> s.lap]
    BY StopsAre
  <2>3. s.exit = p.exit
    BY <2>2
  <2>4. s \in StopsOf(cut, p.driver)
    BY <1>4, <1>5, <2>3
  <2> QED
    BY <1>1, <2>1, <2>2, <2>4, StopsAre
<1>6. ASSUME NEW p \in Stops(cut), p.exit # None PROVE p \in Stops(laps) /\ p.exit <= t
  <2>1. p.driver \in Nat
    BY <1>1, StopsTable DEF StopRows
  <2>2. PICK s \in StopsOf(cut, p.driver) :
          p = [driver |-> p.driver, enter |-> s.enter, exit |-> s.exit, lap |-> s.lap]
    BY <1>1, StopsAre
  <2>3. s.exit = p.exit
    BY <2>2
  <2>4. s \in StopsOf(laps, p.driver) /\ s.exit <= t
    BY <1>4, <1>6, <2>3
  <2> QED
    BY <2>1, <2>2, <2>3, <2>4, StopsAre
<1> QED
  BY <1>5, <1>6 DEF cut

(* An entry is in one stop: those of a driver differ in time or lap. *)
LEMMA OneStopPerEntry ==
  ASSUME NEW laps, LapTable(laps), NEW p \in Stops(laps), NEW r \in Stops(laps),
         p.driver = r.driver, p.enter # None, p.enter = r.enter, p.lap = r.lap
  PROVE  p = r
<1> DEFINE d == p.driver
           E == {o \in Observations(laps, d) : o.way = 0}
           R == {s \in {s \in Stops(laps) : s.driver = d} : s.enter # None}
<1>1. PICK of \in Bijection(E, R) : \A o \in DOMAIN of : of[o].enter = o.at /\ of[o].lap = o.lap
  BY StopsPaired DEF Paired
<1>2. p \in R /\ r \in R
  OBVIOUS
<1>3. DOMAIN of = E /\ (\E o \in E : of[o] = p) /\ (\E o \in E : of[o] = r)
  <2> HIDE DEF E, R
  <2> QED
    BY <1>1, <1>2 DEF Bijection, Surjection
<1>4. PICK o \in E, u \in E : of[o] = p /\ of[u] = r
  BY <1>3
<1>5. o.at = u.at /\ o.lap = u.lap /\ o.way = u.way
  BY <1>1, <1>3, <1>4
<1>6. o \in Obs /\ u \in Obs
  BY ObservedFinite
<1>7. o = u
  BY <1>5, <1>6 DEF Obs
<1> QED
  BY <1>4, <1>7

(* The stops whose beginning is known. *)
EntrySame(p, r) == p.driver = r.driver /\ p.enter = r.enter /\ p.lap = r.lap

(* The entries up to a time are those of the stops known then. *)
LEMMA EntriesKnown ==
  ASSUME NEW laps, LapTable(laps), Columns(laps), NEW t \in Nat
  PROVE  /\ \A p \in Stops(laps) : p.enter # None /\ p.enter <= t =>
               \E r \in Stops(LapsAt(laps, t)) : EntrySame(p, r)
         /\ \A r \in Stops(LapsAt(laps, t)) : r.enter # None =>
               r.enter <= t /\ \E p \in Stops(laps) : EntrySame(p, r)
<1> DEFINE cut == LapsAt(laps, t)
<1>1. LapTable(cut)
  BY LapsAtTable
<1>2. \A d : Observations(cut, d) = {o \in Observations(laps, d) : o.at <= t}
  BY ObservedAt
<1> HIDE DEF cut
<1>3. ASSUME NEW any, LapTable(any), NEW d
      PROVE  /\ \A p \in Stops(any) : p.driver = d /\ p.enter # None =>
                   \E o \in Observations(any, d) : o.way = 0 /\ o.at = p.enter /\ o.lap = p.lap
             /\ \A o \in Observations(any, d) : o.way = 0 =>
                   \E p \in Stops(any) : p.driver = d /\ p.enter # None /\ p.enter = o.at /\ p.lap = o.lap
  <2> DEFINE E == {o \in Observations(any, d) : o.way = 0}
             R == {s \in {s \in Stops(any) : s.driver = d} : s.enter # None}
  <2>1. PICK of \in Bijection(E, R) : \A o \in DOMAIN of : of[o].enter = o.at /\ of[o].lap = o.lap
    BY <1>3, StopsPaired DEF Paired
  <2>2. DOMAIN of = E /\ (\A p \in R : \E o \in E : of[o] = p) /\ (\A o \in E : of[o] \in R)
    <3> HIDE DEF E, R
    <3> QED
      BY <2>1 DEF Bijection, Surjection, Injection
  <2>3. ASSUME NEW p \in Stops(any), p.driver = d, p.enter # None
        PROVE  \E o \in Observations(any, d) : o.way = 0 /\ o.at = p.enter /\ o.lap = p.lap
    <3>1. p \in R
      BY <2>3
    <3>2. PICK o \in E : of[o] = p
      BY <2>2, <3>1
    <3>3. p.enter = o.at /\ p.lap = o.lap
      BY <2>1, <2>2, <3>2
    <3> QED
      BY <3>3
  <2>4. ASSUME NEW o \in Observations(any, d), o.way = 0
        PROVE  \E p \in Stops(any) : p.driver = d /\ p.enter # None /\ p.enter = o.at /\ p.lap = o.lap
    <3>1. o \in E
      BY <2>4
    <3>2. of[o] \in R /\ of[o].enter = o.at /\ of[o].lap = o.lap
      BY <2>1, <2>2, <3>1
    <3> QED
      BY <3>2
  <2> QED
    BY <2>3, <2>4
<1>4. ASSUME NEW p \in Stops(laps), p.enter # None, p.enter <= t
      PROVE  \E r \in Stops(cut) : EntrySame(p, r)
  <2>1. PICK o \in Observations(laps, p.driver) : o.way = 0 /\ o.at = p.enter /\ o.lap = p.lap
    BY <1>3, <1>4
  <2>2. o \in Observations(cut, p.driver)
    BY <1>2, <1>4, <2>1
  <2>3. PICK r \in Stops(cut) : r.driver = p.driver /\ r.enter # None /\ r.enter = o.at /\ r.lap = o.lap
    BY <1>1, <1>3, <2>1, <2>2
  <2> QED
    BY <2>1, <2>3 DEF EntrySame
<1>5. ASSUME NEW r \in Stops(cut), r.enter # None
      PROVE  r.enter <= t /\ \E p \in Stops(laps) : EntrySame(p, r)
  <2>1. PICK o \in Observations(cut, r.driver) : o.way = 0 /\ o.at = r.enter /\ o.lap = r.lap
    BY <1>1, <1>3, <1>5
  <2>2. o \in Observations(laps, r.driver) /\ o.at <= t
    BY <1>2, <2>1
  <2>3. PICK p \in Stops(laps) : p.driver = r.driver /\ p.enter # None /\ p.enter = o.at /\ p.lap = o.lap
    BY <1>3, <2>1, <2>2
  <2> QED
    BY <2>1, <2>2, <2>3 DEF EntrySame
<1> QED
  BY <1>4, <1>5 DEF cut

--------------------------------------------------------------------------------
(* Stints.  A stint that has begun is known by its first lap, and those of its  *)
(* laps that are known.                                                         *)
StintLaps(laps, d, n) == {o \in laps : o.driver = d /\ o.stint = n}
FirstOf(G, f) == f \in G /\ \A o \in G : f.lap <= o.lap

(* A stint has the driver and the number of its laps, and the start of the first. *)
LEMMA StintIs ==
  ASSUME NEW laps, LapTable(laps), Columns(laps), NEW d, NEW n,
         NEW G, G = StintLaps(laps, d, n), G # {}
  PROVE  \E f \in G :
           /\ FirstOf(G, f) /\ \A o \in G : FirstOf(G, o) => o = f
           /\ Stint(G).driver = d /\ Stint(G).number = n /\ Stint(G).first = f.lap
           /\ Stint(G).start = f.start /\ Stint(G).age = f.life
           /\ Stint(G).compound \in Nat
           /\ Stint(G).compound = 0 => \A o \in G : o.compound = 0
           /\ Stint(G).compound # 0 =>
                /\ \E o \in G : o.compound = Stint(G).compound
                /\ \A o \in G : o.compound # 0 => Stint(G).compound <= o.compound
<1> DEFINE f == CHOOSE x \in G : \A o \in G : x.lap <= o.lap
           lap == [o \in G |-> o.lap]
           N == {lap[o] : o \in DOMAIN lap}
           all == [o \in G |-> o.compound]
           A == {all[o] : o \in DOMAIN all}
           named == {l.compound : l \in G} \ {0}
           c == IF named = {} THEN 0 ELSE CHOOSE x \in named : \A o \in named : x <= o
           s == Stint(G)
<1>1. /\ IsFiniteSet(G) /\ G \subseteq laps
      /\ \A o \in G : o.lap \in Int /\ o.compound \in Nat /\ o.driver = d /\ o.stint = n
      /\ \A o, u \in G : o.lap = u.lap => o = u
  <2>1. G \subseteq laps
    BY DEF StintLaps
  <2>2. IsFiniteSet(G)
    BY <2>1, FS_Subset DEF LapTable
  <2>3. \A o \in G : o.driver = d /\ o.stint = n
    BY DEF StintLaps
  <2>4. \A o \in laps : o.lap \in Int /\ o.compound \in Nat
    BY DEF LapTable, Lap, Columns
  <2>5. \A o, u \in laps : o.driver = u.driver /\ o.lap = u.lap => o = u
    BY DEF LapTable
  <2>6. \A o, u \in G : o.lap = u.lap => o = u
    BY <2>1, <2>3, <2>5
  <2> QED
    BY <2>1, <2>2, <2>3, <2>4, <2>6
<1>2. DOMAIN lap = G /\ N \in SUBSET Int /\ N # {} /\ DOMAIN all = G /\ A \in SUBSET Nat /\ A = {l.compound : l \in G}
  BY <1>1
<1>3. IsFiniteSet(N) /\ IsFiniteSet(A)
  <2> HIDE DEF lap, all
  <2> QED
    BY <1>1, <1>2, ImageFinite
<1>4. \E x \in G : \A o \in G : x.lap <= o.lap
  <2>1. PICK m \in N : \A x \in N : m <= x
    <3> HIDE DEF N
    <3> QED
      BY <1>2, <1>3, LeastIn
  <2> QED
    BY <2>1
<1>5. f \in G /\ \A o \in G : f.lap <= o.lap
  BY <1>4
<1>6. /\ s.driver = f.driver /\ s.number = f.stint /\ s.first = f.lap /\ s.start = f.start
      /\ s.age = f.life /\ s.compound = c
  BY DEF Stint
<1> HIDE DEF f, s
<1>7. \A o \in G : FirstOf(G, o) => o = f
  <2> SUFFICES ASSUME NEW o \in G, \A u \in G : o.lap <= u.lap PROVE o = f
    BY DEF FirstOf
  <2>1. o.lap <= f.lap /\ f.lap <= o.lap /\ o.lap \in Int /\ f.lap \in Int
    BY <1>1, <1>5
  <2>2. o.lap = f.lap
    BY <2>1
  <2> QED
    BY <1>1, <1>5, <2>2
<1>8. named = A \ {0}
  BY <1>2
<1>9. named # {} => c \in named /\ \A x \in named : c <= x
  <2> SUFFICES ASSUME named # {} PROVE c \in named /\ \A x \in named : c <= x
    OBVIOUS
  <2> HIDE DEF named, A
  <2>1. named \in SUBSET Int /\ IsFiniteSet(named)
    <3>1. named \subseteq A /\ A \subseteq Int
      BY <1>2, <1>8
    <3>2. IsFiniteSet(named)
      BY <1>3, <3>1, FS_Subset
    <3> QED
      BY <3>1, <3>2
  <2>2. \E x \in named : \A o \in named : x <= o
    BY <2>1, LeastIn
  <2> QED
    BY <2>2
<1>10. named = {} => c = 0 /\ \A o \in G : o.compound = 0
  OBVIOUS
<1> HIDE DEF c
<1>11. /\ c \in Nat
       /\ c = 0 => \A o \in G : o.compound = 0
       /\ c # 0 => (\E o \in G : o.compound = c) /\ \A o \in G : o.compound # 0 => c <= o.compound
  <2>1. CASE named = {}
    BY <1>10, <2>1
  <2>2. CASE named # {}
    <3>1. \A x \in named : x \in Nat /\ x # 0
      BY <1>2, <1>8
    <3>2. (\E o \in G : o.compound = c) /\ \A o \in G : o.compound # 0 => c <= o.compound
      BY <1>9, <2>2
    <3> QED
      BY <1>9, <2>2, <3>1, <3>2
  <2> QED
    BY <2>1, <2>2
<1> QED
  BY <1>1, <1>5, <1>6, <1>7, <1>11 DEF FirstOf, s

(* A stint whose laps are known in part is the same as one of all of its laps, as *)
(* far as it has begun, if its tyres are those of its first lap.                *)
StintSame(a, b) ==
  a.driver = b.driver /\ a.number = b.number /\ a.start = b.start /\ a.age = b.age /\ a.compound = b.compound
TyresOfFirst(laps) ==
  \A s \in Stints(laps), l \in laps :
    l.driver = s.driver /\ l.stint = s.number /\ l.lap = s.first => l.compound = s.compound

(* A stint known in part has the driver, number, start, age and tyres of the whole. *)
LEMMA StintKnown ==
  ASSUME NEW laps, LapTable(laps), Columns(laps), TyresOfFirst(laps), NEW t \in Nat, NEW d, NEW n, n # None,
         NEW G, G = StintLaps(laps, d, n), NEW H, H = StintLaps(LapsAt(laps, t), d, n), H # {}
  PROVE  /\ G # {} /\ Stint(G) \in Stints(laps) /\ Stint(H) \in Stints(LapsAt(laps, t))
         /\ Stint(H).driver = Stint(G).driver /\ Stint(H).number = Stint(G).number
         /\ Stint(H).start = Seen(Stint(G).start, t)
         /\ Stint(H).age = Stint(G).age /\ Stint(H).compound = Stint(G).compound
<1> DEFINE cut == LapsAt(laps, t)
           a == Stint(G)
           b == Stint(H)
<1>1. /\ LapTable(cut)
      /\ \A l \in laps : LapSame(LapAt(l, t), l, t) /\ (Reached(laps, l, t) => LapAt(l, t) \in cut)
      /\ \A c \in cut : \E l \in laps : c = LapAt(l, t) /\ Reached(laps, l, t)
  BY LapsAtTable
<1>2. Columns(cut)
  <2> SUFFICES ASSUME NEW l \in laps PROVE LapColumns \subseteq DOMAIN LapAt(l, t) /\ LapAt(l, t).compound \in Nat
    BY <1>1 DEF Columns
  <2>1. DOMAIN LapAt(l, t) = DOMAIN l
    BY DEF LapAt
  <2> QED
    BY <1>1, <2>1 DEF Columns, LapSame
<1> HIDE DEF cut
<1>3. \A c \in H : \E l \in G : c = LapAt(l, t) /\ Reached(laps, l, t)
  BY <1>1 DEF StintLaps, LapSame, cut
<1>4. G # {} /\ G \subseteq laps /\ \A l \in G : l.driver = d /\ l.stint = n
  BY <1>3 DEF StintLaps
<1>5. PICK f \in G :
        /\ FirstOf(G, f)
        /\ a.driver = d /\ a.number = n /\ a.first = f.lap /\ a.start = f.start /\ a.age = f.life
        /\ a.compound \in Nat
        /\ a.compound = 0 => \A o \in G : o.compound = 0
        /\ a.compound # 0 =>
             /\ \E o \in G : o.compound = a.compound
             /\ \A o \in G : o.compound # 0 => a.compound <= o.compound
  BY <1>4, StintIs
<1>6. PICK g \in H :
        /\ \A o \in H : FirstOf(H, o) => o = g
        /\ b.driver = d /\ b.number = n /\ b.start = g.start /\ b.age = g.life
        /\ b.compound \in Nat
        /\ b.compound = 0 => \A o \in H : o.compound = 0
        /\ b.compound # 0 =>
             /\ \E o \in H : o.compound = b.compound
             /\ \A o \in H : o.compound # 0 => b.compound <= o.compound
  BY <1>1, <1>2, StintIs DEF cut
<1> HIDE DEF a, b
<1>7. a \in Stints(laps) /\ b \in Stints(cut)
  <2>1. \A l \in G : l \in laps /\ StintLaps(laps, l.driver, l.stint) = G /\ l.stint # None
    BY DEF StintLaps
  <2>2. \A c \in H : c \in cut /\ StintLaps(cut, c.driver, c.stint) = H /\ c.stint # None
    BY DEF StintLaps, cut
  <2>3. a = Stint(G) /\ b = Stint(H)
    BY DEF a, b
  <2>4. /\ Stints(laps) = {Stint(StintLaps(laps, l.driver, l.stint)) : l \in {l \in laps : l.stint # None}}
        /\ Stints(cut) = {Stint(StintLaps(cut, l.driver, l.stint)) : l \in {l \in cut : l.stint # None}}
    BY DEF Stints, StintLaps
  <2>5. a \in Stints(laps)
    BY <1>4, <2>1, <2>3, <2>4
  <2>6. b \in Stints(cut)
    BY <2>2, <2>3, <2>4
  <2> QED
    BY <2>5, <2>6
<1>8. Reached(laps, f, t)
  <2>1. PICK c \in H : TRUE
    OBVIOUS
  <2>2. PICK l \in G : Reached(laps, l, t)
    BY <1>3, <2>1
  <2>3. PICK o \in laps : o.driver = l.driver /\ o.lap >= l.lap /\ Shows(o, t)
    BY <2>2 DEF Reached
  <2>4. f.lap <= l.lap /\ f.driver = l.driver
    BY <1>4, <1>5 DEF FirstOf
  <2>5. o.lap \in Nat /\ l.lap \in Nat /\ f.lap \in Nat
    BY <1>4 DEF LapTable, Lap
  <2>6. o.lap >= f.lap
    BY <2>3, <2>4, <2>5
  <2> QED
    BY <2>3, <2>4, <2>6 DEF Reached
<1>9. LapAt(f, t) \in H /\ LapSame(LapAt(f, t), f, t)
  BY <1>1, <1>4, <1>8 DEF StintLaps, LapSame, cut
<1>10. FirstOf(H, LapAt(f, t))
  <2> SUFFICES ASSUME NEW o \in H PROVE LapAt(f, t).lap <= o.lap
    BY <1>9 DEF FirstOf
  <2>1. PICK l \in G : o = LapAt(l, t)
    BY <1>3
  <2>2. o.lap = l.lap
    BY <1>1, <1>4, <2>1 DEF LapSame
  <2> QED
    BY <1>5, <1>9, <2>2 DEF FirstOf, LapSame
<1>11. g = LapAt(f, t)
  BY <1>6, <1>9, <1>10
<1>12. b.start = Seen(a.start, t) /\ b.age = a.age /\ b.driver = a.driver /\ b.number = a.number
  BY <1>5, <1>6, <1>9, <1>11 DEF LapSame
<1>13. f.compound = a.compound
  BY <1>4, <1>5, <1>7 DEF TyresOfFirst
<1>14. g.compound = a.compound
  BY <1>9, <1>11, <1>13 DEF LapSame
<1>15. \A o \in H : \E l \in G : o.compound = l.compound
  BY <1>1, <1>3, <1>4 DEF LapSame
<1>16. b.compound = a.compound
  <2>1. CASE a.compound = 0
    BY <1>5, <1>6, <1>15, <2>1
  <2>2. CASE a.compound # 0
    <3>1. b.compound # 0
      BY <1>6, <1>14, <2>2
    <3>2. b.compound <= a.compound
      BY <1>6, <1>14, <2>2, <3>1
    <3>3. a.compound <= b.compound
      <4>1. PICK o \in H : o.compound = b.compound
        BY <1>6, <3>1
      <4>2. PICK l \in G : l.compound = b.compound
        BY <1>15, <4>1
      <4> QED
        BY <1>5, <2>2, <3>1, <4>2
    <3> QED
      BY <1>5, <1>6, <3>2, <3>3
  <2> QED
    BY <2>1, <2>2
<1> QED
  BY <1>4, <1>7, <1>12, <1>16 DEF a, b, cut


(* The stints begun up to a time are those known then. *)
LEMMA StintsKnown ==
  ASSUME NEW laps, LapTable(laps), Columns(laps), TyresOfFirst(laps), NEW t \in Nat
  PROVE  /\ \A a \in Stints(laps) : a.start # None /\ a.start <= t =>
               \E b \in Stints(LapsAt(laps, t)) : StintSame(a, b)
         /\ \A b \in Stints(LapsAt(laps, t)) : b.start # None =>
               b.start <= t /\ \E a \in Stints(laps) : StintSame(a, b)
<1> DEFINE cut == LapsAt(laps, t)
<1>1. /\ \A l \in laps : LapSame(LapAt(l, t), l, t) /\ (Reached(laps, l, t) => LapAt(l, t) \in cut)
                         /\ (Shows(l, t) => Reached(laps, l, t))
      /\ \A c \in cut : \E l \in laps : c = LapAt(l, t)
  BY LapsAtTable
<1>2. \A s \in Stints(laps) : s.start \in Maybe(Nat)
  BY StintsTable
<1>3. ASSUME NEW a \in Stints(laps), a.start # None, a.start <= t
      PROVE  \E b \in Stints(cut) : StintSame(a, b)
  <2>1. PICK l \in laps : l.stint # None /\ a = Stint(StintLaps(laps, l.driver, l.stint))
    BY DEF Stints, StintLaps
  <2> DEFINE G == StintLaps(laps, l.driver, l.stint)
             H == StintLaps(cut, l.driver, l.stint)
  <2>2. l \in G
    BY DEF StintLaps
  <2> HIDE DEF G, H
  <2>3. PICK f \in G : a.start = f.start
    BY <2>1, <2>2, StintIs DEF G
  <2>4. f \in laps /\ f.driver = l.driver /\ f.stint = l.stint
    BY <2>3 DEF G, StintLaps
  <2>5. Shows(f, t)
    BY <1>3, <2>3, <2>4, SeenIs DEF Shows, Seen
  <2>6. LapAt(f, t) \in H
    BY <1>1, <2>4, <2>5 DEF H, StintLaps, LapSame
  <2>7. H # {}
    BY <2>6
  <2>8. /\ Stint(H) \in Stints(cut)
        /\ Stint(H).driver = a.driver /\ Stint(H).number = a.number
        /\ Stint(H).start = Seen(a.start, t)
        /\ Stint(H).age = a.age /\ Stint(H).compound = a.compound
    <3> HIDE DEF cut
    <3> QED
      BY <2>1, <2>7, StintKnown DEF G, H, cut
  <2>9. Seen(a.start, t) = a.start
    BY <1>3 DEF Seen
  <2>10. StintSame(a, Stint(H))
    BY <2>8, <2>9 DEF StintSame
  <2> QED
    BY <2>8, <2>10
<1>4. ASSUME NEW b \in Stints(cut), b.start # None
      PROVE  b.start <= t /\ \E a \in Stints(laps) : StintSame(a, b)
  <2> HIDE DEF cut
  <2>1. PICK c \in cut : c.stint # None /\ b = Stint(StintLaps(cut, c.driver, c.stint))
    BY DEF Stints, StintLaps
  <2> DEFINE G == StintLaps(laps, c.driver, c.stint)
             H == StintLaps(cut, c.driver, c.stint)
  <2>2. c \in H
    BY DEF StintLaps
  <2>3. H # {}
    BY <2>2
  <2> HIDE DEF G, H
  <2>4. /\ Stint(G) \in Stints(laps)
        /\ b.driver = Stint(G).driver /\ b.number = Stint(G).number
        /\ b.start = Seen(Stint(G).start, t)
        /\ b.age = Stint(G).age /\ b.compound = Stint(G).compound
    BY <2>1, <2>3, StintKnown DEF G, H, cut
  <2>5. b.start = Stint(G).start /\ b.start <= t
    BY <1>2, <1>4, <2>4, SeenIs
  <2>6. StintSame(Stint(G), b)
    BY <2>4, <2>5 DEF StintSame
  <2> QED
    BY <2>4, <2>5, <2>6
<1> QED
  BY <1>3, <1>4 DEF cut

(* Which records change the track's status is decided by those before them. *)
LEMMA StatusKnown ==
  ASSUME NEW control, \A c \in control : c.at \in Nat /\ c.id \in Nat, NEW t \in Nat
  PROVE  StatusChanges({c \in control : c.at <= t}) = {c \in StatusChanges(control) : c.at <= t}
<1> DEFINE E(a, b) == Before(<<a.at, a.id>>, <<b.at, b.id>>)
           known == {c \in control : c.status # 0}
           cut == {c \in {c \in control : c.at <= t} : c.status # 0}
           Prior(K, c) == {o \in K : E(o, c) /\ \A p \in K : E(p, c) => ~ E(o, p)}
<1>1. /\ StatusChanges(control) = {c \in known : \A o \in Prior(known, c) : o.status # c.status}
      /\ StatusChanges({c \in control : c.at <= t}) = {c \in cut : \A o \in Prior(cut, c) : o.status # c.status}
  BY DEF StatusChanges
<1>2. \A a, b \in control : E(a, b) => a.at <= b.at
  <2> SUFFICES ASSUME NEW a \in control, NEW b \in control, E(a, b) PROVE a.at <= b.at
    OBVIOUS
  <2> DEFINE x == <<a.at, a.id>>
             y == <<b.at, b.id>>
  <2>1. x \in Keys(2) /\ y \in Keys(2) /\ x[1] = a.at /\ y[1] = b.at
    BY DEF Keys
  <2>2. Before(x, y)
    OBVIOUS
  <2> HIDE DEF x, y
  <2> QED
    BY <2>1, <2>2, BeforeFirst
<1> HIDE DEF E
<1>3. cut = {c \in known : c.at <= t}
  OBVIOUS
<1>4. \A c \in cut : \A o \in known : E(o, c) => o \in cut
  BY <1>2
<1>5. \A c \in cut : Prior(cut, c) = Prior(known, c)
  <2> SUFFICES ASSUME NEW c \in cut PROVE Prior(cut, c) = Prior(known, c)
    OBVIOUS
  <2>1. cut \subseteq known
    OBVIOUS
  <2> HIDE DEF cut, known
  <2> QED
    BY <1>4, <2>1
<1> HIDE DEF cut, known, Prior
<1> QED
  BY <1>1, <1>3, <1>5

(* An event and what is known of it: they have one place in the order, but that *)
(* the end of a pit stop may not be known at its entry, and one effect.         *)
Alike(e, f) ==
  /\ e.kind = f.kind /\ e.at = f.at /\ e.driver = f.driver
  /\ e.tie[1] = f.tie[1] /\ (e.kind # "enter" => e.tie[2] = f.tie[2])
  /\ e.kind \in {"status", "weather", "control", "place", "exit"} => e.of = f.of
  /\ e.kind = "stint" => StintSame(e.of, f.of)
  /\ e.kind = "enter" => e.of.lap = f.of.lap
  /\ e.kind = "lap" => /\ e.of.lap = f.of.lap /\ e.of.stint = f.of.stint /\ e.of.compound = f.of.compound
                       /\ e.of.time = f.of.time /\ e.of.life = f.of.life

(* Alike events change a state alike. *)
LEMMA AlikeApply ==
  ASSUME NEW e, NEW f, Alike(e, f), e.kind \in Kinds, NEW st
  PROVE  Apply(st, e) = Apply(st, f)
<1>1. e.kind = f.kind /\ e.at = f.at /\ e.driver = f.driver
  BY DEF Alike
<1>2. ASSUME e.kind \in {"stint", "enter", "exit", "place", "lap"}, NEW c PROVE Moved(c, e) = Moved(c, f)
  <2>1. CASE e.kind = "stint"
    <3>1. e.of.number = f.of.number /\ e.of.compound = f.of.compound /\ e.of.age = f.of.age
      BY <2>1 DEF Alike, StintSame
    <3> QED
      BY <1>1, <2>1, <3>1 DEF Moved
  <2>2. CASE e.kind = "enter"
    <3>1. e.of.lap = f.of.lap
      BY <2>2 DEF Alike
    <3> QED
      BY <1>1, <2>2, <3>1 DEF Moved
  <2>3. CASE e.kind = "exit"
    BY <1>1, <2>3 DEF Moved
  <2>4. CASE e.kind = "place"
    <3>1. e.of = f.of
      BY <2>4 DEF Alike
    <3> QED
      BY <1>1, <2>4, <3>1 DEF Moved
  <2>5. CASE e.kind = "lap"
    <3>1. /\ e.of.lap = f.of.lap /\ e.of.stint = f.of.stint /\ e.of.compound = f.of.compound
          /\ e.of.time = f.of.time /\ e.of.life = f.of.life
      BY <2>5 DEF Alike
    <3> QED
      BY <1>1, <2>5, <3>1 DEF Moved
  <2> QED
    BY <1>2, <2>1, <2>2, <2>3, <2>4, <2>5
<1>3. Transition(st, e) = Transition(st, f)
  <2>1. CASE e.kind \in {"status", "weather", "control"}
    <3>1. e.of = f.of
      BY <2>1 DEF Alike
    <3> QED
      BY <1>1, <2>1, <3>1 DEF Transition
  <2>2. CASE e.kind = "marker"
    BY <1>1, <2>2 DEF Transition
  <2>3. CASE e.kind \in {"stint", "enter", "exit", "place", "lap"}
    <3>1. /\ Transition(st, e) = [st EXCEPT !.car[e.driver] = Moved(st.car[e.driver], e)]
          /\ Transition(st, f) = [st EXCEPT !.car[f.driver] = Moved(st.car[f.driver], f)]
      BY <1>1, <2>3 DEF Transition
    <3>2. Moved(st.car[e.driver], e) = Moved(st.car[f.driver], f)
      BY <1>1, <1>2, <2>3
    <3> QED
      BY <1>1, <3>1, <3>2
  <2> QED
    BY <2>1, <2>2, <2>3 DEF Kinds
<1> QED
  BY <1>1, <1>3 DEF Apply

(* Events that have one effect each make one state. *)
LEMMA AlikeStates ==
  ASSUME NEW n \in Nat, NEW q, NEW p, \A i \in 1..n : q[i].kind \in Kinds /\ Alike(q[i], p[i])
  PROVE  States(q, n) = States(p, n)
<1> DEFINE S == 1..n
           T == {D \in SUBSET S : Fold("apply", Fresh, q, D) = Fold("apply", Fresh, p, D)}
<1>1. S \in SUBSET Int /\ IsFiniteSet(S)
  BY FS_Interval
<1>2. \A i \in S : \A st : Step("apply", st, q[i]) = Step("apply", st, p[i])
  BY AlikeApply DEF Step
<1> HIDE DEF S
<1>3. ASSUME NEW D \in SUBSET S, \A u \in SUBSET D : u # D => u \in T
      PROVE  D \in T
  <2>1. Folds("apply", Fresh, q, D) /\ Folds("apply", Fresh, p, D)
    BY <1>1, FS_Subset, FoldSolved
  <2>2. CASE D = {}
    BY <2>1, <2>2 DEF Folds
  <2>3. CASE D # {}
    <3>1. Max(D) \in D
      BY <1>1, <2>3, FS_Subset, MaxIn
    <3>2. D \ {Max(D)} \in T
      BY <3>1, <1>3
    <3>3. /\ Fold("apply", Fresh, q, D) = Step("apply", Fold("apply", Fresh, q, D \ {Max(D)}), q[Max(D)])
          /\ Fold("apply", Fresh, p, D) = Step("apply", Fold("apply", Fresh, p, D \ {Max(D)}), p[Max(D)])
      BY <2>1, <2>3 DEF Folds
    <3>4. Max(D) \in S
      BY <3>1
    <3> QED
      BY <1>2, <3>2, <3>3, <3>4
  <2> QED
    BY <2>2, <2>3
<1>4. T = SUBSET S
  <2>1. T \subseteq SUBSET S
    OBVIOUS
  <2> HIDE DEF T
  <2> QED
    BY <1>1, <1>3, <2>1, SubsetInduction
<1> QED
  BY <1>4 DEF S, States

(* The events of a session, kind by kind. *)
WeatherEvent(w) == Event("weather", w.at, 0, <<0, w.id>>, w)
ControlEvent(c) == Event("control", c.at, 0, <<c.source, c.id>>, c)
StatusEvent(c) == Event("status", c.at, 0, <<c.source, c.id>>, c)
StintEvent(a) == Event("stint", a.start, a.driver, <<0, a.number>>, a)
EnterEvent(p) == Event("enter", p.enter, p.driver, <<p.lap, Other(p.exit)>>, p)
ExitEvent(p) == Event("exit", p.exit, p.driver, <<p.lap, Other(p.enter)>>, p)
PlaceEvent(p) == Event("place", p.at, p.driver, <<0, p.id>>, p)
LapEvent(l) == Event("lap", l.end, l.driver, <<0, l.id>>, l)
Marker == Event("marker", 0, 0, <<0, 0>>, None)

(* An event is of one of these kinds, and there is one for each record. *)
LEMMA EventForms ==
  ASSUME NEW s
  PROVE  /\ Marker \in Events(s)
         /\ \A w \in s.weather : WeatherEvent(w) \in Events(s)
         /\ \A c \in s.control : ControlEvent(c) \in Events(s)
         /\ \A c \in StatusChanges(s.control) : StatusEvent(c) \in Events(s)
         /\ \A a \in s.stints : a.start # None => StintEvent(a) \in Events(s)
         /\ \A p \in s.stops : p.enter # None => EnterEvent(p) \in Events(s)
         /\ \A p \in s.stops : p.exit # None => ExitEvent(p) \in Events(s)
         /\ \A p \in s.positions : PlaceEvent(p) \in Events(s)
         /\ \A l \in s.laps : l.end # None /\ ~ l.deleted => LapEvent(l) \in Events(s)
         /\ \A e \in Events(s) :
              \/ e = Marker
              \/ \E w \in s.weather : e = WeatherEvent(w)
              \/ \E c \in s.control : e = ControlEvent(c)
              \/ \E c \in StatusChanges(s.control) : e = StatusEvent(c)
              \/ \E a \in s.stints : a.start # None /\ e = StintEvent(a)
              \/ \E p \in s.stops : p.enter # None /\ e = EnterEvent(p)
              \/ \E p \in s.stops : p.exit # None /\ e = ExitEvent(p)
              \/ \E p \in s.positions : e = PlaceEvent(p)
              \/ \E l \in s.laps : l.end # None /\ ~ l.deleted /\ e = LapEvent(l)
<1> DEFINE C == StatusChanges(s.control)
<1>1. Events(s) =
        {Marker}
          \cup {WeatherEvent(w) : w \in s.weather}
          \cup {ControlEvent(c) : c \in s.control}
          \cup {StatusEvent(c) : c \in C}
          \cup {StintEvent(t) : t \in {t \in s.stints : t.start # None}}
          \cup {EnterEvent(p) : p \in {p \in s.stops : p.enter # None}}
          \cup {ExitEvent(p) : p \in {p \in s.stops : p.exit # None}}
          \cup {PlaceEvent(p) : p \in s.positions}
          \cup {LapEvent(l) : l \in {l \in s.laps : l.end # None /\ ~ l.deleted}}
  BY DEF Events, LapEvents, Marker, WeatherEvent, ControlEvent, StatusEvent, StintEvent, EnterEvent,
         ExitEvent, PlaceEvent, LapEvent
<1> HIDE DEF C
<1> QED
  BY <1>1 DEF C

(* Their fields are those of their records. *)
Fields(e, k, a, d, i, j, of) ==
  e.kind = k /\ e.at = a /\ e.driver = d /\ e.tie[1] = i /\ e.tie[2] = j /\ e.of = of

(* The fields of each kind of event. *)
LEMMA EventFields ==
  /\ Fields(Marker, "marker", 0, 0, 0, 0, None)
  /\ \A w : Fields(WeatherEvent(w), "weather", w.at, 0, 0, w.id, w)
  /\ \A c : Fields(ControlEvent(c), "control", c.at, 0, c.source, c.id, c)
  /\ \A c : Fields(StatusEvent(c), "status", c.at, 0, c.source, c.id, c)
  /\ \A a : Fields(StintEvent(a), "stint", a.start, a.driver, 0, a.number, a)
  /\ \A p : Fields(EnterEvent(p), "enter", p.enter, p.driver, p.lap, Other(p.exit), p)
  /\ \A p : Fields(ExitEvent(p), "exit", p.exit, p.driver, p.lap, Other(p.enter), p)
  /\ \A p : Fields(PlaceEvent(p), "place", p.at, p.driver, 0, p.id, p)
  /\ \A l : Fields(LapEvent(l), "lap", l.end, l.driver, 0, l.id, l)
<1>1. \A k, a, d, i, j, of : Fields(Event(k, a, d, <<i, j>>, of), k, a, d, i, j, of)
  BY DEF Event, Fields
<1> QED
  BY <1>1 DEF Marker, WeatherEvent, ControlEvent, StatusEvent, StintEvent, EnterEvent, ExitEvent, PlaceEvent,
              LapEvent

(* Where one session has all of another's records up to a time, or at least what *)
(* was known of them, it has all of its events up to that time.                 *)
LapShown(l, o) ==
  /\ o.id = l.id /\ o.driver = l.driver /\ o.lap = l.lap /\ o.deleted = l.deleted /\ o.stint = l.stint
  /\ o.compound = l.compound /\ o.time = l.time /\ o.life = l.life /\ o.end = l.end
Covers(c, s, t) ==
  /\ \A w \in s.weather : w.at <= t => w \in c.weather
  /\ \A r \in s.control : r.at <= t => r \in c.control
  /\ \A r \in StatusChanges(s.control) : r.at <= t => r \in StatusChanges(c.control)
  /\ \A p \in s.positions : p.at <= t => p \in c.positions
  /\ \A a \in s.stints : a.start # None /\ a.start <= t => \E b \in c.stints : StintSame(a, b)
  /\ \A p \in s.stops : p.enter # None /\ p.enter <= t => \E r \in c.stops : EntrySame(p, r)
  /\ \A p \in s.stops : p.exit # None /\ p.exit <= t => p \in c.stops
  /\ \A l \in s.laps : l.end # None /\ l.end <= t => \E o \in c.laps : LapShown(l, o)

(* What is covered has an event alike for every event up to the time. *)
LEMMA EventsCovered ==
  ASSUME NEW s, NEW c, NEW t, Covers(c, s, t), NEW e \in Events(s), e.at <= t
  PROVE  \E f \in Events(c) : Alike(e, f)
<1> USE EventFields
<1>1. CASE e = Marker
  <2>1. Alike(e, Marker)
    BY <1>1 DEF Fields, Alike
  <2> QED
    BY <2>1, EventForms
<1>2. ASSUME NEW w \in s.weather, e = WeatherEvent(w) PROVE \E f \in Events(c) : Alike(e, f)
  <2>1. w \in c.weather
    BY <1>2 DEF Fields, Covers
  <2>2. Alike(e, WeatherEvent(w))
    BY <1>2 DEF Fields, Alike
  <2> QED
    BY <2>1, <2>2, EventForms
<1>3. ASSUME NEW r \in s.control, e = ControlEvent(r) PROVE \E f \in Events(c) : Alike(e, f)
  <2>1. r \in c.control
    BY <1>3 DEF Fields, Covers
  <2>2. Alike(e, ControlEvent(r))
    BY <1>3 DEF Fields, Alike
  <2> QED
    BY <2>1, <2>2, EventForms
<1>4. ASSUME NEW r \in StatusChanges(s.control), e = StatusEvent(r) PROVE \E f \in Events(c) : Alike(e, f)
  <2>1. r \in StatusChanges(c.control)
    BY <1>4 DEF Fields, Covers
  <2>2. Alike(e, StatusEvent(r))
    BY <1>4 DEF Fields, Alike
  <2> QED
    BY <2>1, <2>2, EventForms
<1>5. ASSUME NEW a \in s.stints, a.start # None, e = StintEvent(a) PROVE \E f \in Events(c) : Alike(e, f)
  <2>1. PICK b \in c.stints : StintSame(a, b)
    BY <1>5 DEF Fields, Covers
  <2>2. Alike(e, StintEvent(b))
    <3> DEFINE f == StintEvent(b)
    <3>1. Fields(e, "stint", a.start, a.driver, 0, a.number, a)
      BY <1>5
    <3>2. Fields(f, "stint", b.start, b.driver, 0, b.number, b)
      OBVIOUS
    <3> HIDE DEF f
    <3>3. Alike(e, f)
      BY ONLY <2>1, <3>1, <3>2 DEF Fields, Alike, StintSame
    <3> QED
      BY <3>3 DEF f
  <2>3. b.start # None
    BY <1>5, <2>1 DEF StintSame
  <2> QED
    BY <2>2, <2>3, EventForms
<1>6. ASSUME NEW p \in s.stops, p.enter # None, e = EnterEvent(p) PROVE \E f \in Events(c) : Alike(e, f)
  <2>1. PICK r \in c.stops : EntrySame(p, r)
    BY <1>6 DEF Fields, Covers
  <2>2. Alike(e, EnterEvent(r))
    <3> DEFINE f == EnterEvent(r)
    <3>1. Fields(e, "enter", p.enter, p.driver, p.lap, Other(p.exit), p)
      BY <1>6
    <3>2. Fields(f, "enter", r.enter, r.driver, r.lap, Other(r.exit), r)
      OBVIOUS
    <3> HIDE DEF f
    <3>3. Alike(e, f)
      BY ONLY <2>1, <3>1, <3>2 DEF Fields, Alike, EntrySame
    <3> QED
      BY <3>3 DEF f
  <2>3. r.enter # None
    BY <1>6, <2>1 DEF EntrySame
  <2> QED
    BY <2>2, <2>3, EventForms
<1>7. ASSUME NEW p \in s.stops, p.exit # None, e = ExitEvent(p) PROVE \E f \in Events(c) : Alike(e, f)
  <2>1. p \in c.stops
    BY <1>7 DEF Fields, Covers
  <2>2. Alike(e, ExitEvent(p))
    BY <1>7 DEF Fields, Alike
  <2> QED
    BY <1>7, <2>1, <2>2, EventForms
<1>8. ASSUME NEW p \in s.positions, e = PlaceEvent(p) PROVE \E f \in Events(c) : Alike(e, f)
  <2>1. p \in c.positions
    BY <1>8 DEF Fields, Covers
  <2>2. Alike(e, PlaceEvent(p))
    BY <1>8 DEF Fields, Alike
  <2> QED
    BY <2>1, <2>2, EventForms
<1>9. ASSUME NEW l \in s.laps, l.end # None, ~ l.deleted, e = LapEvent(l) PROVE \E f \in Events(c) : Alike(e, f)
  <2>1. PICK o \in c.laps : LapShown(l, o)
    BY <1>9 DEF Fields, Covers
  <2>2. Alike(e, LapEvent(o))
    <3> DEFINE f == LapEvent(o)
    <3>1. Fields(e, "lap", l.end, l.driver, 0, l.id, l)
      BY <1>9
    <3>2. Fields(f, "lap", o.end, o.driver, 0, o.id, o)
      OBVIOUS
    <3> HIDE DEF f
    <3>3. Alike(e, f)
      BY ONLY <2>1, <3>1, <3>2 DEF Fields, Alike, LapShown
    <3> QED
      BY <3>3 DEF f
  <2>3. o.end # None /\ ~ o.deleted
    BY <1>9, <2>1 DEF LapShown
  <2> QED
    BY <2>2, <2>3, EventForms
<1> QED
  BY <1>1, <1>2, <1>3, <1>4, <1>5, <1>6, <1>7, <1>8, <1>9, EventForms

(* No event is later than the times of the records. *)
ByThen(c, t) ==
  /\ \A w \in c.weather : w.at <= t
  /\ \A r \in c.control : r.at <= t
  /\ \A p \in c.positions : p.at <= t
  /\ \A a \in c.stints : a.start # None => a.start <= t
  /\ \A p \in c.stops : (p.enter # None => p.enter <= t) /\ (p.exit # None => p.exit <= t)
  /\ \A l \in c.laps : l.end # None => l.end <= t

(* When each kind of event is. *)
LEMMA EventTimes ==
  /\ Marker.at = 0
  /\ \A w : WeatherEvent(w).at = w.at
  /\ \A c : ControlEvent(c).at = c.at /\ StatusEvent(c).at = c.at
  /\ \A a : StintEvent(a).at = a.start
  /\ \A p : EnterEvent(p).at = p.enter /\ ExitEvent(p).at = p.exit
  /\ \A p : PlaceEvent(p).at = p.at
  /\ \A l : LapEvent(l).at = l.end
<1>1. \A k, a, d, i, of : Event(k, a, d, i, of).at = a
  BY DEF Event
<1> QED
  BY <1>1, SMT DEF Marker, WeatherEvent, ControlEvent, StatusEvent, StintEvent, EnterEvent, ExitEvent, PlaceEvent,
                   LapEvent

(* The events of records up to a time are events up to it. *)
LEMMA EventsByThen ==
  ASSUME NEW c, NEW t \in Nat, ByThen(c, t), NEW e \in Events(c)
  PROVE  e.at <= t
<1>1. StatusChanges(c.control) \subseteq c.control
  BY DEF StatusChanges
<1>2. ASSUME e = Marker PROVE e.at <= t
  <2>1. e.at = 0
    BY <1>2, EventTimes
  <2> QED
    BY <2>1
<1>3. ASSUME NEW w \in c.weather, e = WeatherEvent(w) PROVE e.at <= t
  BY <1>3, EventTimes, Zenon DEF ByThen
<1>4. ASSUME NEW r \in c.control, e = ControlEvent(r) \/ e = StatusEvent(r) PROVE e.at <= t
  <2>1. e.at = r.at
    BY <1>4, EventTimes, Zenon
  <2>2. r.at <= t
    BY DEF ByThen
  <2> QED
    BY <2>1, <2>2
<1>5. ASSUME NEW a \in c.stints, a.start # None, e = StintEvent(a) PROVE e.at <= t
  BY <1>5, EventTimes, Zenon DEF ByThen
<1>6. ASSUME NEW p \in c.stops, p.enter # None, e = EnterEvent(p) PROVE e.at <= t
  BY <1>6, EventTimes, Zenon DEF ByThen
<1>7. ASSUME NEW p \in c.stops, p.exit # None, e = ExitEvent(p) PROVE e.at <= t
  BY <1>7, EventTimes, Zenon DEF ByThen
<1>8. ASSUME NEW p \in c.positions, e = PlaceEvent(p) PROVE e.at <= t
  BY <1>8, EventTimes, Zenon DEF ByThen
<1>9. ASSUME NEW l \in c.laps, l.end # None, e = LapEvent(l) PROVE e.at <= t
  BY <1>9, EventTimes, Zenon DEF ByThen
<1>10. \/ e = Marker
       \/ \E w \in c.weather : e = WeatherEvent(w)
       \/ \E r \in c.control : e = ControlEvent(r) \/ e = StatusEvent(r)
       \/ \E a \in c.stints : a.start # None /\ e = StintEvent(a)
       \/ \E p \in c.stops : p.enter # None /\ e = EnterEvent(p)
       \/ \E p \in c.stops : p.exit # None /\ e = ExitEvent(p)
       \/ \E p \in c.positions : e = PlaceEvent(p)
       \/ \E l \in c.laps : l.end # None /\ e = LapEvent(l)
  BY <1>1, EventForms
<1> QED
  BY <1>2, <1>3, <1>4, <1>5, <1>6, <1>7, <1>8, <1>9, <1>10

(* So it is with a session and the one that ends at a time. *)
LEMMA CutCovers ==
  ASSUME NEW rs, Tabled(Derived(rs)), Columns(rs.laps), TyresOfFirst(rs.laps), NEW t \in Nat
  PROVE  /\ Covers(Derived(Cut(rs, t)), Derived(rs), t)
         /\ Covers(Derived(rs), Derived(Cut(rs, t)), t)
         /\ ByThen(Derived(Cut(rs, t)), t)
<1> DEFINE s == Derived(rs)
           k == Cut(rs, t)
           c == Derived(k)
           laps == rs.laps
           cut == LapsAt(laps, t)
           known == {r \in rs.control : r.at <= t}
<1>1. /\ s.laps = laps /\ s.weather = rs.weather /\ s.control = rs.control /\ s.positions = rs.positions
      /\ s.stints = Stints(laps) /\ s.stops = Stops(laps)
      /\ c.laps = k.laps /\ c.weather = k.weather /\ c.control = k.control /\ c.positions = k.positions
      /\ c.stints = Stints(k.laps) /\ c.stops = Stops(k.laps)
  BY DEF Derived
<1>2. /\ k.laps = cut /\ k.weather = {w \in rs.weather : w.at <= t}
      /\ k.control = known /\ k.positions = {p \in rs.positions : p.at <= t}
  BY CutIs
<1>3. Tabled(s)
  OBVIOUS
<1> HIDE DEF s, k, c
<1>4. LapTable(laps) /\ \A r \in rs.control : r.at \in Nat /\ r.id \in Nat
  BY <1>1, <1>3 DEF Tabled
<1> HIDE DEF laps, cut, known
<1>5. StatusChanges(known) = {r \in StatusChanges(rs.control) : r.at <= t}
  BY <1>4, StatusKnown DEF known
<1>6. {p \in Stops(laps) : p.exit # None /\ p.exit <= t} = {p \in Stops(cut) : p.exit # None}
  BY <1>4, ExitsKnown DEF cut, laps
<1>7. /\ \A p \in Stops(laps) : p.enter # None /\ p.enter <= t => \E r \in Stops(cut) : EntrySame(p, r)
      /\ \A r \in Stops(cut) : r.enter # None => r.enter <= t /\ \E p \in Stops(laps) : EntrySame(p, r)
  BY <1>4, EntriesKnown DEF cut, laps
<1>8. /\ \A a \in Stints(laps) : a.start # None /\ a.start <= t => \E b \in Stints(cut) : StintSame(a, b)
      /\ \A b \in Stints(cut) : b.start # None => b.start <= t /\ \E a \in Stints(laps) : StintSame(a, b)
  BY <1>4, StintsKnown DEF cut, laps
<1>9. /\ \A l \in laps : LapSame(LapAt(l, t), l, t)
      /\ \A l \in laps : Shows(l, t) => LapAt(l, t) \in cut
      /\ \A o \in cut : \E l \in laps : o = LapAt(l, t)
  BY <1>4, LapsAtTable DEF cut, laps
<1>10. \A l \in laps : l.end \in Maybe(Nat)
  BY <1>4 DEF LapTable, Lap
<1>11. \A l \in laps : l.end # None /\ l.end <= t => \E o \in cut : LapShown(l, o)
  <2> SUFFICES ASSUME NEW l \in laps, l.end # None, l.end <= t PROVE \E o \in cut : LapShown(l, o)
    OBVIOUS
  <2>1. Seen(l.end, t) = l.end
    BY DEF Seen
  <2>2. Shows(l, t)
    BY <2>1 DEF Shows
  <2>3. LapShown(l, LapAt(l, t))
    BY <1>9, <2>1 DEF LapSame, LapShown
  <2> QED
    BY <1>9, <2>2, <2>3
<1>12. \A o \in cut : o.end # None => o.end <= t /\ \E l \in laps : LapShown(o, l)
  <2> SUFFICES ASSUME NEW o \in cut, o.end # None PROVE o.end <= t /\ \E l \in laps : LapShown(o, l)
    OBVIOUS
  <2>1. PICK l \in laps : o = LapAt(l, t)
    BY <1>9
  <2>2. LapSame(o, l, t) /\ o.end = Seen(l.end, t)
    BY <1>9, <2>1 DEF LapSame
  <2>3. o.end = l.end /\ o.end <= t
    BY <1>10, <2>2, SeenIs
  <2>4. LapShown(o, l)
    BY <2>2, <2>3 DEF LapSame, LapShown
  <2> QED
    BY <2>3, <2>4
<1>13. Covers(c, s, t)
  BY <1>1, <1>2, <1>5, <1>6, <1>7, <1>8, <1>11 DEF Covers, known
<1>14. \A p, r : EntrySame(p, r) => EntrySame(r, p)
  BY DEF EntrySame
<1>15. \A a, b : StintSame(a, b) => StintSame(b, a)
  BY DEF StintSame
<1>16. Covers(s, c, t)
  <2>1. \A w \in c.weather : w \in s.weather
    BY <1>1, <1>2
  <2>2. \A r \in c.control : r \in s.control
    BY <1>1, <1>2 DEF known
  <2>3. \A r \in StatusChanges(c.control) : r \in StatusChanges(s.control)
    BY <1>1, <1>2, <1>5
  <2>4. \A p \in c.positions : p \in s.positions
    BY <1>1, <1>2
  <2>5. \A b \in c.stints : b.start # None => \E a \in s.stints : StintSame(b, a)
    BY <1>1, <1>2, <1>8, <1>15
  <2>6. \A r \in c.stops : r.enter # None => \E p \in s.stops : EntrySame(r, p)
    BY <1>1, <1>2, <1>7, <1>14
  <2>7. \A p \in c.stops : p.exit # None => p \in s.stops
    BY <1>1, <1>2, <1>6
  <2>8. \A o \in c.laps : o.end # None => \E l \in s.laps : LapShown(o, l)
    BY <1>1, <1>2, <1>12
  <2> QED
    BY <2>1, <2>2, <2>3, <2>4, <2>5, <2>6, <2>7, <2>8 DEF Covers
<1>17. ByThen(c, t)
  BY <1>1, <1>2, <1>6, <1>7, <1>8, <1>12 DEF ByThen, known
<1> QED
  BY <1>13, <1>16, <1>17 DEF s, c, k

(* The place of an event in the order, without the end of a pit stop: it is     *)
(* decided without, for no driver begins two stops at once on one lap.          *)
Code(e) == <<e.at, Priority[e.kind], e.driver, e.tie[1], IF e.kind = "enter" THEN 0 ELSE e.tie[2]>>

(* Codes tell the events apart and keep their order. *)
LEMMA CodesKeyed ==
  ASSUME NEW s, Tabled(s), s.stops = Stops(s.laps)
  PROVE  /\ \A e \in Events(s) : Code(e) \in Keys(5)
         /\ \A e, f \in Events(s) : Code(e) = Code(f) => e = f
         /\ \A e, f \in Events(s) : Before(EventKey(s)[e], EventKey(s)[f]) => Before(Code(e), Code(f))
<1> DEFINE key == EventKey(s)
           Fifth(e) == IF e.kind = "enter" THEN 0 ELSE e.tie[2]
<1>1. \A e \in Events(s) :
        /\ e.kind \in Kinds /\ key[e] \in Keys(5)
        /\ e.at \in Nat /\ e.driver \in Nat /\ e.tie[1] \in Nat /\ e.tie[2] \in Nat
        /\ key[e][1] = e.at /\ key[e][2] = Priority[e.kind] /\ key[e][3] = e.driver
        /\ key[e][4] = e.tie[1] /\ key[e][5] = e.tie[2]
  BY EventsKeyed DEF EventRow
<1>2. \A e, f \in Events(s) : key[e] = key[f] => e = f
  BY EventsKeyed
<1>3. /\ \A k \in Kinds : Priority[k] \in Nat
      /\ \A k, m \in Kinds : Priority[k] = Priority[m] => k = m
  BY PriorityTellsApart
<1> HIDE DEF key
<1>4. ASSUME NEW e \in Events(s)
      PROVE  /\ Code(e) \in Keys(5)
             /\ Code(e)[1] = e.at /\ Code(e)[2] = Priority[e.kind] /\ Code(e)[3] = e.driver
             /\ Code(e)[4] = e.tie[1] /\ Code(e)[5] = Fifth(e)
  <2> DEFINE a == e.at
             b == Priority[e.kind]
             c == e.driver
             i == e.tie[1]
             j == Fifth(e)
  <2>1. a \in Int /\ b \in Int /\ c \in Int /\ i \in Int /\ j \in Int
    BY <1>1, <1>3
  <2>2. Code(e) = <<a, b, c, i, j>>
    BY DEF Code
  <2> HIDE DEF a, b, c, i, j
  <2>3. Code(e) \in Keys(5)
    BY <2>1, <2>2 DEF Keys
  <2>4. Code(e)[1] = a /\ Code(e)[2] = b /\ Code(e)[3] = c /\ Code(e)[4] = i /\ Code(e)[5] = j
    BY <2>2
  <2> QED
    BY <2>3, <2>4 DEF a, b, c, i, j
<1>5. ASSUME NEW e \in Events(s), e.kind = "enter"
      PROVE  \E p \in s.stops : /\ p.enter # None /\ e = EnterEvent(p)
                                /\ e.at = p.enter /\ e.driver = p.driver /\ e.tie[1] = p.lap
  <2>1. PICK p \in s.stops : p.enter # None /\ e = EnterEvent(p)
    <3>1. /\ Marker.kind = "marker" /\ \A w : WeatherEvent(w).kind = "weather"
          /\ \A c : ControlEvent(c).kind = "control" /\ StatusEvent(c).kind = "status"
          /\ \A a : StintEvent(a).kind = "stint" /\ \A p : ExitEvent(p).kind = "exit"
          /\ \A p : PlaceEvent(p).kind = "place" /\ \A l : LapEvent(l).kind = "lap"
      BY EventFields DEF Fields
    <3> QED
      BY <1>5, <3>1, EventForms
  <2>2. Fields(e, "enter", p.enter, p.driver, p.lap, Other(p.exit), p)
    BY <2>1, EventFields
  <2> QED
    BY <2>1, <2>2 DEF Fields
<1>6. ASSUME NEW e \in Events(s), NEW f \in Events(s), Code(e) = Code(f) PROVE e = f
  <2>1. /\ e.at = f.at /\ Priority[e.kind] = Priority[f.kind] /\ e.driver = f.driver
        /\ e.tie[1] = f.tie[1] /\ Fifth(e) = Fifth(f)
    BY <1>4, <1>6
  <2>2. e.kind = f.kind
    BY <1>1, <1>3, <2>1
  <2>3. CASE e.kind = "enter"
    <3>1. PICK p \in s.stops : p.enter # None /\ e = EnterEvent(p)
                               /\ e.at = p.enter /\ e.driver = p.driver /\ e.tie[1] = p.lap
      BY <1>5, <2>3
    <3>2. PICK r \in s.stops : f = EnterEvent(r) /\ f.at = r.enter /\ f.driver = r.driver /\ f.tie[1] = r.lap
      BY <1>5, <2>2, <2>3
    <3>3. p = r
      BY <2>1, <3>1, <3>2, OneStopPerEntry DEF Tabled
    <3> QED
      BY <3>1, <3>2, <3>3
  <2>4. CASE e.kind # "enter"
    <3>1. e.tie[2] = f.tie[2]
      BY <2>1, <2>2, <2>4
    <3>2. \A i \in 1..5 : key[e][i] = key[f][i]
      <4> SUFFICES ASSUME NEW i \in 1..5 PROVE key[e][i] = key[f][i]
        OBVIOUS
      <4>1. i = 1 \/ i = 2 \/ i = 3 \/ i = 4 \/ i = 5
        OBVIOUS
      <4> QED
        BY <1>1, <2>1, <3>1, <4>1
    <3>3. key[e] = key[f]
      BY <1>1, <3>2 DEF Keys
    <3> QED
      BY <1>2, <3>3
  <2> QED
    BY <2>3, <2>4
<1>7. ASSUME NEW e \in Events(s), NEW f \in Events(s), Before(key[e], key[f]) PROVE Before(Code(e), Code(f))
  <2>1. key[e] \in Keys(5) /\ key[f] \in Keys(5) /\ DOMAIN key[e] = 1..5 /\ DOMAIN Code(e) = 1..5
    BY <1>1, <1>4 DEF Keys
  <2>2. PICK i \in 1..5 : key[e][i] < key[f][i] /\ \A j \in 1..(i - 1) : key[e][j] = key[f][j]
    BY <1>7, <2>1 DEF Before
  <2>3. \A j \in 1..4 : Code(e)[j] = key[e][j] /\ Code(f)[j] = key[f][j]
    <3> SUFFICES ASSUME NEW j \in 1..4 PROVE Code(e)[j] = key[e][j] /\ Code(f)[j] = key[f][j]
      OBVIOUS
    <3>1. j = 1 \/ j = 2 \/ j = 3 \/ j = 4
      OBVIOUS
    <3> QED
      BY <1>1, <1>4, <3>1
  <2>4. CASE i \in 1..4
    <3>1. Code(e)[i] < Code(f)[i] /\ \A j \in 1..(i - 1) : Code(e)[j] = Code(f)[j]
      BY <2>2, <2>3, <2>4
    <3> QED
      BY <2>1, <2>2, <3>1 DEF Before
  <2>5. CASE i = 5
    <3>1. \A j \in 1..4 : Code(e)[j] = Code(f)[j]
      BY <2>2, <2>3, <2>5
    <3>2. e.tie[2] < f.tie[2]
      BY <1>1, <2>2, <2>5
    <3>3. Code(e)[2] = Code(f)[2] /\ Code(e)[2] = Priority[e.kind] /\ Code(f)[2] = Priority[f.kind]
      BY <1>4, <3>1
    <3>4. e.kind = f.kind
      BY <1>1, <1>3, <3>3
    <3>5. CASE e.kind = "enter"
      <4>1. \A j \in 1..5 : Code(e)[j] = Code(f)[j]
        <5>1. Code(e)[5] = Code(f)[5]
          BY <1>4, <3>4, <3>5
        <5>2. \A j \in 1..5 : j \in 1..4 \/ j = 5
          OBVIOUS
        <5> QED
          BY <3>1, <5>1, <5>2
      <4>2. Code(e) = Code(f)
        BY <1>4, <4>1 DEF Keys
      <4>3. e = f
        BY <1>6, <4>2
      <4> QED
        BY <1>1, <3>2, <4>3
    <3>6. CASE e.kind # "enter"
      <4>1. Code(e)[5] < Code(f)[5]
        BY <1>4, <3>2, <3>4, <3>6
      <4> QED
        BY <2>1, <3>1, <4>1 DEF Before
    <3> QED
      BY <3>5, <3>6
  <2> QED
    BY <2>4, <2>5
<1> QED
  BY <1>4, <1>6, <1>7 DEF key

(* Alike events have one code. *)
LEMMA AlikeCodes ==
  ASSUME NEW e, NEW f, Alike(e, f)
  PROVE  Code(e) = Code(f)
<1>1. /\ e.kind = f.kind /\ e.at = f.at /\ e.driver = f.driver
      /\ e.tie[1] = f.tie[1] /\ (e.kind # "enter" => e.tie[2] = f.tie[2])
  BY DEF Alike
<1> QED
  BY <1>1 DEF Code

(* The timeline lists its events with their codes rising. *)
LEMMA TimelineRising ==
  ASSUME NEW s, Tabled(s), s.stops = Stops(s.laps)
  PROVE  LET q == Timeline(s)
         IN /\ \A i \in 1..Len(q) : Code(q[i]) \in Keys(5)
            /\ \A i, j \in 1..Len(q) : i < j => Before(Code(q[i]), Code(q[j]))
<1> DEFINE q == Timeline(s)
           key == EventKey(s)
<1>1. q = Ordered(key) /\ DOMAIN key = Events(s)
  BY DEF Timeline, EventKey
<1>2. Lists(q, key)
  <2> HIDE DEF key
  <2> QED
    BY <1>1, EventsKeyed, OrderedLists DEF key
<1>3. \A i \in 1..Len(q) : q[i] \in Events(s)
  BY TimelineSorted
<1> HIDE DEF q
<1>4. \A i, j \in 1..Len(q) : i < j => Before(key[q[i]], key[q[j]])
  BY <1>2 DEF Lists
<1> HIDE DEF key
<1>5. \A i \in 1..Len(q) : Code(q[i]) \in Keys(5)
  BY <1>3, CodesKeyed
<1>6. \A i, j \in 1..Len(q) : i < j => Before(Code(q[i]), Code(q[j]))
  BY <1>3, <1>4, CodesKeyed DEF key
<1> QED
  BY <1>5, <1>6 DEF q

(* The timeline of the session that ends there is the beginning of that of the  *)
(* whole, event by event.                                                       *)
LEMMA TimelineBegins ==
  ASSUME NEW s, Tabled(s), s.stops = Stops(s.laps), NEW c, Tabled(c), c.stops = Stops(c.laps),
         NEW t \in Nat, Covers(c, s, t), Covers(s, c, t), ByThen(c, t),
         NEW n \in 0..Len(Timeline(s)), \A i \in DOMAIN Timeline(s) : Timeline(s)[i].at <= t <=> i <= n
  PROVE  /\ Len(Timeline(c)) = n
         /\ \A i \in 1..n : Timeline(s)[i].kind \in Kinds /\ Alike(Timeline(s)[i], Timeline(c)[i])
<1> DEFINE q == Timeline(s)
           p == Timeline(c)
           k == Len(p)
           a == [i \in 1..n |-> Code(q[i])]
           b == [i \in 1..k |-> Code(p[i])]
<1>1. /\ Len(q) \in Nat /\ DOMAIN q = 1..Len(q)
      /\ \A i \in 1..Len(q) : q[i] \in Events(s)
      /\ \A e \in Events(s) : \E i \in 1..Len(q) : q[i] = e
  BY TimelineSorted
<1>2. /\ k \in Nat
      /\ \A i \in 1..k : p[i] \in Events(c)
      /\ \A e \in Events(c) : \E i \in 1..k : p[i] = e
  BY TimelineSorted
<1>3. /\ \A i \in 1..Len(q) : Code(q[i]) \in Keys(5)
      /\ \A i, j \in 1..Len(q) : i < j => Before(Code(q[i]), Code(q[j]))
  BY TimelineRising
<1>4. /\ \A i \in 1..k : Code(p[i]) \in Keys(5)
      /\ \A i, j \in 1..k : i < j => Before(Code(p[i]), Code(p[j]))
  BY TimelineRising
<1>5. \A i \in DOMAIN q : q[i].at <= t <=> i <= n
  OBVIOUS
<1>6. \A e \in Events(s) : e.kind \in Kinds
  BY EventsKeyed
<1> HIDE DEF q, p, k
<1>7. n \in Nat /\ \A i \in 1..n : i \in 1..Len(q) /\ q[i].at <= t
  BY <1>1, <1>5 DEF q
<1>8. Rising(a, n, 5) /\ Rising(b, k, 5)
  BY <1>3, <1>4, <1>7 DEF Rising
<1>9. ASSUME NEW i \in 1..n PROVE \E f \in Events(c) : Alike(q[i], f)
  BY <1>1, <1>7, EventsCovered
<1>10. ASSUME NEW j \in 1..k PROVE \E i \in 1..n : Code(q[i]) = Code(p[j])
  <2>1. p[j] \in Events(c) /\ p[j].at <= t
    BY <1>2, EventsByThen
  <2>2. PICK e \in Events(s) : Alike(p[j], e)
    BY <2>1, EventsCovered
  <2>3. PICK i \in 1..Len(q) : q[i] = e
    BY <1>1
  <2>4. q[i].at <= t /\ Code(q[i]) = Code(p[j])
    BY <2>1, <2>2, <2>3, AlikeCodes DEF Alike
  <2>5. i \in 1..n
    BY <1>1, <1>5, <1>7, <2>3, <2>4
  <2> QED
    BY <2>4, <2>5
<1>11. ASSUME NEW i \in 1..n PROVE InRange(a[i], b, k)
  <2>1. PICK f \in Events(c) : Alike(q[i], f)
    BY <1>9
  <2>2. PICK j \in 1..k : p[j] = f
    BY <1>2
  <2>3. b[j] = a[i]
    BY <2>1, <2>2, AlikeCodes
  <2> QED
    BY <2>3 DEF InRange
<1>12. ASSUME NEW j \in 1..k PROVE InRange(b[j], a, n)
  <2>1. PICK i \in 1..n : Code(q[i]) = Code(p[j])
    BY <1>10
  <2>2. a[i] = b[j]
    BY <2>1
  <2> QED
    BY <2>2 DEF InRange
<1>13. \A i \in 1..n : a[i] = Code(q[i])
  OBVIOUS
<1>14. \A i \in 1..k : b[i] = Code(p[i])
  OBVIOUS
<1> HIDE DEF a, b
<1>15. n = k /\ \A i \in 1..n : a[i] = b[i]
  BY <1>2, <1>7, <1>8, <1>11, <1>12, RisingSame
<1>16. ASSUME NEW i \in 1..n PROVE q[i].kind \in Kinds /\ Alike(q[i], p[i])
  <2>1. PICK f \in Events(c) : Alike(q[i], f)
    BY <1>9
  <2>2. i \in 1..k /\ p[i] \in Events(c) /\ Code(p[i]) = Code(q[i])
    BY <1>2, <1>13, <1>14, <1>15
  <2>3. Code(f) = Code(p[i])
    BY <2>1, <2>2, AlikeCodes
  <2>4. f = p[i]
    BY <2>2, <2>3, CodesKeyed
  <2> QED
    BY <1>1, <1>6, <1>7, <2>1, <2>4
<1> QED
  BY <1>15, <1>16 DEF q, p, k

(* So they make one state. *)
LEMMA StatesBegin ==
  ASSUME NEW s, Tabled(s), s.stops = Stops(s.laps), NEW c, Tabled(c), c.stops = Stops(c.laps),
         NEW t \in Nat, Covers(c, s, t), Covers(s, c, t), ByThen(c, t),
         NEW n \in 0..Len(Timeline(s)), \A i \in DOMAIN Timeline(s) : Timeline(s)[i].at <= t <=> i <= n
  PROVE  States(Timeline(s), n) = Replayed(Fresh, Timeline(c))
<1> DEFINE q == Timeline(s)
           p == Timeline(c)
<1>1. Len(q) \in Nat /\ Len(p) \in Nat /\ DOMAIN p = 1..Len(p)
  BY TimelineSorted
<1>2. /\ Len(p) = n
      /\ \A i \in 1..n : q[i].kind \in Kinds /\ Alike(q[i], p[i])
  BY TimelineBegins
<1>3. n \in Nat
  BY <1>1
<1> HIDE DEF q, p
<1>4. States(q, n) = States(p, n)
  BY <1>2, <1>3, AlikeStates
<1>5. DOMAIN p = 1..n /\ DOMAIN p \in SUBSET Int /\ IsFiniteSet(DOMAIN p)
  BY <1>1, <1>2, <1>3, FS_Interval
<1>6. Replayed(Fresh, p) = States(p, n)
  BY <1>5, ReplayedFold DEF States
<1> QED
  BY <1>4, <1>6 DEF q, p

(* A cursor, as the position and the lap it is made of. *)
LeadsAt(positions, p) ==
  \A o \in positions : o.place = 1 /\ o.lap = p.lap => ~ Before(<<o.at, o.driver>>, <<p.at, p.driver>>)
Leading(s, p, l) ==
  /\ p \in s.positions /\ l \in s.laps
  /\ p.place = 1 /\ p.lap # None /\ LeadsAt(s.positions, p)
  /\ l.driver = p.driver /\ l.lap = p.lap
  /\ l.start # None /\ l.start <= p.at
LapsLed(s, t) == {c.lap : c \in {c \in Cursors(s) : c.end <= t}}

(* The laps of the cursors are those led by a position up to the time. *)
LEMMA LapsLedAre ==
  ASSUME NEW s, NEW t
  PROVE  \A n : n \in LapsLed(s, t) <=> \E p, l : Leading(s, p, l) /\ p.at <= t /\ n = p.lap
<1> DEFINE Led(p) == {l \in s.laps :
             /\ p.place = 1 /\ p.lap # None /\ LeadsAt(s.positions, p)
             /\ l.driver = p.driver /\ l.lap = p.lap
             /\ l.start # None /\ l.start <= p.at}
           Cursor(p, l) == [lap |-> p.lap, driver |-> p.driver, start |-> l.start, end |-> p.at]
           Of(p) == {Cursor(p, l) : l \in Led(p)}
<1>1. Cursors(s) = UNION {Of(p) : p \in s.positions}
  BY DEF Cursors, LeadsAt
<1>2. \A p \in s.positions : \A l : l \in Led(p) <=> Leading(s, p, l)
  BY DEF Leading
<1>3. \A p, l : Cursor(p, l).lap = p.lap /\ Cursor(p, l).end = p.at
  OBVIOUS
<1> HIDE DEF Led, Cursor
<1>4. \A c : c \in Cursors(s) <=> \E p, l : Leading(s, p, l) /\ c = Cursor(p, l)
  <2>1. \A c : c \in Cursors(s) <=> \E p \in s.positions : c \in Of(p)
    BY <1>1
  <2>2. \A p, l : Leading(s, p, l) => p \in s.positions
    BY DEF Leading
  <2> QED
    BY <1>2, <2>1, <2>2
<1>5. \A n : n \in LapsLed(s, t) <=> \E c \in Cursors(s) : c.end <= t /\ n = c.lap
  BY DEF LapsLed
<1> QED
  BY <1>3, <1>4, <1>5

(* The laps led up to a time are known then. *)
LEMMA LedByThen ==
  ASSUME NEW rs, Tabled(Derived(rs)), Columns(rs.laps), NEW t \in Nat
  PROVE  LapsLed(Derived(rs), t) = LapsLed(Derived(Cut(rs, t)), t)
<1> DEFINE s == Derived(rs)
           k == Cut(rs, t)
           c == Derived(k)
           laps == rs.laps
           cut == LapsAt(laps, t)
<1>1. /\ s.laps = laps /\ s.positions = rs.positions
      /\ c.laps = k.laps /\ c.positions = k.positions
  BY DEF Derived
<1>2. k.laps = cut /\ k.positions = {p \in rs.positions : p.at <= t}
  BY CutIs
<1>3. Tabled(s)
  OBVIOUS
<1> HIDE DEF s, k, c
<1>4. LapTable(laps)
  BY <1>1, <1>3 DEF Tabled
<1>5. \A p \in s.positions : p.at \in Nat /\ p.driver \in Nat
  BY <1>3 DEF Tabled
<1> HIDE DEF laps, cut
<1>6. /\ \A l \in laps : LapSame(LapAt(l, t), l, t)
      /\ \A l \in laps : Shows(l, t) => LapAt(l, t) \in cut
      /\ \A o \in cut : \E l \in laps : o = LapAt(l, t)
      /\ \A l \in laps : l.start \in Maybe(Nat)
  BY <1>4, LapsAtTable DEF cut, laps, LapTable, Lap
<1>7. \A p \in s.positions : p.at <= t => (LeadsAt(s.positions, p) <=> LeadsAt(c.positions, p))
  <2> SUFFICES ASSUME NEW p \in s.positions, p.at <= t
               PROVE  LeadsAt(s.positions, p) <=> LeadsAt(c.positions, p)
    OBVIOUS
  <2>1. ASSUME NEW o \in s.positions, Before(<<o.at, o.driver>>, <<p.at, p.driver>>) PROVE o \in c.positions
    <3> DEFINE x == <<o.at, o.driver>>
               y == <<p.at, p.driver>>
    <3>1. o.at \in Nat /\ p.at \in Nat /\ x \in Keys(2) /\ y \in Keys(2) /\ x[1] = o.at /\ y[1] = p.at
      BY <1>5 DEF Keys
    <3>2. Before(x, y)
      BY <2>1
    <3> HIDE DEF x, y
    <3>3. o.at <= p.at
      BY <3>1, <3>2, BeforeFirst
    <3>4. o.at <= t
      BY <3>1, <3>3
    <3> QED
      BY <1>1, <1>2, <3>4
  <2>2. c.positions \subseteq s.positions
    BY <1>1, <1>2
  <2> QED
    BY <2>1, <2>2 DEF LeadsAt
<1>8. ASSUME NEW p, NEW l, Leading(s, p, l), p.at <= t
      PROVE  \E o : Leading(c, p, o)
  <2> DEFINE o == LapAt(l, t)
  <2>1. /\ p \in s.positions /\ l \in laps /\ p.place = 1 /\ p.lap # None /\ LeadsAt(s.positions, p)
        /\ l.driver = p.driver /\ l.lap = p.lap /\ l.start # None /\ l.start <= p.at
    BY <1>1, <1>8 DEF Leading
  <2>2. l.start \in Nat /\ p.at \in Nat
    BY <1>5, <1>6, <2>1 DEF Maybe
  <2>3. l.start <= t
    BY <1>8, <2>1, <2>2
  <2>4. Seen(l.start, t) = l.start
    BY <2>1, <2>3 DEF Seen
  <2>5. Shows(l, t)
    BY <2>1, <2>4 DEF Shows
  <2>6. o \in c.laps /\ o.driver = p.driver /\ o.lap = p.lap /\ o.start = l.start
    BY <1>1, <1>2, <1>6, <2>1, <2>4, <2>5 DEF LapSame
  <2>7. p \in c.positions /\ LeadsAt(c.positions, p)
    BY <1>1, <1>2, <1>7, <1>8, <2>1
  <2> HIDE DEF o
  <2> QED
    BY <2>1, <2>6, <2>7 DEF Leading
<1>9. ASSUME NEW p, NEW o, Leading(c, p, o)
      PROVE  \E l : Leading(s, p, l)
  <2>1. /\ p \in c.positions /\ o \in cut /\ p.place = 1 /\ p.lap # None /\ LeadsAt(c.positions, p)
        /\ o.driver = p.driver /\ o.lap = p.lap /\ o.start # None /\ o.start <= p.at
    BY <1>1, <1>2, <1>9 DEF Leading
  <2>2. PICK l \in laps : o = LapAt(l, t)
    BY <1>6, <2>1
  <2>3. l.driver = o.driver /\ l.lap = o.lap /\ o.start = Seen(l.start, t)
    BY <1>6, <2>2 DEF LapSame
  <2>4. l.start = o.start
    BY <1>6, <2>1, <2>3, SeenIs
  <2>5. p \in s.positions /\ LeadsAt(s.positions, p)
    BY <1>1, <1>2, <1>7, <2>1
  <2> QED
    BY <1>1, <2>1, <2>2, <2>3, <2>4, <2>5 DEF Leading
<1>10. \A p, o : Leading(c, p, o) => p.at <= t
  BY <1>1, <1>2 DEF Leading
<1>11. \A n : n \in LapsLed(s, t) <=> n \in LapsLed(c, t)
  BY <1>8, <1>9, <1>10, LapsLedAre
<1> QED
  BY <1>11 DEF s, c, k

(* The answer is that of the session that ends there. *)
LEMMA AnsweredByThen ==
  ASSUME NEW rs, Tabled(Derived(rs)), Columns(rs.laps), TyresOfFirst(rs.laps), NEW t \in Nat,
         NEW n \in 0..Len(Timeline(Derived(rs))),
         \A i \in DOMAIN Timeline(Derived(rs)) : Timeline(Derived(rs))[i].at <= t <=> i <= n
  PROVE  LET s == Derived(rs)
             c == Derived(Cut(rs, t))
         IN /\ States(Timeline(s), n) = Replayed(Fresh, Timeline(c))
            /\ ReferenceLap(Cursors(s), t) = ReferenceLap(Cursors(c), t)
<1> DEFINE s == Derived(rs)
           k == Cut(rs, t)
           c == Derived(k)
<1>1. /\ Tabled(s) /\ s.stops = Stops(s.laps) /\ c.stops = Stops(c.laps)
  BY DEF Derived
<1>2. Tabled(c)
  BY CutTabled
<1>3. Covers(c, s, t) /\ Covers(s, c, t) /\ ByThen(c, t)
  BY CutCovers
<1>4. n \in 0..Len(Timeline(s)) /\ \A i \in DOMAIN Timeline(s) : Timeline(s)[i].at <= t <=> i <= n
  OBVIOUS
<1>5. LapsLed(s, t) = LapsLed(c, t)
  BY LedByThen
<1> HIDE DEF s, k, c
<1>6. States(Timeline(s), n) = Replayed(Fresh, Timeline(c))
  BY <1>1, <1>2, <1>3, <1>4, StatesBegin
<1>7. ReferenceLap(Cursors(s), t) = ReferenceLap(Cursors(c), t)
  <2>1. \A x : ReferenceLap(Cursors(x), t) =
          IF LapsLed(x, t) = {} THEN None ELSE CHOOSE m \in LapsLed(x, t) : \A o \in LapsLed(x, t) : o <= m
    BY DEF ReferenceLap, LapsLed
  <2> QED
    BY <1>5, <2>1
<1> QED
  BY <1>6, <1>7 DEF s, c, k

(* A replay knows nothing of what comes after its cursor: the state it shows is *)
(* that of a session that ends there.                                           *)
THEOREM NothingOfTheFuture == ReplaySpec => []NoLookAhead
<1>1. Engaged => NoLookAhead
  <2> SUFFICES ASSUME Engaged, Answered, FirstTyres(stored.session)
               PROVE  LET c == Derived(Cut(Records(rows), answer.at))
                      IN /\ answer.got.state = [Replayed(Fresh, Timeline(c)) EXCEPT !.at = answer.at]
                         /\ answer.got.lap = ReferenceLap(Cursors(c), answer.at)
    BY DEF NoLookAhead
  <2> DEFINE rs == Records(rows)
             s == Derived(rs)
             ev == Timeline(s)
             t == answer.at
             n == EventLimit(ev, t)
             c == Derived(Cut(rs, t))
  <2>1. /\ answer # None /\ engine # None /\ stored # None /\ rows \in Sessions
        /\ "state" \in DOMAIN answer.got /\ t \in Nat
    BY DEF Answered, Engaged, Ingested
  <2>2. stored = [session |-> s, events |-> ev]
    BY <2>1 DEF Engaged, Ingested, Session
  <2>3. PICK k \in Interval : engine = Opened(stored, k)
    BY <2>1 DEF Engaged
  <2>4. answer.got = StateAt(stored, Opened(stored, k), t)
    BY <2>1, <2>3 DEF Engaged
  <2>5. Tabled(s)
    BY <2>1, SessionTabled DEF Session
  <2>6. Columns(rs.laps)
    <3>1. rs.laps \subseteq rows.laps
      BY <2>1, RecordsAreRows
    <3> HIDE DEF rs
    <3> QED
      BY <2>1, <3>1, SessionsAssumption DEF Columns, LapRow
  <2>7. TyresOfFirst(rs.laps)
    <3>1. s.stints = Stints(rs.laps) /\ s.laps = rs.laps /\ stored.session = s
      BY <2>2 DEF Derived
    <3> HIDE DEF s, rs
    <3> QED
      BY <3>1 DEF FirstTyres, TyresOfFirst
  <2> HIDE DEF s, n, rs
  <2>8. /\ n \in 0..Len(ev) /\ \A i \in DOMAIN ev : ev[i].at <= t <=> i <= n
        /\ answer.got = [state |-> [States(ev, n) EXCEPT !.at = t], lap |-> ReferenceLap(Cursors(s), t)]
    BY <2>1, <2>2, <2>4, <2>5, StateAtReplays DEF n
  <2>9. /\ States(ev, n) = Replayed(Fresh, Timeline(c))
        /\ ReferenceLap(Cursors(s), t) = ReferenceLap(Cursors(c), t)
    BY <2>1, <2>5, <2>6, <2>7, <2>8, AnsweredByThen DEF s
  <2>10. answer.got.state = [States(ev, n) EXCEPT !.at = t] /\ answer.got.lap = ReferenceLap(Cursors(s), t)
    BY <2>8
  <2> HIDE DEF ev, t
  <2>11. answer.got.state = [Replayed(Fresh, Timeline(c)) EXCEPT !.at = t]
    BY <2>9, <2>10, Zenon
  <2> QED
    BY <2>9, <2>10, <2>11 DEF rs, t
<1> QED
  BY <1>1, EngagedHolds, PTL

--------------------------------------------------------------------------------
(* Cars.  What the replay shows of a driver: as many laps as the greatest of    *)
(* those done, by a lap that counts.                                            *)
LEMMA KindOfEvent ==
  ASSUME NEW s, NEW e \in Events(s)
  PROVE  /\ e.kind \in Kinds
         /\ e.kind = "lap" => e \in LapEvents(s)
         /\ e.kind = "place" => \E p \in s.positions : e = Event("place", p.at, p.driver, <<0, p.id>>, p)
<1>1. \/ e = Event("marker", 0, 0, <<0, 0>>, None)
      \/ \E w \in s.weather : e = Event("weather", w.at, 0, <<0, w.id>>, w)
      \/ \E c \in s.control : e = Event("control", c.at, 0, <<c.source, c.id>>, c)
      \/ \E c \in StatusChanges(s.control) : e = Event("status", c.at, 0, <<c.source, c.id>>, c)
      \/ \E t \in s.stints : e = Event("stint", t.start, t.driver, <<0, t.number>>, t)
      \/ \E p \in s.stops : e = Event("enter", p.enter, p.driver, <<p.lap, Other(p.exit)>>, p)
      \/ \E p \in s.stops : e = Event("exit", p.exit, p.driver, <<p.lap, Other(p.enter)>>, p)
      \/ \E p \in s.positions : e = Event("place", p.at, p.driver, <<0, p.id>>, p)
      \/ e \in LapEvents(s)
  BY DEF Events
<1>2. \A k, a, d, t, of : Event(k, a, d, t, of).kind = k
  BY DEF Event
<1>3. \A x \in LapEvents(s) : x.kind = "lap"
  BY DEF LapEvents, Event
<1>4. CASE e \in LapEvents(s)
  BY <1>3, <1>4 DEF Kinds
<1>5. CASE \E p \in s.positions : e = Event("place", p.at, p.driver, <<0, p.id>>, p)
  <2>1. e.kind = "place"
    BY <1>2, <1>5
  <2>2. "place" \in Kinds /\ "place" # "lap"
    BY DEF Kinds
  <2> QED
    BY <1>5, <2>1, <2>2
<1>7. \/ e.kind \in {"marker", "weather", "control", "status", "stint", "enter", "exit"}
      \/ \E p \in s.positions : e = Event("place", p.at, p.driver, <<0, p.id>>, p)
      \/ e \in LapEvents(s)
  <2>1. CASE e = Event("marker", 0, 0, <<0, 0>>, None)
    BY <1>2, <2>1
  <2>2. CASE \E w \in s.weather : e = Event("weather", w.at, 0, <<0, w.id>>, w)
    BY <1>2, <2>2
  <2>3. CASE \E c \in s.control : e = Event("control", c.at, 0, <<c.source, c.id>>, c)
    BY <1>2, <2>3
  <2>4. CASE \E c \in StatusChanges(s.control) : e = Event("status", c.at, 0, <<c.source, c.id>>, c)
    BY <1>2, <2>4
  <2>5. CASE \E t \in s.stints : e = Event("stint", t.start, t.driver, <<0, t.number>>, t)
    BY <1>2, <2>5
  <2>6. CASE \E p \in s.stops : e = Event("enter", p.enter, p.driver, <<p.lap, Other(p.exit)>>, p)
    BY <1>2, <2>6
  <2>7. CASE \E p \in s.stops : e = Event("exit", p.exit, p.driver, <<p.lap, Other(p.enter)>>, p)
    BY <1>2, <2>7
  <2> QED
    BY <1>1, <2>1, <2>2, <2>3, <2>4, <2>5, <2>6, <2>7
<1>6. CASE e.kind \in {"marker", "weather", "control", "status", "stint", "enter", "exit"}
  BY <1>6 DEF Kinds
<1> QED
  BY <1>4, <1>5, <1>6, <1>7

CarFields == {"status", "place", "laps", "stint", "compound", "age", "last", "inPit", "stops", "lastPit"}
CarRow(c) ==
  /\ DOMAIN c = CarFields
  /\ c.laps \in Nat /\ c.stops \in Nat /\ c.place \in Maybe(Nat)
LapsDone(ev, m, d) == {ev[i].of : i \in {i \in 1..m : ev[i].kind = "lap" /\ ev[i].driver = d}}
Cars(ev, m) ==
  LET st == States(ev, m)
  IN /\ "car" \in DOMAIN st /\ DOMAIN st.car = Driver
     /\ \A d \in Driver :
          /\ CarRow(st.car[d])
          /\ \A l \in LapsDone(ev, m, d) : l.lap <= st.car[d].laps
          /\ st.car[d].laps = 0 \/ \E l \in LapsDone(ev, m, d) : l.lap = st.car[d].laps

(* One event moves one car, and only laps move its laps. *)
LEMMA MovedCar ==
  ASSUME NEW c, CarRow(c), NEW e, e.kind \in {"stint", "enter", "exit", "place", "lap"},
         e.kind = "lap" => e.of.lap \in Nat, e.kind = "place" => e.of.place \in Nat
  PROVE  /\ CarRow(Moved(c, e))
         /\ Moved(c, e).laps = IF e.kind = "lap" /\ c.laps < e.of.lap THEN e.of.lap ELSE c.laps
<1>0. \A x : DOMAIN Activated(x) = DOMAIN x
             /\ ("status" \in DOMAIN x /\ DOMAIN x = CarFields
                 => Activated(x).laps = x.laps /\ Activated(x).stops = x.stops /\ Activated(x).place = x.place)
  BY DEF Activated, CarFields
<1>1. CASE e.kind = "stint"
  <2> DEFINE x == [c EXCEPT !.stint = e.of.number, !.compound = e.of.compound, !.age = e.of.age]
  <2>1. Moved(c, e) = Activated(x)
    BY <1>1 DEF Moved
  <2>2. DOMAIN x = CarFields /\ x.laps = c.laps /\ x.stops = c.stops /\ x.place = c.place
    BY DEF CarRow, CarFields
  <2> HIDE DEF x
  <2> QED
    BY <1>0, <1>1, <2>1, <2>2 DEF CarRow, CarFields
<1>2. CASE e.kind = "enter"
  <2> DEFINE x == [c EXCEPT !.stops = IF c.inPit THEN @ ELSE @ + 1, !.inPit = TRUE,
                            !.lastPit = e.of.lap, !.status = "in pit"]
  <2>1. Moved(c, e) = x
    BY <1>2 DEF Moved
  <2>2. DOMAIN x = CarFields /\ x.laps = c.laps /\ x.place = c.place /\ x.stops \in {c.stops, c.stops + 1}
    BY DEF CarRow, CarFields
  <2> HIDE DEF x
  <2>3. c.stops + 1 \in Nat
    BY DEF CarRow
  <2> QED
    BY <1>2, <2>1, <2>2, <2>3 DEF CarRow, CarFields
<1>3. CASE e.kind = "exit"
  <2> DEFINE x == [c EXCEPT !.inPit = FALSE]
  <2>1. Moved(c, e) = Activated(x)
    BY <1>3 DEF Moved
  <2>2. DOMAIN x = CarFields /\ x.laps = c.laps /\ x.stops = c.stops /\ x.place = c.place
    BY DEF CarRow, CarFields
  <2> HIDE DEF x
  <2> QED
    BY <1>0, <1>3, <2>1, <2>2 DEF CarRow, CarFields
<1>4. CASE e.kind = "place"
  <2> DEFINE x == [c EXCEPT !.place = e.of.place]
  <2>1. Moved(c, e) = Activated(x)
    BY <1>4 DEF Moved
  <2>2. DOMAIN x = CarFields /\ x.laps = c.laps /\ x.stops = c.stops /\ x.place = e.of.place
    BY DEF CarRow, CarFields
  <2> HIDE DEF x
  <2> QED
    BY <1>0, <1>4, <2>1, <2>2 DEF CarRow, CarFields, Maybe
<1>5. CASE e.kind = "lap"
  <2> DEFINE n == IF c.laps < e.of.lap THEN e.of.lap ELSE c.laps
             x == [c EXCEPT !.laps = n, !.stint = IF e.of.stint = None THEN @ ELSE e.of.stint,
                            !.compound = e.of.compound, !.last = e.of.time,
                            !.age = IF e.of.life = None THEN @ ELSE e.of.life]
  <2>1. Moved(c, e) = Activated(x)
    BY <1>5 DEF Moved
  <2>2. DOMAIN x = CarFields /\ x.laps = n /\ x.stops = c.stops /\ x.place = c.place
    BY DEF CarRow, CarFields
  <2>3. n \in Nat
    BY <1>5 DEF CarRow
  <2> HIDE DEF x, n
  <2>4. Activated(x).laps = n /\ CarRow(Activated(x))
    BY <1>0, <2>2, <2>3 DEF CarRow, CarFields
  <2> QED
    BY <1>5, <2>1, <2>4 DEF n
<1> QED
  BY <1>1, <1>2, <1>3, <1>4, <1>5

(* What the replay keeps of the cars at each event of the timeline. *)
LEMMA CarsKept ==
  ASSUME NEW s, Tabled(s), NEW m \in 0..Len(Timeline(s))
  PROVE  Cars(Timeline(s), m)
<1> DEFINE ev == Timeline(s)
           N == Len(ev)
           P == {k \in 0..N : Cars(ev, k)}
<1>1. /\ ev \in Seq(Events(s)) /\ N \in Nat /\ Sorted(ev) /\ \A i \in 1..N : ev[i] \in Events(s) /\ ev[i].at \in Nat
  BY TimelineSorted
<1>2. 0 \in P
  <2>1. 1..0 = {}
    OBVIOUS
  <2>2. States(ev, 0) = Fresh
    BY <2>1, FoldNext DEF States
  <2>3. "car" \in DOMAIN Fresh /\ DOMAIN Fresh.car = Driver
    BY DEF Fresh
  <2>4. \A d \in Driver : CarRow(Fresh.car[d]) /\ Fresh.car[d].laps = 0
    BY DEF Fresh, CarRow, CarFields, Maybe
  <2>5. \A d \in Driver : LapsDone(ev, 0, d) = {}
    BY <2>1 DEF LapsDone
  <2> HIDE DEF ev
  <2>6. Cars(ev, 0)
    BY <2>2, <2>3, <2>4, <2>5 DEF Cars
  <2> QED
    BY <1>1, <2>6
<1> HIDE DEF ev, N
<1>3. ASSUME NEW k \in 0..(N - 1), k \in P PROVE k + 1 \in P
  <2> DEFINE st == States(ev, k)
             nx == States(ev, k + 1)
             e == ev[k + 1]
  <2>1. k \in Nat /\ k + 1 \in 1..N /\ k + 1 \in 0..N /\ k \in 0..N
    BY <1>1
  <2>2. nx = Apply(st, e)
    BY <2>1, FoldNext DEF States, Step
  <2>3. e \in Events(s) /\ e.kind \in Kinds
    BY <1>1, <2>1, KindOfEvent
  <2>4. /\ e.kind = "lap" => e.of.lap \in Nat
        /\ e.kind = "place" => e.of.place \in Nat
    <3>1. CASE e.kind = "lap"
      <4>1. PICK l \in s.laps : e = Event("lap", l.end, l.driver, <<0, l.id>>, l)
        BY <2>3, <3>1, KindOfEvent DEF LapEvents
      <4>2. e.of = l
        BY <4>1 DEF Event
      <4> QED
        BY <3>1, <4>2 DEF Tabled, LapTable, Lap
    <3>2. CASE e.kind = "place"
      <4>1. PICK p \in s.positions : e = Event("place", p.at, p.driver, <<0, p.id>>, p)
        BY <2>3, <3>2, KindOfEvent
      <4>2. e.of = p
        BY <4>1 DEF Event
      <4> QED
        BY <3>2, <4>2 DEF Tabled
    <3> QED
      BY <3>1, <3>2
  <2>5. Cars(ev, k) /\ Timed(ev, k)
    BY <1>3, <2>1, <1>1, StatesTimed DEF N
  <2>6. /\ {"at", "track", "weather", "control", "backward", "car"} \subseteq DOMAIN st
        /\ DOMAIN st.car = Driver /\ \A d \in Driver : CarRow(st.car[d])
    BY <2>5 DEF Timed, Cars
  <2>7. \A d \in Driver : LapsDone(ev, k + 1, d) = LapsDone(ev, k, d) \cup
           (IF e.kind = "lap" /\ e.driver = d THEN {e.of} ELSE {})
    <3>1. \A i \in 1..(k + 1) : i \in 1..k \/ i = k + 1
      BY <2>1
    <3>2. k + 1 \in 1..(k + 1) /\ \A i \in 1..k : i \in 1..(k + 1)
      BY <2>1
    <3> QED
      BY <3>1, <3>2 DEF LapsDone
  <2> HIDE DEF st, nx, e
  <2>8. /\ "car" \in DOMAIN nx /\ DOMAIN nx.car = Driver
        /\ \A d \in Driver : /\ CarRow(nx.car[d])
                             /\ nx.car[d].laps = IF e.kind = "lap" /\ e.driver = d /\ st.car[d].laps < e.of.lap
                                                 THEN e.of.lap ELSE st.car[d].laps
    <3>1. "car" \in DOMAIN nx /\ nx.car = Transition(st, e).car
      <4>1. DOMAIN Transition(st, e) = DOMAIN st
        BY DEF Transition
      <4> QED
        BY <2>2, <2>6, <4>1 DEF Apply
    <3>2. CASE e.kind \in {"marker", "status", "weather", "control"}
      <4>1. Transition(st, e).car = st.car
        BY <2>6, <3>2 DEF Transition
      <4> QED
        BY <2>6, <3>1, <3>2, <4>1
    <3>3. CASE e.kind \in {"stint", "enter", "exit", "place", "lap"}
      <4>1. Transition(st, e) = [st EXCEPT !.car[e.driver] = Moved(st.car[e.driver], e)]
        BY <3>3 DEF Transition
      <4>2. Transition(st, e).car = [st.car EXCEPT ![e.driver] = Moved(st.car[e.driver], e)]
        BY <2>6, <4>1
      <4>3. \A d \in Driver : nx.car[d] = IF e.driver = d THEN Moved(st.car[d], e) ELSE st.car[d]
        BY <2>6, <3>1, <4>2
      <4>4. DOMAIN nx.car = Driver
        BY <2>6, <3>1, <4>2
      <4>5. ASSUME NEW d \in Driver
            PROVE  /\ CarRow(nx.car[d])
                   /\ nx.car[d].laps = IF e.kind = "lap" /\ e.driver = d /\ st.car[d].laps < e.of.lap
                                       THEN e.of.lap ELSE st.car[d].laps
        <5>1. CASE e.driver = d
          <6>1. /\ CarRow(Moved(st.car[d], e))
                /\ Moved(st.car[d], e).laps = IF e.kind = "lap" /\ st.car[d].laps < e.of.lap
                                              THEN e.of.lap ELSE st.car[d].laps
            BY <2>4, <2>6, <3>3, MovedCar
          <6> QED
            BY <4>3, <5>1, <6>1
        <5>2. CASE e.driver # d
          BY <2>6, <4>3, <5>2
        <5> QED
          BY <5>1, <5>2
      <4> QED
        BY <3>1, <4>4, <4>5
    <3> QED
      BY <2>3, <3>2, <3>3 DEF Kinds
  <2>9. ASSUME NEW d \in Driver
        PROVE  /\ \A l \in LapsDone(ev, k + 1, d) : l.lap <= nx.car[d].laps
               /\ nx.car[d].laps = 0 \/ \E l \in LapsDone(ev, k + 1, d) : l.lap = nx.car[d].laps
    <3>1. /\ \A l \in LapsDone(ev, k, d) : l.lap <= st.car[d].laps
          /\ st.car[d].laps = 0 \/ \E l \in LapsDone(ev, k, d) : l.lap = st.car[d].laps
      BY <2>5 DEF Cars, st
    <3>2. st.car[d].laps \in Nat /\ nx.car[d].laps \in Nat
      BY <2>6, <2>8 DEF CarRow
    <3>3. \A l \in LapsDone(ev, k, d) : l.lap \in Nat
      <4> SUFFICES ASSUME NEW i \in 1..k, ev[i].kind = "lap", ev[i].driver = d PROVE ev[i].of.lap \in Nat
        BY DEF LapsDone
      <4>1. ev[i] \in Events(s)
        BY <1>1, <2>1
      <4>2. PICK l \in s.laps : ev[i] = Event("lap", l.end, l.driver, <<0, l.id>>, l)
        BY <4>1, KindOfEvent DEF LapEvents
      <4>3. ev[i].of = l
        BY <4>2 DEF Event
      <4> QED
        BY <4>3 DEF Tabled, LapTable, Lap
    <3>4. CASE e.kind = "lap" /\ e.driver = d
      <4>1. LapsDone(ev, k + 1, d) = LapsDone(ev, k, d) \cup {e.of}
        BY <2>7, <3>4
      <4>2. nx.car[d].laps = IF st.car[d].laps < e.of.lap THEN e.of.lap ELSE st.car[d].laps
        BY <2>8, <3>4
      <4>3. e.of.lap \in Nat
        BY <2>4, <3>4
      <4>4. st.car[d].laps <= nx.car[d].laps /\ e.of.lap <= nx.car[d].laps
        BY <3>2, <4>2, <4>3
      <4>5. \A l \in LapsDone(ev, k + 1, d) : l.lap <= nx.car[d].laps
        BY <3>1, <3>2, <3>3, <4>1, <4>4
      <4>6. nx.car[d].laps = 0 \/ \E l \in LapsDone(ev, k + 1, d) : l.lap = nx.car[d].laps
        BY <3>1, <4>1, <4>2
      <4> QED
        BY <4>5, <4>6
    <3>5. CASE ~ (e.kind = "lap" /\ e.driver = d)
      <4>1. LapsDone(ev, k + 1, d) = LapsDone(ev, k, d) /\ nx.car[d].laps = st.car[d].laps
        BY <2>7, <2>8, <3>5
      <4> QED
        BY <3>1, <4>1
    <3> QED
      BY <3>4, <3>5
  <2>10. Cars(ev, k + 1)
    BY <2>8, <2>9 DEF Cars, nx
  <2> QED
    BY <2>1, <2>10
<1>4. 0..N \subseteq P
  <2> HIDE DEF P
  <2> QED
    BY <1>1, <1>2, <1>3, UpTo
<1> QED
  BY <1>4 DEF ev, N

--------------------------------------------------------------------------------
(* Fields.  A car of a field goes on from the lap that its driver did last.     *)
FieldRow(row, t) ==
  /\ row.laps \in Nat /\ row.at \in Nat /\ row.elapsed = t - row.at
  /\ row.stops \in Nat /\ row.place \in Nat
FromLastLap(s, d, row) == \E l \in LapsFor(s, d) : l.end = row.at /\ (l.lap = row.laps \/ l.deleted)

(* Of laps done there is one that none is after. *)
LEMMA LatestLap ==
  ASSUME NEW S, IsFiniteSet(S), S # {}, \A l \in S : l.end \in Nat /\ l.lap \in Nat
  PROVE  LET m == CHOOSE l \in S : \A o \in S : ~ Before(<<l.end, l.lap>>, <<o.end, o.lap>>)
         IN m \in S /\ \A o \in S : o.end <= m.end /\ (o.end = m.end => o.lap <= m.lap)
<1> DEFINE ends == [l \in S |-> l.end]
           E == {ends[l] : l \in DOMAIN ends}
           Ok(l) == \A o \in S : ~ Before(<<l.end, l.lap>>, <<o.end, o.lap>>)
           m == CHOOSE l \in S : Ok(l)
<1>1. PICK a \in S : \A o \in S : o.end <= a.end
  <2>1. E \in SUBSET Int /\ E # {} /\ DOMAIN ends = S
    OBVIOUS
  <2>2. IsFiniteSet(E)
    <3> HIDE DEF ends
    <3> QED
      BY <2>1, ImageFinite
  <2>3. PICK x \in E : \A y \in E : x >= y
    <3> HIDE DEF E
    <3> QED
      BY <2>1, <2>2, MaxIn
  <2>4. PICK a \in S : x = a.end
    OBVIOUS
  <2> QED
    BY <2>3, <2>4
<1> DEFINE T == {l \in S : l.end = a.end}
           laps == [l \in T |-> l.lap]
           L == {laps[l] : l \in DOMAIN laps}
<1>2. PICK b \in T : \A o \in T : o.lap <= b.lap
  <2>1. IsFiniteSet(T) /\ a \in T
    BY FS_Subset
  <2>2. L \in SUBSET Int /\ L # {} /\ DOMAIN laps = T
    BY <2>1
  <2>3. IsFiniteSet(L)
    <3> HIDE DEF laps, T
    <3> QED
      BY <2>1, <2>2, ImageFinite
  <2>4. PICK x \in L : \A y \in L : x >= y
    <3> HIDE DEF L
    <3> QED
      BY <2>2, <2>3, MaxIn
  <2>5. PICK b \in T : x = b.lap
    OBVIOUS
  <2> QED
    BY <2>4, <2>5
<1>3. ASSUME NEW l \in S, NEW o \in S
      PROVE  Before(<<l.end, l.lap>>, <<o.end, o.lap>>) <=> l.end < o.end \/ (l.end = o.end /\ l.lap < o.lap)
  <2> DEFINE x == <<l.end, l.lap>>
             y == <<o.end, o.lap>>
  <2>1. DOMAIN x = {1, 2} /\ x[1] = l.end /\ x[2] = l.lap /\ y[1] = o.end /\ y[2] = o.lap
    OBVIOUS
  <2> HIDE DEF x, y
  <2>2. 1..(1 - 1) = {} /\ 1..(2 - 1) = {1}
    OBVIOUS
  <2>3. Before(x, y) <=> x[1] < y[1] \/ (x[2] < y[2] /\ x[1] = y[1])
    BY <2>1, <2>2 DEF Before
  <2> QED
    BY <2>1, <2>3 DEF x, y
<1>4. b \in S /\ Ok(b)
  <2>1. b \in S /\ b.end = a.end
    OBVIOUS
  <2>2. ASSUME NEW o \in S PROVE ~ Before(<<b.end, b.lap>>, <<o.end, o.lap>>)
    <3>1. ~ (b.end < o.end) /\ (b.end = o.end => ~ (b.lap < o.lap))
      <4>1. o.end <= a.end /\ o.end \in Nat /\ o.lap \in Nat /\ b.lap \in Nat /\ b.end \in Nat
        BY <1>1, <2>1
      <4>2. b.end = o.end => o \in T
        BY <2>1
      <4>3. b.end = o.end => o.lap <= b.lap
        BY <1>2, <4>2
      <4> QED
        BY <2>1, <4>1, <4>3
    <3> QED
      BY <1>3, <2>1, <3>1
  <2> QED
    BY <2>1, <2>2
<1>5. m \in S /\ Ok(m)
  <2> HIDE DEF Ok
  <2> QED
    BY <1>4
<1> HIDE DEF m
<1>6. ASSUME NEW o \in S PROVE o.end <= m.end /\ (o.end = m.end => o.lap <= m.lap)
  <2>1. ~ Before(<<m.end, m.lap>>, <<o.end, o.lap>>)
    BY <1>5
  <2>2. ~ (m.end < o.end) /\ ~ (m.end = o.end /\ m.lap < o.lap)
    BY <1>3, <1>5, <2>1
  <2>3. m.end \in Nat /\ m.lap \in Nat /\ o.end \in Nat /\ o.lap \in Nat
    BY <1>5
  <2> QED
    BY <2>2, <2>3
<1> QED
  BY <1>5, <1>6 DEF m

(* The lap done last is the one the replay shows, unless it is deleted. *)
LEMMA LastLapShown ==
  ASSUME NEW s, Tabled(s), Valid(s), NEW t \in Nat, NEW d \in Driver,
         NEW n \in 0..Len(Timeline(s)),
         \A i \in DOMAIN Timeline(s) : Timeline(s)[i].at <= t <=> i <= n,
         NEW m \in LapsFor(s, d), EndedBy(m, t),
         \A o \in LapsFor(s, d) : EndedBy(o, t) => o.end <= m.end /\ (o.end = m.end => o.lap <= m.lap)
  PROVE  m.lap = States(Timeline(s), n).car[d].laps \/ m.deleted
<1> DEFINE ev == Timeline(s)
           laps == States(ev, n).car[d].laps
           N == Len(ev)
<1>1. /\ N \in Nat /\ DOMAIN ev = 1..N /\ \A i \in 1..N : ev[i] \in Events(s)
      /\ \A e \in Events(s) : \E i \in 1..N : ev[i] = e
  BY TimelineSorted
<1>2. /\ laps \in Nat /\ \A l \in LapsDone(ev, n, d) : l.lap <= laps
      /\ laps = 0 \/ \E l \in LapsDone(ev, n, d) : l.lap = laps
  BY CarsKept DEF Cars, CarRow
<1>3. /\ m \in s.laps /\ m.driver = d /\ m.end # None /\ m.end <= t
      /\ \A l \in s.laps : /\ l.end \in Maybe(Nat) /\ l.lap \in Nat /\ l.deleted \in BOOLEAN
                           /\ l.end # None => l.end \in Nat
  BY DEF LapsFor, EndedBy, Known, Tabled, LapTable, Lap, Maybe
<1> HIDE DEF ev, laps, N
<1> SUFFICES ASSUME ~ m.deleted PROVE m.lap = laps
  BY DEF laps, ev
<1>4. m \in LapsDone(ev, n, d)
  <2> DEFINE e == Event("lap", m.end, m.driver, <<0, m.id>>, m)
  <2>1. e \in Events(s)
    BY <1>3 DEF LapEvents, Events
  <2>2. e.kind = "lap" /\ e.driver = d /\ e.at = m.end /\ e.of = m
    BY <1>3 DEF Event
  <2> HIDE DEF e
  <2>3. PICK i \in 1..N : ev[i] = e
    BY <1>1, <2>1
  <2>4. i <= n
    BY <1>1, <1>3, <2>2, <2>3 DEF ev
  <2>5. i \in 1..n
    BY <1>1, <2>3, <2>4 DEF N, ev
  <2> QED
    BY <2>2, <2>3, <2>5 DEF LapsDone
<1>5. m.lap <= laps
  BY <1>2, <1>4
<1>6. laps <= m.lap
  <2>1. CASE laps = 0
    BY <2>1, <1>3
  <2>2. CASE laps # 0
    <3>1. PICK l \in LapsDone(ev, n, d) : l.lap = laps
      BY <1>2, <2>2
    <3>2. PICK i \in 1..n : ev[i].kind = "lap" /\ ev[i].driver = d /\ ev[i].of = l
      BY DEF LapsDone
    <3>3. i \in 1..N
      BY <1>1 DEF N, ev
    <3>4. PICK k \in s.laps : k.end # None /\ ~ k.deleted /\ ev[i] = Event("lap", k.end, k.driver, <<0, k.id>>, k)
      BY <1>1, <3>2, <3>3, KindOfEvent DEF LapEvents
    <3>5. k = l /\ k.driver = d /\ ev[i].at = k.end
      BY <3>2, <3>4 DEF Event
    <3>6. ev[i].at <= t
      <4>1. i \in DOMAIN ev /\ i <= n
        BY <1>1, <3>3
      <4> QED
        BY <4>1 DEF ev
    <3>7. k \in LapsFor(s, d) /\ EndedBy(k, t)
      BY <3>4, <3>5, <3>6 DEF LapsFor, EndedBy, Known
    <3>8. k.end <= m.end /\ (k.end = m.end => k.lap <= m.lap)
      BY <3>7
    <3>9. m.lap < k.lap => InOrder(m.end, k.end)
      BY <1>3, <3>4, <3>5 DEF Valid, LapsValid
    <3>10. m.end \in Nat /\ k.end \in Nat /\ m.lap \in Nat /\ k.lap \in Nat
      BY <1>3, <3>4
    <3>11. m.lap < k.lap => m.end <= k.end
      BY <3>9, <3>10 DEF InOrder
    <3> QED
      BY <3>1, <3>5, <3>8, <3>10, <3>11
  <2> QED
    BY <2>1, <2>2
<1> QED
  BY <1>2, <1>3, <1>5, <1>6

(* The field of a race holds drivers only, each as of its last lap completed. *)
LEMMA FieldEntries ==
  ASSUME NEW s, Tabled(s), Valid(s), NEW k, NEW t \in Nat, NEW d, NEW total,
         NEW got, got = StateAt([session |-> s, events |-> Timeline(s)],
                                Opened([session |-> s, events |-> Timeline(s)], k), t),
         "state" \in DOMAIN got,
         NEW field, field = BuildState(s, got, d, t, total), field # None
  PROVE  /\ d \in DOMAIN field /\ IsFiniteSet(DOMAIN field) /\ DOMAIN field \subseteq Driver
         /\ \A o \in DOMAIN field : FieldRow(field[o], t) /\ FromLastLap(s, o, field[o])
<1> DEFINE ev == Timeline(s)
           n == EventLimit(ev, t)
           st == States(ev, n)
           F == {o \in Driver : Running(s, got.state, o, t)}
<1>1. /\ n \in 0..Len(ev) /\ \A i \in DOMAIN ev : ev[i].at <= t <=> i <= n
      /\ got = [state |-> [st EXCEPT !.at = t], lap |-> ReferenceLap(Cursors(s), t)]
  BY StateAtReplays
<1>2. field = [o \in F |-> Entry(s, got.state, o, t)] /\ d \in F
  BY DEF BuildState
<1> HIDE DEF n
<1>3. Cars(ev, n) /\ Timed(ev, n)
  BY <1>1, CarsKept, TimelineSorted, StatesTimed
<1>4. got.state.car = st.car
  <2>1. got.state = [st EXCEPT !.at = t]
    BY <1>1
  <2> QED
    BY <2>1, <1>3 DEF Timed
<1> HIDE DEF st, ev
<1>5. ASSUME NEW o \in F
      PROVE  /\ FieldRow(field[o], t) /\ FromLastLap(s, o, field[o])
             /\ \E l \in s.laps : l.driver = o
  <2> DEFINE done == {l \in LapsFor(s, o) : EndedBy(l, t)}
             m == CHOOSE l \in done : \A x \in done : ~ Before(<<l.end, l.lap>>, <<x.end, x.lap>>)
             car == got.state.car[o]
  <2>1. done # {}
    BY DEF Running, Completed, TheLast
  <2>2. IsFiniteSet(done)
    BY FS_Subset DEF Tabled, LapTable, LapsFor
  <2>3. \A l \in done : l.end \in Nat /\ l.lap \in Nat
    BY DEF LapsFor, EndedBy, Known, Tabled, LapTable, Lap, Maybe
  <2>4. m \in done /\ \A x \in done : x.end <= m.end /\ (x.end = m.end => x.lap <= m.lap)
    <3> HIDE DEF done
    <3> QED
      BY <2>1, <2>2, <2>3, LatestLap
  <2>5. /\ field[o].laps = car.laps /\ field[o].at = m.end /\ field[o].elapsed = t - m.end
        /\ field[o].stops = car.stops /\ field[o].place = IF Known(car.place) THEN car.place ELSE 30
    <3>1. field[o] = Entry(s, got.state, o, t)
      BY <1>2
    <3>2. Entry(s, got.state, o, t) =
            [laps |-> car.laps, at |-> m.end, elapsed |-> t - m.end,
             compound |-> car.compound, age |-> car.age,
             stint |-> IF Known(car.stint) THEN car.stint ELSE 1,
             stops |-> car.stops, place |-> IF Known(car.place) THEN car.place ELSE 30,
             used |-> {car.compound} \cup ({l.compound : l \in done} \cap Dry),
             given |-> FeatureAt(s, o, t)]
      BY DEF Entry
    <3> HIDE DEF car, m, done
    <3> QED
      BY <3>1, <3>2
  <2> HIDE DEF m
  <2>6. o \in Driver /\ m \in LapsFor(s, o) /\ EndedBy(m, t) /\ m.end \in Nat
    BY <2>3, <2>4
  <2>7. car = st.car[o] /\ CarRow(st.car[o])
    BY <1>3, <1>4, <2>6 DEF Cars, st
  <2>8. m.lap = st.car[o].laps \/ m.deleted
    <3>1. \A x \in LapsFor(s, o) : EndedBy(x, t) => x.end <= m.end /\ (x.end = m.end => x.lap <= m.lap)
      BY <2>4
    <3> QED
      BY <1>1, <2>6, <3>1, LastLapShown DEF st, ev
  <2> HIDE DEF done, car
  <2>9. FieldRow(field[o], t)
    BY <2>5, <2>6, <2>7 DEF FieldRow, CarRow, Known, Maybe
  <2>10. FromLastLap(s, o, field[o])
    BY <2>5, <2>6, <2>7, <2>8 DEF FromLastLap
  <2>11. m \in s.laps /\ m.driver = o
    BY <2>6 DEF LapsFor
  <2> QED
    BY <2>9, <2>10, <2>11
<1>6. IsFiniteSet(F)
  <2> DEFINE g == [l \in s.laps |-> l.driver]
             G == {g[l] : l \in DOMAIN g}
  <2>1. DOMAIN g = s.laps /\ IsFiniteSet(s.laps)
    BY DEF Tabled, LapTable
  <2>2. F \subseteq G
    BY <1>5
  <2>3. IsFiniteSet(G)
    <3> HIDE DEF g
    <3> QED
      BY <2>1, ImageFinite
  <2> HIDE DEF F, G
  <2> QED
    BY <2>2, <2>3, FS_Subset
<1>7. DOMAIN field = F /\ F \subseteq Driver
  BY <1>2
<1> HIDE DEF F
<1> QED
  BY <1>2, <1>5, <1>6, <1>7

--------------------------------------------------------------------------------
(* Races.  What a simulation is of ...                                          *)
Base(d) == advice.field[d].laps
Planned(d) == IF d # advice.driver THEN {} ELSE {advice.strategy[i].lap : i \in DOMAIN advice.strategy}
Simulation == advice # None /\ advice.kind = "simulation" /\ advice.field # None
Advised ==
  /\ advice.at \in Nat /\ advice.total \in Nat
  /\ IsFiniteSet(DOMAIN advice.field) /\ DOMAIN advice.field # {} /\ DOMAIN advice.field \subseteq Nat
  /\ \A d \in DOMAIN advice.field :
        /\ FieldRow(advice.field[d], advice.at) /\ FromLastLap(stored.session, d, advice.field[d])
        /\ \A n \in Planned(d) : n \in Int /\ n >= Base(d) + 2

(* ... a car that has begun so many laps, with their ends in order of time and  *)
(* the stops planned for them; the same when it has completed what it began ... *)
CarKeys == {"laps", "next", "compound", "age", "stint", "stops", "times", "stopped"}
CarRun(car, begun, d) ==
  /\ DOMAIN car = CarKeys
  /\ car.laps \in Nat /\ car.laps >= Base(d)
  /\ car.times \in Seq(Int) /\ Len(car.times) = begun - Base(d)
  /\ \A i, j \in 1..Len(car.times) : i < j => car.times[i] < car.times[j]
  /\ 1 <= Len(car.times) => car.times[1] > advice.at
  /\ car.stopped = {k \in Planned(d) : k <= begun}
  /\ IsFiniteSet(car.stopped) /\ car.stops = advice.field[d].stops + Cardinality(car.stopped)
CarOk(car, begun, d) ==
  /\ CarRun(car, begun, d)
  /\ begun \in Int /\ 1 <= Len(car.times) /\ car.next = car.times[Len(car.times)]
Ready(car, d) ==
  /\ CarRun(car, car.laps, d)
  /\ car.next \in Int /\ \A i \in 1..Len(car.times) : car.times[i] <= car.next

(* ... and all cars: nobody has completed a lap later than another will          *)
(* complete its next one; the winner did the distance first, and who is home     *)
(* came with it.                                                                *)
Completes(r, d) == {r.car[d].times[i] : i \in 1..(r.car[d].laps - Base(d))}
OrderOk(r) ==
  LET cars == DOMAIN r.car
      queue == DOMAIN r.queued
  IN /\ \A d \in cars, o \in queue : \A t \in Completes(r, d) : t <= r.car[o].next
     /\ \A d \in queue : r.car[d].laps < advice.total
     /\ \A d \in cars \ queue : r.car[d].laps = advice.total /\ Known(r.winner) /\ r.car[d].next = r.winner
     /\ Known(r.winner) =>
          /\ r.winner \in Int /\ queue # cars
          /\ \A d \in cars : \A t \in Completes(r, d) : t <= r.winner
          /\ \A d \in queue : r.winner <= r.car[d].next
     /\ r.over => Known(r.winner) /\ \A d \in queue : r.winner < r.car[d].next
BegunIn(r, d) == r.car[d].laps + (IF d \in DOMAIN r.queued THEN 1 ELSE 0)
Fair(r) == \A d \in DOMAIN r.car : Base(d) < advice.total
RaceOk(r) ==
  /\ DOMAIN r = {"car", "queued", "winner", "over"} /\ r.over \in BOOLEAN
  /\ DOMAIN r.car = DOMAIN advice.field /\ DOMAIN r.queued \subseteq DOMAIN r.car
  /\ \A d \in DOMAIN r.car : CarOk(r.car[d], BegunIn(r, d), d)
  /\ Fair(r) => OrderOk(r)
RaceInv == race # None => Simulation /\ RaceOk(race)

(* A lap is planned to end in the pits when an action is for it. *)
LEMMA PlannedActions ==
  ASSUME NEW d, NEW n
  PROVE  Action(d, n) = {} <=> n \notin Planned(d)
BY DEF Action, Planned

(* The lap scheduled next ends later than the last one. *)
Lengthened(new, car, d, u, v) ==
  LET stops == car.laps + 1 \in Planned(d)
  IN /\ DOMAIN new = CarKeys /\ new.laps = car.laps
     /\ new.next = car.next + u + (IF stops THEN v ELSE 0)
     /\ new.next \in Int /\ new.next > car.next
     /\ new.times = Append(car.times, new.next)
     /\ new.stopped = IF stops THEN car.stopped \cup {car.laps + 1} ELSE car.stopped
     /\ new.stops = IF stops THEN car.stops + 1 ELSE car.stops

(* What scheduling one more lap changes in a car. *)
LEMMA ScheduledCar ==
  ASSUME NEW car, DOMAIN car = CarKeys, car.laps \in Nat, car.next \in Int, NEW d,
         NEW u \in Duration, NEW v \in Loss
  PROVE  Lengthened(Scheduled(car, d, u, v), car, d, u, v)
<1> DEFINE stop == Action(d, car.laps + 1)
           new == Scheduled(car, d, u, v)
<1>1. u \in Nat /\ u > 0 /\ v \in Nat
  BY RaceAssumption
<1>2. stop = {} <=> car.laps + 1 \notin Planned(d)
  BY PlannedActions
<1>3. CASE stop = {}
  <2>1. new = [car EXCEPT !.age = @ + 1, !.next = @ + u, !.times = Append(@, car.next + u)]
    BY <1>3 DEF Scheduled
  <2>2. /\ DOMAIN new = CarKeys /\ new.laps = car.laps /\ new.next = car.next + u
        /\ new.times = Append(car.times, car.next + u)
        /\ new.stopped = car.stopped /\ new.stops = car.stops
    BY <2>1 DEF CarKeys
  <2>3. car.next + u + 0 = car.next + u /\ car.next + u \in Int /\ car.next + u > car.next
    BY <1>1
  <2> HIDE DEF new, stop
  <2> QED
    BY <1>2, <1>3, <2>2, <2>3 DEF new, Lengthened
<1>4. CASE stop # {}
  <2> DEFINE c == advice.strategy[CHOOSE i \in stop : TRUE].compound
  <2>1. new = [car EXCEPT !.age = 1, !.stint = @ + 1, !.stops = @ + 1, !.compound = c,
                          !.next = @ + u + v, !.times = Append(@, car.next + u + v),
                          !.stopped = @ \cup {car.laps + 1}]
    BY <1>4 DEF Scheduled
  <2> HIDE DEF c
  <2>2. /\ DOMAIN new = CarKeys /\ new.laps = car.laps /\ new.next = car.next + u + v
        /\ new.times = Append(car.times, car.next + u + v)
        /\ new.stopped = car.stopped \cup {car.laps + 1} /\ new.stops = car.stops + 1
    BY <2>1 DEF CarKeys
  <2>3. car.next + u + v \in Int /\ car.next + u + v > car.next
    BY <1>1
  <2> HIDE DEF new, stop
  <2> QED
    BY <1>2, <1>4, <2>2, <2>3 DEF new, Lengthened
<1> QED
  BY <1>3, <1>4

(* A car that is Ready and begins a lap is CarOk, on that lap. *)
LEMMA ScheduledOk ==
  ASSUME Advised, NEW d \in DOMAIN advice.field, NEW car, Ready(car, d),
         NEW u \in Duration, NEW v \in Loss, Scheduled(car, d, u, v).next > advice.at
  PROVE  LET new == Scheduled(car, d, u, v)
         IN /\ CarOk(new, car.laps + 1, d) /\ new.laps = car.laps /\ new.next > car.next
            /\ \A i \in 1..Len(car.times) : new.times[i] = car.times[i]
<1> DEFINE new == Scheduled(car, d, u, v)
           n == Len(car.times)
           stops == car.laps + 1 \in Planned(d)
           base == Base(d)
<1>1. /\ DOMAIN car = CarKeys /\ car.laps \in Nat /\ car.laps >= base /\ car.times \in Seq(Int)
      /\ n = car.laps - base /\ \A i, j \in 1..n : i < j => car.times[i] < car.times[j]
      /\ 1 <= n => car.times[1] > advice.at
      /\ car.stopped = {k \in Planned(d) : k <= car.laps} /\ IsFiniteSet(car.stopped)
      /\ car.stops = advice.field[d].stops + Cardinality(car.stopped)
      /\ car.next \in Int /\ \A i \in 1..n : car.times[i] <= car.next
  BY DEF Ready, CarRun
<1>2. /\ DOMAIN new = CarKeys /\ new.laps = car.laps
      /\ new.next \in Int /\ new.next > car.next
      /\ new.times = Append(car.times, new.next)
      /\ new.stopped = IF stops THEN car.stopped \cup {car.laps + 1} ELSE car.stopped
      /\ new.stops = IF stops THEN car.stops + 1 ELSE car.stops
  <2>1. DOMAIN car = CarKeys /\ car.laps \in Nat /\ car.next \in Int
    BY <1>1
  <2>2. Lengthened(new, car, d, u, v)
    BY <2>1, ScheduledCar
  <2> HIDE DEF new, n, base
  <2> QED
    BY ONLY <2>2 DEF Lengthened, stops
<1>3. base \in Nat /\ advice.field[d].stops \in Nat /\ advice.at \in Nat /\ \A k \in Planned(d) : k \in Int
  BY DEF Advised, FieldRow, Base
<1>4. new.next > advice.at
  OBVIOUS
<1> HIDE DEF new, n, stops, base
<1>5. n \in Nat /\ \A i \in 1..n : car.times[i] \in Int
  BY <1>1, LenProperties, ElementOfSeq DEF n
<1>6. /\ new.times \in Seq(Int) /\ Len(new.times) = n + 1
      /\ \A i \in 1..n : new.times[i] = car.times[i]
      /\ new.times[n + 1] = new.next
  BY <1>1, <1>2, <1>5, AppendProperties DEF n
<1>7. \A i, j \in 1..(n + 1) : i < j => new.times[i] < new.times[j]
  <2> SUFFICES ASSUME NEW i \in 1..(n + 1), NEW j \in 1..(n + 1), i < j
               PROVE  new.times[i] < new.times[j]
    OBVIOUS
  <2>1. i \in 1..n /\ (j = n + 1 \/ j \in 1..n)
    BY <1>5
  <2>2. CASE j = n + 1
    <3>1. car.times[i] <= car.next /\ car.times[i] \in Int
      BY <1>1, <1>5, <2>1
    <3> QED
      BY <1>1, <1>2, <1>6, <2>1, <2>2, <3>1, SMTT(30)
  <2>3. CASE j \in 1..n
    BY <1>1, <1>6, <2>1, <2>3
  <2> QED
    BY <2>1, <2>2, <2>3
<1>8. new.times[1] > advice.at
  <2>1. CASE n = 0
    BY <1>4, <1>6, <2>1
  <2>2. CASE n # 0
    <3>1. 1 \in 1..n /\ 1 <= n
      BY <1>5, <2>2
    <3> QED
      BY <1>1, <1>6, <3>1
  <2> QED
    BY <2>1, <2>2
<1>9. /\ new.stopped = {k \in Planned(d) : k <= car.laps + 1}
      /\ IsFiniteSet(new.stopped) /\ new.stops = advice.field[d].stops + Cardinality(new.stopped)
  <2>1. \A k \in Planned(d) : k <= car.laps + 1 <=> (k <= car.laps \/ k = car.laps + 1)
    <3>1. car.laps \in Int /\ \A k \in Planned(d) : k \in Int
      BY <1>1, <1>3
    <3> QED
      BY ONLY <3>1
  <2>2. CASE stops
    <3>1. new.stopped = {k \in Planned(d) : k <= car.laps + 1}
      BY <1>1, <1>2, <2>1, <2>2 DEF stops
    <3>2. car.laps + 1 \notin car.stopped
      BY <1>1
    <3>3. new.stopped = car.stopped \cup {car.laps + 1} /\ IsFiniteSet(car.stopped)
          /\ car.stops = advice.field[d].stops + Cardinality(car.stopped)
      BY <1>1, <1>2, <2>2
    <3>4. Cardinality(car.stopped) \in Nat
      BY <3>3, FS_CardinalityType
    <3>5. IsFiniteSet(new.stopped) /\ Cardinality(new.stopped) = Cardinality(car.stopped) + 1
      <4> DEFINE S == car.stopped
                 x == car.laps + 1
      <4>1. IsFiniteSet(S) /\ x \notin S /\ new.stopped = S \cup {x}
        BY <3>2, <3>3
      <4> HIDE DEF S, x
      <4>2. IsFiniteSet(S \cup {x}) /\ Cardinality(S \cup {x}) = Cardinality(S) + 1
        BY <4>1, FS_AddElement
      <4> QED
        BY <4>1, <4>2 DEF S
    <3>6. new.stops = car.stops + 1
      BY <1>2, <2>2
    <3>7. new.stops = advice.field[d].stops + Cardinality(new.stopped)
      BY <1>3, <3>3, <3>4, <3>5, <3>6
    <3> QED
      BY <3>1, <3>5, <3>7
  <2>3. CASE ~ stops
    <3>1. new.stopped = {k \in Planned(d) : k <= car.laps + 1}
      BY <1>1, <1>2, <2>1, <2>3 DEF stops
    <3> QED
      BY <1>1, <1>2, <2>3, <3>1
  <2> QED
    BY <2>2, <2>3
<1>10. n + 1 = (car.laps + 1) - base /\ 1 <= n + 1 /\ car.laps + 1 \in Int
  BY <1>1, <1>3, <1>5
<1>11. CarRun(new, car.laps + 1, d)
  BY <1>1, <1>2, <1>6, <1>7, <1>8, <1>9, <1>10 DEF CarRun, base
<1>12. CarOk(new, car.laps + 1, d)
  BY <1>6, <1>10, <1>11 DEF CarOk
<1> QED
  BY <1>2, <1>6, <1>12 DEF new, n

(* A car that completes the lap it is on. *)
LEMMA CompletedLap ==
  ASSUME Advised, NEW d \in DOMAIN advice.field, NEW car, CarOk(car, car.laps + 1, d)
  PROVE  LET new == [car EXCEPT !.laps = @ + 1]
         IN /\ Ready(new, d) /\ CarOk(new, car.laps + 1, d)
            /\ new.laps = car.laps + 1 /\ new.times = car.times /\ new.next = car.next
            /\ car.next \in Int /\ car.next > advice.at
<1> DEFINE new == [car EXCEPT !.laps = @ + 1]
           n == Len(car.times)
<1>1. /\ DOMAIN car = CarKeys /\ car.laps \in Nat /\ car.laps >= Base(d) /\ car.times \in Seq(Int)
      /\ n = (car.laps + 1) - Base(d) /\ \A i, j \in 1..n : i < j => car.times[i] < car.times[j]
      /\ 1 <= n /\ car.times[1] > advice.at /\ car.next = car.times[n]
  BY DEF CarOk, CarRun
<1>2. /\ DOMAIN new = CarKeys /\ new.laps = car.laps + 1 /\ new.times = car.times /\ new.next = car.next
      /\ new.stopped = car.stopped /\ new.stops = car.stops
  BY <1>1 DEF CarKeys
<1>3. Base(d) \in Nat /\ advice.at \in Nat
  BY DEF Advised, FieldRow, Base
<1>4. n \in Nat /\ \A i \in 1..n : car.times[i] \in Int
  BY <1>1, LenProperties, ElementOfSeq
<1> HIDE DEF new, n
<1>5. n \in 1..n /\ 1 \in 1..n
  BY <1>1, <1>4
<1>6. car.next \in Int /\ \A i \in 1..n : car.times[i] <= car.next
  <2> SUFFICES ASSUME NEW i \in 1..n PROVE car.next \in Int /\ car.times[i] <= car.next
    BY <1>5
  <2>1. i = n \/ i < n
    BY <1>4
  <2>2. car.next \in Int /\ car.times[i] \in Int
    BY <1>1, <1>4, <1>5
  <2> QED
    BY <1>1, <1>5, <2>1, <2>2, SMTT(30)
<1>7. car.next > advice.at
  <2>1. car.times[1] <= car.next /\ car.times[1] \in Int
    BY <1>4, <1>5, <1>6
  <2> QED
    BY <1>1, <1>3, <1>6, <2>1, SMTT(30)
<1>8. CarRun(new, car.laps + 1, d)
  <2>1. car.laps + 1 \in Nat /\ car.laps + 1 >= Base(d)
    BY <1>1, <1>3, SMTT(30)
  <2> QED
    BY <1>1, <1>2, <2>1 DEF CarOk, CarRun, n
<1>9. CarOk(new, car.laps + 1, d)
  BY <1>1, <1>2, <1>8 DEF CarOk, n
<1>10. Ready(new, d)
  BY <1>2, <1>6, <1>8 DEF Ready, n
<1> QED
  BY <1>2, <1>6, <1>7, <1>9, <1>10 DEF new

(* A race follows a replay. *)
LEMMA AdviceReplays == AdviceSpec => ReplaySpec
<1>1. AdviceInit => ReplayInit
  BY DEF AdviceInit
<1>2. [AdviceNext]_adviceVars => [ReplayNext]_replayVars
  <2> SUFFICES ASSUME [AdviceNext]_adviceVars PROVE ReplayNext \/ UNCHANGED replayVars
    OBVIOUS
  <2>1. Ingest \/ Open => ReplayNext
    BY DEF ReplayNext
  <2>2. CASE UNCHANGED adviceVars
    BY <2>2 DEF adviceVars
  <2>3. CASE AdviceNext
    BY <2>1, <2>3 DEF AdviceNext, BuildDataset, Predict, Simulate, Compare, Start, NextLap
  <2> QED
    BY <2>2, <2>3
<1> QED
  BY <1>1, <1>2, PTL DEF AdviceSpec, ReplaySpec

(* The strategies compared stop on laps. *)
LEMMA CandidateLaps ==
  ASSUME NEW entry, entry.laps \in Nat, NEW total \in Nat, NEW strategy \in Candidates(entry, total)
  PROVE  \A i \in DOMAIN strategy : strategy[i].lap \in Int
<1> DEFINE first == Actionable(entry)
           rest == total - first + 1
           Half(c) == <<[lap |-> first + (rest - 1) \div 2, compound |-> c]>>
           Thirds == <<[lap |-> first + rest \div 3, compound |-> TwoStop[1]],
                       [lap |-> first + (2 * rest) \div 3, compound |-> TwoStop[2]]>>
<1>1. first \in Int /\ rest \in Int
  BY DEF Actionable
<1>2. strategy = <<>> \/ (\E c \in Dry : strategy = Half(c)) \/ strategy = Thirds
  <2>1. strategy \in {Stay} \cup {Half(c) : c \in Dry \ {entry.compound}}
                            \cup (IF rest >= LongRest THEN {Thirds} ELSE {})
    BY DEF Candidates
  <2> HIDE DEF Half, Thirds, rest
  <2> QED
    BY <2>1 DEF Stay
<1> HIDE DEF first, rest
<1>3. ASSUME NEW c \in Dry, strategy = Half(c) PROVE \A i \in DOMAIN strategy : strategy[i].lap \in Int
  BY <1>1, <1>3
<1>4. ASSUME strategy = Thirds PROVE \A i \in DOMAIN strategy : strategy[i].lap \in Int
  <2>1. first + rest \div 3 \in Int /\ first + (2 * rest) \div 3 \in Int
    BY <1>1
  <2>2. DOMAIN strategy = 1..2 /\ strategy[1].lap = first + rest \div 3 /\ strategy[2].lap = first + (2 * rest) \div 3
    BY <1>4
  <2> QED
    BY <2>1, <2>2
<1> QED
  BY <1>2, <1>3, <1>4

(* What is asked of a field at the cursor is of the laps its cars have ended,    *)
(* and of stops that none of them has passed.                                   *)
LEMMA FieldAdvised ==
  ASSUME Engaged, engine # None, NEW d, NEW t \in Time, NEW total \in Distance, FieldAt(d, t, total) # None
  PROVE  LET field == FieldAt(d, t, total)
         IN /\ t \in Nat /\ total \in Nat /\ d \in DOMAIN field
            /\ IsFiniteSet(DOMAIN field) /\ DOMAIN field \subseteq Nat
            /\ \A o \in DOMAIN field : FieldRow(field[o], t) /\ FromLastLap(stored.session, o, field[o])
<1> DEFINE field == FieldAt(d, t, total)
           s == stored.session
           got == StateAt(stored, engine, t)
<1>1. t \in Nat /\ total \in Nat
  BY TimeAssumption, RaceAssumption
<1>2. rows \in Sessions /\ stored = [session |-> Session(rows), events |-> Timeline(Session(rows))]
      /\ Valid(Session(rows))
  BY DEF Engaged, Ingested
<1>3. PICK k \in Interval : engine = Opened(stored, k)
  BY DEF Engaged
<1>4. s = Session(rows) /\ Tabled(s) /\ Valid(s) /\ stored = [session |-> s, events |-> Timeline(s)]
  BY <1>2, SessionTabled
<1>5. "state" \in DOMAIN got /\ field = BuildState(s, got, d, t, total)
  BY DEF FieldAt
<1>6. got = StateAt([session |-> s, events |-> Timeline(s)], Opened([session |-> s, events |-> Timeline(s)], k), t)
  BY <1>3, <1>4
<1> HIDE DEF field, s, got
<1>7. field # None
  BY DEF field
<1>8. /\ d \in DOMAIN field /\ IsFiniteSet(DOMAIN field)
      /\ \A o \in DOMAIN field : FieldRow(field[o], t) /\ FromLastLap(s, o, field[o])
  BY <1>1, <1>4, <1>5, <1>6, <1>7, FieldEntries
<1>9. \A o \in DOMAIN field : o \in Nat
  BY <1>4, <1>8 DEF FromLastLap, LapsFor, Tabled, LapTable, Lap
<1> QED
  BY <1>1, <1>8, <1>9 DEF field, s

AdvisedInv == (advice # None => engine # None) /\ (Simulation => Advised)

(* The advice asked for is Advised. *)
LEMMA AskedAdvised ==
  ASSUME Engaged, engine # None, NEW d, NEW t \in Time, NEW total \in Distance, NEW strategy,
         \A i \in DOMAIN strategy : strategy[i].lap \in Int,
         FieldAt(d, t, total) # None => ValidStrategy(strategy, FieldAt(d, t, total)[d], total),
         advice' = Asked(d, t, strategy, total, FieldAt(d, t, total)), UNCHANGED replayVars
  PROVE  AdvisedInv'
<1> DEFINE field == FieldAt(d, t, total)
<1>1. engine' # None /\ stored' = stored
  BY DEF replayVars
<1>2. /\ advice'.driver = d /\ advice'.at = t /\ advice'.strategy = strategy
      /\ advice'.total = total /\ advice'.field = field
  BY DEF Asked
<1>3. ASSUME field # None PROVE Advised'
  <2>1. /\ t \in Nat /\ total \in Nat /\ d \in DOMAIN field
        /\ IsFiniteSet(DOMAIN field) /\ DOMAIN field \subseteq Nat
        /\ \A o \in DOMAIN field : FieldRow(field[o], t) /\ FromLastLap(stored.session, o, field[o])
    BY <1>3, FieldAdvised
  <2>2. \A i \in DOMAIN strategy : strategy[i].lap >= field[d].laps + 2
    BY <1>3 DEF ValidStrategy, Actionable
  <2> HIDE DEF field
  <2>3. \A o \in DOMAIN field : \A n \in Planned(o)' : n \in Int /\ n >= Base(o)' + 2
    BY <1>2, <2>2 DEF Planned, Base
  <2> QED
    BY <1>1, <1>2, <2>1, <2>3 DEF Advised
<1> HIDE DEF field
<1> QED
  BY <1>1, <1>2, <1>3 DEF AdvisedInv, Simulation

(* Advice is Advised, and follows from the replay's state. *)
LEMMA AdvisedHolds == AdviceSpec => []AdvisedInv
<1>1. AdviceInit => AdvisedInv
  BY DEF AdviceInit, AdvisedInv, Simulation
<1>2. Engaged /\ AdvisedInv /\ [AdviceNext]_adviceVars => AdvisedInv'
  <2> SUFFICES ASSUME Engaged, AdvisedInv, [AdviceNext]_adviceVars PROVE AdvisedInv'
    OBVIOUS
  <2>1. ASSUME UNCHANGED <<advice, stored>>, engine # None => engine' # None PROVE AdvisedInv'
    BY <2>1 DEF AdvisedInv, Simulation, Advised, Base, Planned
  <2>2. CASE Ingest /\ UNCHANGED <<advice, race>>
    <3>1. engine = None /\ advice = None /\ advice' = None
      BY <2>2 DEF Ingest, Engaged, AdvisedInv
    <3> QED
      BY <3>1 DEF AdvisedInv, Simulation
  <2>3. CASE Open /\ UNCHANGED <<advice, race>>
    <3>1. engine = None /\ advice = None /\ advice' = None
      BY <2>3 DEF Open, AdvisedInv
    <3> QED
      BY <3>1 DEF AdvisedInv, Simulation
  <2>4. CASE BuildDataset \/ \E d \in Driver, t \in Time : Predict(d, t)
    <3>1. engine' # None /\ advice'.kind \in {"examples", "forecast"}
      BY <2>4 DEF BuildDataset, Predict, replayVars
    <3> QED
      BY <3>1 DEF AdvisedInv, Simulation
  <2>5. ASSUME NEW d \in Driver, NEW t \in Time, NEW strategy \in Strategies, NEW total \in Distance,
               Simulate(d, t, strategy, total)
        PROVE  AdvisedInv'
    <3>1. \A i \in DOMAIN strategy : strategy[i].lap \in Int
      BY RaceAssumption
    <3> QED
      BY <2>5, <3>1, AskedAdvised DEF Simulate
  <2>6. ASSUME NEW d \in Driver, NEW t \in Time, NEW total \in Distance, Compare(d, t, total)
        PROVE  AdvisedInv'
    <3> DEFINE field == FieldAt(d, t, total)
               compared == Candidates(field[d], total)
    <3>1. engine # None /\ field # None /\ UNCHANGED replayVars
          /\ (\A strategy \in compared : ValidStrategy(strategy, field[d], total))
      BY <2>6 DEF Compare
    <3>2. PICK strategy \in compared : advice' = Asked(d, t, strategy, total, field)
      BY <2>6 DEF Compare
    <3>3. d \in DOMAIN field /\ FieldRow(field[d], t) /\ total \in Nat
      BY <3>1, FieldAdvised
    <3>4. \A i \in DOMAIN strategy : strategy[i].lap \in Int
      <4>1. field[d].laps \in Nat
        BY <3>3, SMTT(30) DEF FieldRow
      <4> HIDE DEF field
      <4> QED
        BY <3>3, <4>1, CandidateLaps
    <3> QED
      BY <3>1, <3>2, <3>4, AskedAdvised
  <2>7. CASE Start \/ NextLap
    BY <2>1, <2>7 DEF Start, NextLap, replayVars
  <2>8. CASE UNCHANGED adviceVars
    BY <2>1, <2>8 DEF adviceVars, replayVars
  <2> QED
    BY <2>2, <2>3, <2>4, <2>5, <2>6, <2>7, <2>8 DEF AdviceNext
<1> QED
  BY <1>1, <1>2, AdviceReplays, EngagedHolds, PTL DEF AdviceSpec

(* At the start every car of the field is on its next lap, ending after the      *)
(* cursor.                                                                      *)
LEMMA StartOk ==
  ASSUME Simulation, Advised, Start
  PROVE  RaceOk(race')
<1> DEFINE field == advice.field
           Car(d) == [laps |-> field[d].laps, next |-> field[d].at, compound |-> field[d].compound,
                      age |-> field[d].age, stint |-> field[d].stint, stops |-> field[d].stops,
                      times |-> <<>>, stopped |-> {}]
<1>1. PICK lasts \in [DOMAIN field -> Duration], loss \in Loss :
        /\ \A d \in DOMAIN field :
             lasts[d] + (IF Action(d, field[d].laps + 1) = {} THEN 0 ELSE loss) > field[d].elapsed
        /\ race' = [car |-> [d \in DOMAIN field |-> Scheduled(Car(d), d, lasts[d], loss)],
                    queued |-> [d \in DOMAIN field |-> Cardinality({o \in DOMAIN field : o < d})],
                    winner |-> None, over |-> FALSE]
  BY DEF Start
<1>2. /\ DOMAIN race' = {"car", "queued", "winner", "over"} /\ race'.over = FALSE /\ race'.winner = None
      /\ DOMAIN race'.car = DOMAIN field /\ DOMAIN race'.queued = DOMAIN field
      /\ \A d \in DOMAIN field : race'.car[d] = Scheduled(Car(d), d, lasts[d], loss)
  <2> HIDE DEF Car
  <2> QED
    BY <1>1
<1>3. ASSUME NEW d \in DOMAIN field
      PROVE  /\ CarOk(race'.car[d], field[d].laps + 1, d) /\ race'.car[d].laps = Base(d) /\ Base(d) \in Nat
  <2> DEFINE car == Car(d)
             new == Scheduled(car, d, lasts[d], loss)
  <2>1. /\ DOMAIN car = CarKeys /\ car.laps = field[d].laps /\ car.next = field[d].at
        /\ car.stops = field[d].stops /\ car.times = <<>> /\ car.stopped = {}
    BY DEF CarKeys
  <2>2. /\ field[d].laps \in Nat /\ field[d].at \in Nat /\ field[d].elapsed = advice.at - field[d].at
        /\ field[d].stops \in Nat /\ advice.at \in Nat /\ Base(d) = field[d].laps
        /\ \A n \in Planned(d) : n \in Int /\ n >= Base(d) + 2
    BY DEF Advised, FieldRow, Base
  <2>3. lasts[d] \in Duration /\ loss \in Loss /\ lasts[d] \in Nat /\ loss \in Nat
    BY RaceAssumption
  <2>4. lasts[d] + (IF Action(d, field[d].laps + 1) = {} THEN 0 ELSE loss) > field[d].elapsed
    BY <1>1
  <2> HIDE DEF car, field
  <2>5. CarRun(car, car.laps, d)
    <3>1. car.times \in Seq(Int) /\ Len(car.times) = 0
      BY <2>1, EmptySeq
    <3>2. {k \in Planned(d) : k <= car.laps} = {}
      BY <2>1, <2>2
    <3>3. IsFiniteSet(car.stopped) /\ Cardinality(car.stopped) = 0
      BY <2>1, FS_EmptySet
    <3>4. advice.field[d].stops = car.stops /\ car.stops \in Nat
      BY <2>1, <2>2 DEF field
    <3> QED
      BY <2>1, <2>2, <3>1, <3>2, <3>3, <3>4 DEF CarRun
  <2>6. Ready(car, d)
    <3>1. car.next \in Int /\ 1..Len(car.times) = {}
      BY <2>1, <2>2
    <3> QED
      BY <2>5, <3>1 DEF Ready
  <2>7. new.next > advice.at
    <3>1. car.laps + 1 \in Planned(d) <=> Action(d, field[d].laps + 1) # {}
      BY <2>1, PlannedActions
    <3>2. new.next = car.next + lasts[d] + (IF car.laps + 1 \in Planned(d) THEN loss ELSE 0)
      <4>1. DOMAIN car = CarKeys /\ car.laps \in Nat /\ car.next \in Int
        BY <2>1, <2>2
      <4>2. Lengthened(new, car, d, lasts[d], loss)
        BY <2>3, <4>1, ScheduledCar
      <4> HIDE DEF new
      <4> QED
        BY <4>2 DEF Lengthened
    <3> HIDE DEF new
    <3> QED
      BY <2>1, <2>2, <2>3, <2>4, <3>1, <3>2
  <2>8. CarOk(new, car.laps + 1, d) /\ new.laps = car.laps
    <3>1. d \in DOMAIN advice.field
      BY DEF field
    <3> QED
      BY ONLY Advised, <2>3, <2>6, <2>7, <3>1, ScheduledOk
  <2>9. race'.car[d] = new
    BY <1>2 DEF car
  <2> QED
    BY <2>1, <2>2, <2>8, <2>9
<1> HIDE DEF Car
<1>4. \A d \in DOMAIN race'.car : CarOk(race'.car[d], BegunIn(race', d), d)
  <2> SUFFICES ASSUME NEW d \in DOMAIN field PROVE CarOk(race'.car[d], BegunIn(race', d), d)
    BY <1>2
  <2>1. BegunIn(race', d) = field[d].laps + 1
    BY <1>2, <1>3 DEF BegunIn, Base
  <2> QED
    BY <1>3, <2>1
<1>5. ASSUME Fair(race') PROVE OrderOk(race')
  <2>1. \A d \in DOMAIN field : Completes(race', d) = {}
    <3> SUFFICES ASSUME NEW d \in DOMAIN field PROVE Completes(race', d) = {}
      OBVIOUS
    <3>1. race'.car[d].laps - Base(d) = 0
      BY <1>3
    <3> QED
      BY <3>1 DEF Completes
  <2>2. \A d \in DOMAIN field : race'.car[d].laps < advice.total
    BY <1>2, <1>3, <1>5 DEF Fair
  <2>3. ~ Known(race'.winner)
    BY <1>2 DEF Known
  <2> QED
    BY <1>2, <2>1, <2>2, <2>3 DEF OrderOk
<1> HIDE DEF field
<1> QED
  BY <1>2, <1>4, <1>5 DEF RaceOk, field

(* The car that is first in the queue ends its lap before the others do.         *)
LEMMA FirstEndsFirst ==
  ASSUME NEW a, NEW b, NEW x, NEW y, ~ Before(<<b, y>>, <<a, x>>), a \in Int, b \in Int
  PROVE  a <= b
<1> SUFFICES ASSUME b < a PROVE FALSE
  OBVIOUS
<1> DEFINE p == <<b, y>>
           q == <<a, x>>
<1>1. DOMAIN p = 1..2 /\ p[1] = b /\ q[1] = a
  OBVIOUS
<1> HIDE DEF p, q
<1>2. 1 \in DOMAIN p /\ p[1] < q[1] /\ \A j \in 1..(1 - 1) : p[j] = q[j]
  BY <1>1
<1>3. Before(p, q)
  BY <1>2 DEF Before
<1> QED
  BY <1>3 DEF p, q

(* A lap completed, of a car in the queue: when it is the last ...               *)
LEMMA FinishOk ==
  ASSUME Advised, NEW r, RaceOk(r), r.over = FALSE, NEW d \in DOMAIN r.queued,
         \A o \in DOMAIN r.queued : r.car[d].next <= r.car[o].next,
         ~ TooLate(r.car[d].next, r.winner), r.car[d].laps + 1 >= advice.total,
         NEW r2,
         r2 = [r EXCEPT !.car[d] = [r.car[d] EXCEPT !.laps = @ + 1],
                        !.queued = [o \in DOMAIN r.queued \ {d} |-> r.queued[o]],
                        !.winner = IF Known(@) THEN @ ELSE r.car[d].next]
  PROVE  RaceOk(r2)
<1> DEFINE cars == DOMAIN r.car
           queue == DOMAIN r.queued
           old == r.car[d]
           car == [old EXCEPT !.laps = @ + 1]
           w == IF Known(r.winner) THEN r.winner ELSE old.next
           q2 == [o \in queue \ {d} |-> r.queued[o]]
<1>1. /\ DOMAIN r = {"car", "queued", "winner", "over"}
      /\ cars = DOMAIN advice.field /\ queue \subseteq cars /\ d \in cars
      /\ \A o \in cars : CarOk(r.car[o], BegunIn(r, o), o)
  BY DEF RaceOk
<1>2. r2 = [r EXCEPT !.car[d] = car, !.queued = q2, !.winner = w]
  OBVIOUS
<1>3. CarOk(old, old.laps + 1, d)
  BY <1>1 DEF BegunIn
<1>4. /\ Ready(car, d) /\ CarOk(car, old.laps + 1, d)
      /\ car.laps = old.laps + 1 /\ car.times = old.times /\ car.next = old.next
      /\ old.next \in Int
  BY <1>1, <1>3, CompletedLap
<1>5. old.laps \in Nat
  BY <1>3 DEF CarOk, CarRun
<1> HIDE DEF car, w, q2
<1>6. /\ DOMAIN r2 = {"car", "queued", "winner", "over"} /\ r2.over = FALSE
      /\ DOMAIN r2.car = cars /\ DOMAIN r2.queued = queue \ {d} /\ r2.winner = w
      /\ r2.car[d] = car /\ \A o \in cars \ {d} : r2.car[o] = r.car[o]
  <2>1. DOMAIN q2 = queue \ {d}
    BY DEF q2
  <2> QED
    BY <1>1, <1>2, <2>1, ZenonT(60)
<1>7. \A o \in cars : CarOk(r2.car[o], BegunIn(r2, o), o)
  <2> SUFFICES ASSUME NEW o \in cars PROVE CarOk(r2.car[o], BegunIn(r2, o), o)
    OBVIOUS
  <2>1. CASE o = d
    <3>1. BegunIn(r2, d) = old.laps + 1
      BY <1>4, <1>5, <1>6 DEF BegunIn
    <3> QED
      BY <1>4, <1>6, <2>1, <3>1
  <2>2. CASE o # d
    <3>1. r2.car[o] = r.car[o] /\ BegunIn(r2, o) = BegunIn(r, o)
      BY <1>6, <2>2 DEF BegunIn
    <3> QED
      BY <1>1, <3>1
  <2> QED
    BY <2>1, <2>2
<1>8. ASSUME Fair(r2) PROVE OrderOk(r2)
  <2>1. Fair(r)
    BY <1>6, <1>8 DEF Fair
  <2>2. OrderOk(r)
    BY <2>1 DEF RaceOk
  <2>3. old.laps < advice.total /\ car.laps = advice.total
    <3>1. old.laps < advice.total /\ advice.total \in Nat
      BY <2>2 DEF OrderOk, Advised
    <3> QED
      BY <1>4, <1>5, <3>1
  <2>4. w = old.next /\ Known(w)
    <3>1. CASE Known(r.winner)
      <4>1. r.winner \in Int /\ r.winner <= old.next
        BY <2>2, <3>1 DEF OrderOk
      <4>2. ~ (old.next > r.winner)
        BY <3>1 DEF TooLate
      <4> QED
        BY <1>4, <3>1, <4>1, <4>2 DEF w
    <3>2. CASE ~ Known(r.winner)
      BY <1>4, <3>2, NoneIsNoNumber DEF w, Known
    <3> QED
      BY <3>1, <3>2
  <2>5. \A c \in cars : \A t \in Completes(r2, c) : t \in Int /\ t <= old.next
    <3> SUFFICES ASSUME NEW c \in cars, NEW t \in Completes(r2, c) PROVE t \in Int /\ t <= old.next
      OBVIOUS
    <3>1. CASE c = d
      <4>1. car.times \in Seq(Int) /\ Len(car.times) = car.laps - Base(d)
            /\ \A i \in 1..Len(car.times) : car.times[i] <= car.next
        BY <1>4 DEF Ready, CarRun
      <4>2. PICK i \in 1..Len(car.times) : t = car.times[i]
        <5>1. r2.car[d] = car /\ c = d
          BY <1>6, <3>1
        <5>2. t \in {car.times[i] : i \in 1..(car.laps - Base(d))}
          BY <5>1 DEF Completes
        <5> QED
          BY <4>1, <5>2
      <4>3. t \in Int
        BY <4>1, <4>2, ElementOfSeq
      <4> QED
        BY <1>4, <4>1, <4>2, <4>3
    <3>2. CASE c # d
      <4>1. Completes(r2, c) = Completes(r, c)
        BY <1>6, <3>2 DEF Completes
      <4>2. t <= old.next
        BY <2>2, <4>1 DEF OrderOk
      <4>3. /\ r.car[c].times \in Seq(Int) /\ Len(r.car[c].times) = BegunIn(r, c) - Base(c)
            /\ r.car[c].laps \in Nat /\ r.car[c].laps >= Base(c)
        BY <1>1 DEF CarOk, CarRun
      <4>4. PICK i \in 1..(r.car[c].laps - Base(c)) : t = r.car[c].times[i]
        BY <4>1 DEF Completes
      <4>5. Base(c) \in Nat
        BY <1>1 DEF Advised, FieldRow, Base
      <4>6. i \in 1..Len(r.car[c].times)
        BY <4>3, <4>4, <4>5 DEF BegunIn
      <4>7. t \in Int
        BY <4>3, <4>4, <4>6, ElementOfSeq
      <4> QED
        BY <4>2, <4>7
    <3> QED
      BY <3>1, <3>2
  <2>6. ASSUME NEW o \in queue PROVE r.car[o].next \in Int /\ old.next <= r.car[o].next
    <3>1. CarOk(r.car[o], BegunIn(r, o), o)
      BY <1>1
    <3>2. r.car[o].next = r.car[o].times[Len(r.car[o].times)] /\ r.car[o].times \in Seq(Int)
          /\ 1 <= Len(r.car[o].times)
      BY <3>1 DEF CarOk, CarRun
    <3>3. Len(r.car[o].times) \in 1..Len(r.car[o].times)
      BY <3>2, LenProperties
    <3>4. r.car[o].next \in Int
      BY <3>2, <3>3, ElementOfSeq
    <3> QED
      BY <3>4
  <2>7. \A c \in cars, o \in queue \ {d} : \A t \in Completes(r2, c) : t <= r2.car[o].next
    <3> SUFFICES ASSUME NEW c \in cars, NEW o \in queue \ {d}, NEW t \in Completes(r2, c)
                 PROVE  t <= r2.car[o].next
      OBVIOUS
    <3>1. r2.car[o] = r.car[o]
      BY <1>1, <1>6
    <3>2. t \in Int /\ t <= old.next
      BY <2>5
    <3>3. r.car[o].next \in Int /\ old.next <= r.car[o].next
      BY <2>6
    <3> QED
      BY <1>4, <3>1, <3>2, <3>3
  <2>8. \A o \in queue \ {d} : r2.car[o].laps < advice.total /\ w <= r2.car[o].next
    BY <1>1, <1>6, <2>2, <2>4, <2>6 DEF OrderOk
  <2>9. \A c \in cars \ (queue \ {d}) : r2.car[c].laps = advice.total /\ r2.car[c].next = w
    <3> SUFFICES ASSUME NEW c \in cars \ (queue \ {d})
                 PROVE  r2.car[c].laps = advice.total /\ r2.car[c].next = w
      OBVIOUS
    <3>1. CASE c = d
      BY <1>4, <1>6, <2>3, <2>4, <3>1
    <3>2. CASE c # d
      BY <1>6, <2>2, <3>2 DEF OrderOk, w
    <3> QED
      BY <3>1, <3>2
  <2>10. queue \ {d} # cars
    BY <1>1
  <2> QED
    <3>1. w \in Int /\ \A c \in cars : \A t \in Completes(r2, c) : t <= w
      BY <1>4, <2>4, <2>5
    <3> QED
      BY ONLY <1>6, <2>4, <2>7, <2>8, <2>9, <2>10, <3>1, SMTT(30) DEF OrderOk
<1> QED
  BY <1>1, <1>6, <1>7, <1>8 DEF RaceOk

(* ... and when it is not, and the car begins another.                          *)
LEMMA GoesOnOk ==
  ASSUME Advised, NEW r, RaceOk(r), r.over = FALSE, NEW d \in DOMAIN r.queued,
         \A o \in DOMAIN r.queued : r.car[d].next <= r.car[o].next,
         ~ TooLate(r.car[d].next, r.winner), ~ (r.car[d].laps + 1 >= advice.total),
         NEW u \in Duration, NEW v \in Loss, NEW last, NEW r2,
         r2 = [r EXCEPT !.car[d] = Scheduled([r.car[d] EXCEPT !.laps = @ + 1], d, u, v),
                        !.queued[d] = last + 1]
  PROVE  RaceOk(r2)
<1> DEFINE cars == DOMAIN r.car
           queue == DOMAIN r.queued
           old == r.car[d]
           car == [old EXCEPT !.laps = @ + 1]
           new == Scheduled(car, d, u, v)
<1>1. /\ DOMAIN r = {"car", "queued", "winner", "over"}
      /\ cars = DOMAIN advice.field /\ queue \subseteq cars /\ d \in cars /\ d \in DOMAIN advice.field
      /\ \A o \in cars : CarOk(r.car[o], BegunIn(r, o), o)
  BY DEF RaceOk
<1> DEFINE c2 == [r.car EXCEPT ![d] = new]
           q2 == [r.queued EXCEPT ![d] = last + 1]
<1>2. r2 = [r EXCEPT !.car = c2, !.queued = q2]
  OBVIOUS
<1>3. CarOk(old, old.laps + 1, d)
  BY <1>1 DEF BegunIn
<1>4. /\ Ready(car, d)
      /\ car.laps = old.laps + 1 /\ car.times = old.times /\ car.next = old.next
      /\ old.next \in Int /\ old.next > advice.at
  BY <1>1, <1>3, CompletedLap
<1>5. old.laps \in Nat /\ advice.at \in Nat /\ advice.total \in Nat
  BY <1>3 DEF CarOk, CarRun, Advised
<1>6. DOMAIN car = CarKeys /\ car.laps \in Nat /\ car.next \in Int
  BY <1>4 DEF Ready, CarRun
<1> HIDE DEF car
<1>7. new.next \in Int /\ new.next > car.next
  <2>1. Lengthened(new, car, d, u, v)
    BY <1>6, ScheduledCar
  <2> HIDE DEF new
  <2> QED
    BY <2>1 DEF Lengthened
<1>8. Scheduled(car, d, u, v).next > advice.at
  <2> HIDE DEF new
  <2>1. new.next > advice.at
    BY <1>4, <1>5, <1>7
  <2> QED
    BY <2>1 DEF new
<1>9. /\ CarOk(new, car.laps + 1, d) /\ new.laps = car.laps
      /\ \A i \in 1..Len(car.times) : new.times[i] = car.times[i]
  BY ONLY Advised, <1>1, <1>4, <1>8, u \in Duration, v \in Loss, ScheduledOk
<1> HIDE DEF new
<1>10. /\ DOMAIN r2 = {"car", "queued", "winner", "over"} /\ r2.over = FALSE
       /\ DOMAIN r2.car = cars /\ DOMAIN r2.queued = queue /\ r2.winner = r.winner
       /\ r2.car[d] = new /\ \A o \in cars \ {d} : r2.car[o] = r.car[o]
  <2>1. DOMAIN c2 = cars /\ c2[d] = new /\ DOMAIN q2 = queue /\ \A o \in cars \ {d} : c2[o] = r.car[o]
    BY <1>1
  <2> HIDE DEF c2, q2
  <2> QED
    BY <1>1, <1>2, <2>1
<1>11. \A o \in cars : CarOk(r2.car[o], BegunIn(r2, o), o)
  <2> SUFFICES ASSUME NEW o \in cars PROVE CarOk(r2.car[o], BegunIn(r2, o), o)
    OBVIOUS
  <2>1. CASE o = d
    <3>1. BegunIn(r2, d) = car.laps + 1
      BY <1>9, <1>10 DEF BegunIn
    <3> QED
      BY <1>9, <1>10, <2>1, <3>1
  <2>2. CASE o # d
    <3>1. r2.car[o] = r.car[o] /\ BegunIn(r2, o) = BegunIn(r, o)
      BY <1>10, <2>2 DEF BegunIn
    <3> QED
      BY <1>1, <3>1
  <2> QED
    BY <2>1, <2>2
<1>12. ASSUME Fair(r2) PROVE OrderOk(r2)
  <2>1. Fair(r)
    BY <1>10, <1>12 DEF Fair
  <2>2. OrderOk(r)
    BY <2>1 DEF RaceOk
  <2>3. \A t \in Completes(r2, d) : t \in Int /\ t <= old.next
    <3> SUFFICES ASSUME NEW t \in Completes(r2, d) PROVE t \in Int /\ t <= old.next
      OBVIOUS
    <3>1. car.times \in Seq(Int) /\ Len(car.times) = car.laps - Base(d)
          /\ \A i \in 1..Len(car.times) : car.times[i] <= car.next
      BY <1>4 DEF Ready, CarRun
    <3>2. PICK i \in 1..Len(car.times) : t = car.times[i]
      BY <1>9, <1>10, <3>1 DEF Completes
    <3>3. t \in Int
      BY <3>1, <3>2, ElementOfSeq
    <3> QED
      BY <1>4, <3>1, <3>2, <3>3
  <2>4. \A c \in cars \ {d} : Completes(r2, c) = Completes(r, c)
    BY <1>10 DEF Completes
  <2>5. ASSUME NEW o \in queue PROVE r.car[o].next \in Int /\ old.next <= r.car[o].next
    <3>1. CarOk(r.car[o], BegunIn(r, o), o)
      BY <1>1
    <3>2. r.car[o].next = r.car[o].times[Len(r.car[o].times)] /\ r.car[o].times \in Seq(Int)
          /\ 1 <= Len(r.car[o].times)
      BY <3>1 DEF CarOk, CarRun
    <3>3. Len(r.car[o].times) \in 1..Len(r.car[o].times)
      BY <3>2, LenProperties
    <3>4. r.car[o].next \in Int
      BY <3>2, <3>3, ElementOfSeq
    <3> QED
      BY <3>4
  <2>6. \A c \in cars, o \in queue : \A t \in Completes(r2, c) : t <= r2.car[o].next
    <3> SUFFICES ASSUME NEW c \in cars, NEW o \in queue, NEW t \in Completes(r2, c)
                 PROVE  t <= r2.car[o].next
      OBVIOUS
    <3>1. CASE c = d /\ o = d
      BY <1>4, <1>7, <1>10, <2>3, <3>1
    <3>2. CASE c = d /\ o # d
      <4>1. r2.car[o].next = r.car[o].next
        BY <1>1, <1>10, <3>2
      <4> QED
        BY <1>4, <2>3, <2>5, <3>2, <4>1
    <3>3. CASE c # d /\ o = d
      <4>1. t \in Completes(r, c) /\ t <= old.next
        BY <2>2, <2>4, <3>3 DEF OrderOk
      <4>2. t \in Int
        <5>1. /\ r.car[c].times \in Seq(Int) /\ Len(r.car[c].times) = BegunIn(r, c) - Base(c)
              /\ r.car[c].laps \in Nat /\ r.car[c].laps >= Base(c)
          BY <1>1 DEF CarOk, CarRun
        <5>2. PICK i \in 1..(r.car[c].laps - Base(c)) : t = r.car[c].times[i]
          BY <4>1 DEF Completes
        <5>3. Base(c) \in Nat
          BY <1>1 DEF Advised, FieldRow, Base
        <5>4. i \in 1..Len(r.car[c].times)
          BY <5>1, <5>2, <5>3 DEF BegunIn
        <5> QED
          BY <5>1, <5>2, <5>4, ElementOfSeq
      <4> QED
        BY <1>4, <1>7, <1>10, <3>3, <4>1, <4>2
    <3>4. CASE c # d /\ o # d
      <4>1. t \in Completes(r, c) /\ r2.car[o].next = r.car[o].next
        BY <1>1, <1>10, <2>4, <3>4
      <4> QED
        BY <2>2, <4>1 DEF OrderOk
    <3> QED
      BY <3>1, <3>2, <3>3, <3>4
  <2>7. \A o \in queue : r2.car[o].laps < advice.total
    <3>1. new.laps < advice.total
      BY <1>4, <1>5, <1>9
    <3> QED
      BY <1>1, <1>10, <2>2, <3>1 DEF OrderOk
  <2>8. \A c \in cars \ queue : r2.car[c].laps = advice.total /\ Known(r2.winner) /\ r2.car[c].next = r2.winner
    BY <1>10, <2>2 DEF OrderOk
  <2>9. ASSUME Known(r2.winner)
        PROVE  /\ r2.winner \in Int /\ queue # cars
               /\ \A c \in cars : \A t \in Completes(r2, c) : t <= r2.winner
               /\ \A o \in queue : r2.winner <= r2.car[o].next
    <3>1. /\ r.winner \in Int /\ queue # cars
          /\ \A c \in cars : \A t \in Completes(r, c) : t <= r.winner
          /\ \A o \in queue : r.winner <= r.car[o].next
      BY <1>10, <2>2, <2>9 DEF OrderOk
    <3>2. ~ (old.next > r.winner)
      BY <1>10, <2>9 DEF TooLate
    <3>3. \A t \in Completes(r2, d) : t <= r.winner
      BY <1>4, <2>3, <3>1, <3>2
    <3>4. r.winner <= new.next
      BY <1>4, <1>7, <3>1
    <3> QED
      BY <1>1, <1>10, <2>4, <3>1, <3>3, <3>4
  <2> QED
    BY <1>10, <2>6, <2>7, <2>8, <2>9 DEF OrderOk
<1> QED
  BY <1>1, <1>10, <1>11, <1>12 DEF RaceOk

(* The next lap of the race.                                                     *)
LEMMA NextLapOk ==
  ASSUME Advised, RaceOk(race), NextLap
  PROVE  RaceOk(race')
<1> DEFINE queue == DOMAIN race.queued
           First(d) == \A o \in queue :
             ~ Before(<<race.car[o].next, race.queued[o]>>, <<race.car[d].next, race.queued[d]>>)
           car(d) == [race.car[d] EXCEPT !.laps = @ + 1]
           last == CHOOSE n \in {race.queued[o] : o \in queue} : \A o \in queue : race.queued[o] <= n
           ended == [race EXCEPT !.over = TRUE]
           home(d) == [race EXCEPT !.car[d] = car(d),
                                   !.queued = [o \in queue \ {d} |-> race.queued[o]],
                                   !.winner = IF Known(@) THEN @ ELSE car(d).next]
           goes(d, u, v) == [race EXCEPT !.car[d] = Scheduled(car(d), d, u, v), !.queued[d] = last + 1]
<1>1. race.over = FALSE
  BY DEF NextLap, RaceOk
<1>2. /\ DOMAIN race = {"car", "queued", "winner", "over"}
      /\ DOMAIN race.car = DOMAIN advice.field /\ queue \subseteq DOMAIN race.car
      /\ \A d \in DOMAIN race.car : CarOk(race.car[d], BegunIn(race, d), d)
      /\ Fair(race) => OrderOk(race)
  BY DEF RaceOk
<1>3. ASSUME NEW d \in queue PROVE race.car[d].next \in Int /\ DOMAIN race.car[d] = CarKeys
  <2>1. CarOk(race.car[d], BegunIn(race, d), d)
    BY <1>2
  <2>2. race.car[d].next = race.car[d].times[Len(race.car[d].times)] /\ race.car[d].times \in Seq(Int)
        /\ 1 <= Len(race.car[d].times) /\ DOMAIN race.car[d] = CarKeys
    BY <2>1 DEF CarOk, CarRun
  <2>3. Len(race.car[d].times) \in 1..Len(race.car[d].times)
    BY <2>2, LenProperties
  <2> QED
    BY <2>2, <2>3, ElementOfSeq
<1>4. ASSUME NEW d \in queue
      PROVE  car(d).next = race.car[d].next /\ (race.car[d].laps \in Nat => car(d).laps = race.car[d].laps + 1)
  BY <1>3 DEF CarKeys
<1>5. ASSUME NEW d \in queue, First(d) PROVE \A o \in queue : race.car[d].next <= race.car[o].next
  BY <1>3, <1>5, FirstEndsFirst
<1>6. ASSUME race' = ended,
             (queue = {}) \/ (\E d \in queue : First(d) /\ TooLate(race.car[d].next, race.winner))
      PROVE  RaceOk(race')
  <2>1. /\ DOMAIN race' = {"car", "queued", "winner", "over"} /\ race'.over = TRUE
        /\ race'.car = race.car /\ race'.queued = race.queued /\ race'.winner = race.winner
    BY <1>2, <1>6
  <2>2. \A d : BegunIn(race', d) = BegunIn(race, d) /\ Completes(race', d) = Completes(race, d)
    BY <2>1 DEF BegunIn, Completes
  <2>3. ASSUME Fair(race') PROVE OrderOk(race')
    <3>1. OrderOk(race)
      BY <1>2, <2>1, <2>3 DEF Fair
    <3>2. Known(race.winner) /\ \A o \in queue : race.winner < race.car[o].next
      <4>1. CASE queue = {}
        <5>1. PICK d \in DOMAIN race.car : TRUE
          BY <1>2 DEF Advised
        <5> QED
          BY <3>1, <4>1, <5>1 DEF OrderOk
      <4>2. CASE \E d \in queue : First(d) /\ TooLate(race.car[d].next, race.winner)
        <5>1. PICK d \in queue : First(d) /\ TooLate(race.car[d].next, race.winner)
          BY <4>2
        <5>2. Known(race.winner) /\ race.car[d].next > race.winner
          BY <5>1 DEF TooLate
        <5>3. race.winner \in Int
          BY <3>1, <5>2 DEF OrderOk
        <5> HIDE DEF First
        <5>4. \A o \in queue : race.car[d].next <= race.car[o].next
          BY <1>5, <5>1
        <5> QED
          BY <1>3, <5>2, <5>3, <5>4
      <4> QED
        BY <1>6, <4>1, <4>2
    <3> QED
      BY <2>1, <2>2, <3>1, <3>2 DEF OrderOk
  <2> QED
    BY <1>2, <2>1, <2>2, <2>3 DEF RaceOk
<1>7. ASSUME NEW d \in queue, NEW u \in Duration, NEW v \in Loss, First(d),
             race' = (IF TooLate(car(d).next, race.winner) THEN ended
                      ELSE IF car(d).laps >= advice.total THEN home(d) ELSE goes(d, u, v))
      PROVE  RaceOk(race')
  <2> HIDE DEF First
  <2>1. \A o \in queue : race.car[d].next <= race.car[o].next
    BY <1>5, <1>7
  <2>2. CarOk(race.car[d], BegunIn(race, d), d)
    BY <1>2
  <2>3. car(d).next = race.car[d].next /\ car(d).laps = race.car[d].laps + 1
    BY <1>4, <2>2 DEF CarOk, CarRun
  <2>4. CASE TooLate(race.car[d].next, race.winner)
    <3>1. race' = ended
      BY <1>7, <2>3, <2>4
    <3> HIDE DEF ended
    <3> QED
      BY <1>6, <1>7, <2>4, <3>1
  <2>5. CASE ~ TooLate(race.car[d].next, race.winner) /\ race.car[d].laps + 1 >= advice.total
    <3>1. race' = [race EXCEPT !.car[d] = car(d),
                               !.queued = [o \in queue \ {d} |-> race.queued[o]],
                               !.winner = IF Known(@) THEN @ ELSE race.car[d].next]
      <4>1. race' = home(d)
        BY <1>7, <2>3, <2>5
      <4> HIDE DEF car
      <4> QED
        BY <2>3, <4>1, Zenon
    <3> QED
      BY <1>1, <2>1, <2>5, <3>1, FinishOk
  <2>6. CASE ~ TooLate(race.car[d].next, race.winner) /\ ~ (race.car[d].laps + 1 >= advice.total)
    <3>1. race' = goes(d, u, v)
      BY <1>7, <2>3, <2>6
    <3> HIDE DEF last
    <3> QED
      BY <1>1, <2>1, <2>6, <3>1, GoesOnOk
  <2> QED
    BY <2>4, <2>5, <2>6
<1> HIDE DEF ended, home, goes, car
<1>8. CASE queue = {}
  <2>1. race' = ended
    BY <1>8 DEF NextLap, ended
  <2> QED
    BY <1>6, <1>8, <2>1
<1>9. CASE queue # {}
  <2>1. PICK d \in {d \in queue : First(d)}, u \in Duration, v \in Loss :
          race' = (IF TooLate(car(d).next, race.winner) THEN ended
                   ELSE IF car(d).laps >= advice.total THEN home(d) ELSE goes(d, u, v))
    <3>1. \E d \in {d \in queue : First(d)}, u \in Duration, v \in Loss :
            LET c == [race.car[d] EXCEPT !.laps = @ + 1]
                l == CHOOSE n \in {race.queued[o] : o \in queue} : \A o \in queue : race.queued[o] <= n
            IN IF TooLate(c.next, race.winner) THEN race' = [race EXCEPT !.over = TRUE]
               ELSE IF c.laps >= advice.total
               THEN race' = [race EXCEPT !.car[d] = c,
                                         !.queued = [o \in queue \ {d} |-> race.queued[o]],
                                         !.winner = IF Known(@) THEN @ ELSE c.next]
               ELSE race' = [race EXCEPT !.car[d] = Scheduled(c, d, u, v), !.queued[d] = l + 1]
      BY <1>9 DEF NextLap
    <3> QED
      BY <3>1 DEF ended, home, goes, car
  <2> HIDE DEF First
  <2>2. d \in queue /\ First(d)
    BY <2>1
  <2> QED
    BY <1>7, <2>1, <2>2
<1> QED
  BY <1>8, <1>9

(* The race under way is RaceOk. *)
LEMMA RaceInvHolds == AdviceSpec => []RaceInv
<1>1. AdviceInit => RaceInv
  BY DEF AdviceInit, RaceInv
<1>2. AdvisedInv /\ RaceInv /\ [AdviceNext]_adviceVars => RaceInv'
  <2> SUFFICES ASSUME AdvisedInv, RaceInv, [AdviceNext]_adviceVars PROVE RaceInv'
    OBVIOUS
  <2>1. ASSUME advice = None, UNCHANGED race PROVE RaceInv'
    BY <2>1 DEF RaceInv, Simulation
  <2>2. ASSUME Simulation, RaceOk(race'), UNCHANGED advice PROVE RaceInv'
    <3>1. RaceOk(race)'
      <4> DEFINE same(d) == CarOk(race'.car[d], BegunIn(race', d), d)
                 keeps == Fair(race') => OrderOk(race')
      <4>1. /\ DOMAIN race' = {"car", "queued", "winner", "over"} /\ race'.over \in BOOLEAN
            /\ DOMAIN race'.car = DOMAIN advice.field /\ DOMAIN race'.queued \subseteq DOMAIN race'.car
            /\ (\A d \in DOMAIN race'.car : same(d)) /\ keeps
        BY <2>2 DEF RaceOk
      <4>2. advice' = advice
        BY <2>2
      <4>3. ASSUME NEW d \in DOMAIN race'.car PROVE CarOk(race.car[d], BegunIn(race, d), d)'
        <5>1. same(d)
          BY <4>1
        <5> QED
          BY ONLY <4>2, <5>1 DEF CarOk, CarRun, BegunIn, Base, Planned
      <4>4. (Fair(race) => OrderOk(race))'
        <5>1. keeps
          BY <4>1
        <5> QED
          BY ONLY <4>2, <5>1 DEF OrderOk, Completes, Fair, Base
      <4> HIDE DEF same, keeps
      <4> QED
        BY <4>1, <4>2, <4>3, <4>4 DEF RaceOk
    <3>2. Simulation'
      BY <2>2 DEF Simulation
    <3> QED
      BY <3>1, <3>2 DEF RaceInv
  <2>3. ASSUME UNCHANGED <<advice, race>> PROVE RaceInv'
    <3>1. CASE race = None
      BY <2>3, <3>1 DEF RaceInv
    <3>2. CASE race # None
      <4>1. Simulation /\ RaceOk(race')
        BY <2>3, <3>2 DEF RaceInv
      <4> QED
        BY <2>3, <2>2, <4>1
    <3> QED
      BY <3>1, <3>2
  <2>4. CASE Start
    <3>1. Simulation /\ UNCHANGED advice
      BY <2>4 DEF Start, Simulation
    <3>2. Advised
      BY <3>1 DEF AdvisedInv
    <3> QED
      BY <2>2, <2>4, <3>1, <3>2, StartOk
  <2>5. CASE NextLap
    <3>1. race # None /\ UNCHANGED advice
      BY <2>5 DEF NextLap
    <3>2. Simulation /\ RaceOk(race) /\ Advised
      BY <3>1 DEF RaceInv, AdvisedInv
    <3> QED
      BY <2>2, <2>5, <3>1, <3>2, NextLapOk
  <2>6. CASE UNCHANGED adviceVars
    BY <2>3, <2>6 DEF adviceVars
  <2> QED
    BY <2>3, <2>1, <2>4, <2>5, <2>6 DEF AdviceNext, BuildDataset, Predict, Simulate, Compare
<1> QED
  BY <1>1, <1>2, AdvisedHolds, PTL DEF AdviceSpec

(* The numbers up to n are n many. *)
LEMMA UpToMany ==
  ASSUME NEW n \in Nat
  PROVE  Cardinality(1..n) = n
BY FS_Interval

(* A car in a race that is over: how many of its laps end by the winner's time,  *)
(* and when the one after them does.                                            *)
LEMMA DoneAtTheFlag ==
  ASSUME Advised, NEW r, RaceOk(r), Fair(r), r.over = TRUE, NEW d \in DOMAIN r.car
  PROVE  LET car == r.car[d]
             done == car.laps - Base(d)
         IN /\ car.laps \in Nat /\ car.laps >= Base(d) /\ Base(d) \in Nat /\ car.next \in Int
            /\ DOMAIN car.times = 1..Len(car.times) /\ Len(car.times) \in Nat
            /\ \A i \in 1..Len(car.times) : car.times[i] \in Int
            /\ {i \in DOMAIN car.times : car.times[i] <= r.winner} = 1..done
            /\ d \in DOMAIN r.queued =>
                 /\ car.laps < advice.total /\ Len(car.times) = done + 1
                 /\ car.times[done + 1] = car.next /\ r.winner < car.next
            /\ d \notin DOMAIN r.queued =>
                 /\ car.laps = advice.total /\ Len(car.times) = done /\ done >= 1
                 /\ car.times[done] = r.winner /\ car.next = r.winner
            /\ r.winner \in Int
<1> DEFINE car == r.car[d]
           n == Len(car.times)
           done == car.laps - Base(d)
<1>1. OrderOk(r) /\ CarOk(car, BegunIn(r, d), d) /\ d \in DOMAIN advice.field
  BY DEF RaceOk
<1>2. /\ car.laps \in Nat /\ car.laps >= Base(d) /\ car.times \in Seq(Int)
      /\ n = BegunIn(r, d) - Base(d) /\ 1 <= n /\ car.next = car.times[n]
  BY <1>1 DEF CarOk, CarRun
<1>3. Base(d) \in Nat /\ advice.total \in Nat
  BY <1>1 DEF Advised, FieldRow, Base
<1>4. n \in Nat /\ DOMAIN car.times = 1..n /\ \A i \in 1..n : car.times[i] \in Int
  BY <1>2, LenProperties, ElementOfSeq
<1>5. Known(r.winner) /\ r.winner \in Int /\ \A t \in Completes(r, d) : t <= r.winner
  BY <1>1 DEF OrderOk
<1>6. BegunIn(r, d) = car.laps + (IF d \in DOMAIN r.queued THEN 1 ELSE 0)
  BY DEF BegunIn
<1>7. \A i \in 1..done : car.times[i] \in Completes(r, d)
  BY DEF Completes
<1>8. d \in DOMAIN r.queued => car.laps < advice.total /\ r.winner < car.next
  BY <1>1, <1>5 DEF OrderOk
<1>9. d \notin DOMAIN r.queued => car.laps = advice.total /\ car.next = r.winner
  BY <1>1 DEF OrderOk
<1> HIDE DEF car, n
<1>10. done \in Int /\ (d \in DOMAIN r.queued => n = done + 1) /\ (d \notin DOMAIN r.queued => n = done)
  BY <1>2, <1>3, <1>6
<1> HIDE DEF done
<1>11. {i \in 1..n : car.times[i] <= r.winner} = 1..done
  <2>1. ASSUME NEW i \in 1..n, car.times[i] <= r.winner PROVE i \in 1..done
    <3>1. CASE d \in DOMAIN r.queued
      <4>1. i # done + 1
        BY <1>2, <1>4, <1>5, <1>8, <1>10, <2>1, <3>1
      <4> QED
        BY <1>4, <1>10, <3>1, <4>1
    <3>2. CASE d \notin DOMAIN r.queued
      BY <1>10, <3>2
    <3> QED
      BY <3>1, <3>2
  <2>2. ASSUME NEW i \in 1..done PROVE i \in 1..n /\ car.times[i] <= r.winner
    <3>1. i \in 1..n
      BY <1>4, <1>10
    <3> QED
      BY <1>5, <1>7, <3>1
  <2> QED
    BY <2>1, <2>2
<1>12. car.next \in Int
  BY <1>2, <1>4
<1>13. d \in DOMAIN r.queued =>
         /\ car.laps < advice.total /\ n = done + 1
         /\ car.times[done + 1] = car.next /\ r.winner < car.next
  BY <1>2, <1>8, <1>10
<1>14. d \notin DOMAIN r.queued =>
         /\ car.laps = advice.total /\ n = done /\ done >= 1
         /\ car.times[done] = r.winner /\ car.next = r.winner
  BY <1>2, <1>9, <1>10
<1> QED
  BY <1>2, <1>3, <1>4, <1>5, <1>11, <1>12, <1>13, <1>14 DEF car, n, done

(* Whose rank comes before has the smaller place.                               *)
Rank(r, o) == <<- r.car[o].laps, r.car[o].next, advice.field[o].place, o>>

(* Who ranks before another has fewer ahead. *)
LEMMA BeforeIsAhead ==
  ASSUME NEW r, IsFiniteSet(DOMAIN r.car), \A o \in DOMAIN r.car : Rank(r, o) \in Keys(4),
         NEW o \in DOMAIN r.car, NEW d \in DOMAIN r.car, Before(Rank(r, o), Rank(r, d))
  PROVE  LET Ahead(x) == {y \in DOMAIN r.car : Before(Rank(r, y), Rank(r, x))}
         IN Cardinality(Ahead(o)) < Cardinality(Ahead(d)) /\ Cardinality(Ahead(o)) \in Nat
            /\ Cardinality(Ahead(d)) \in Nat
<1> DEFINE cars == DOMAIN r.car
           A == {y \in cars : Before(Rank(r, y), Rank(r, o))}
           B == {y \in cars : Before(Rank(r, y), Rank(r, d))}
<1>1. ASSUME NEW y \in A PROVE y \in B
  <2>1. y \in cars /\ Before(Rank(r, y), Rank(r, o))
    OBVIOUS
  <2>2. Rank(r, y) \in Keys(4) /\ Rank(r, o) \in Keys(4) /\ Rank(r, d) \in Keys(4) /\ 4 \in Nat
    BY <2>1
  <2>3. Before(Rank(r, y), Rank(r, d))
    BY <2>1, <2>2, BeforeOrders
  <2> QED
    BY <2>1, <2>3
<1>2. o \in B /\ o \notin A
  <2>1. Rank(r, o) \in Keys(4) /\ 4 \in Nat
    OBVIOUS
  <2>2. ~ Before(Rank(r, o), Rank(r, o))
    BY <2>1, BeforeOrders
  <2> QED
    BY <2>2
<1>3. B \subseteq cars /\ A \subseteq B /\ A # B
  BY <1>1, <1>2
<1> HIDE DEF A, B
<1>4. IsFiniteSet(B)
  BY <1>3, FS_Subset
<1>5. IsFiniteSet(A) /\ Cardinality(A) <= Cardinality(B) /\ Cardinality(A) # Cardinality(B)
  BY <1>3, <1>4, FS_Subset
<1>6. Cardinality(A) \in Nat /\ Cardinality(B) \in Nat
  BY <1>4, <1>5, FS_CardinalityType
<1>7. Cardinality(A) < Cardinality(B)
  BY <1>5, <1>6
<1> QED
  BY <1>6, <1>7 DEF A, B

(* Cars go on from the lap they are on and stop as planned.                     *)
LEMMA DrivenAsAdvised ==
  ASSUME AdvisedInv, RaceInv
  PROVE  StopsAsPlanned
<1> SUFFICES ASSUME race # None, NEW d \in DOMAIN race.car
             PROVE  LET entry == advice.field[d]
                        car == race.car[d]
                    IN /\ FromLastLap(stored.session, d, entry)
                       /\ race.over => car.stopped = {n \in Planned(d) : n <= Begun(d)}
                       /\ car.stops = entry.stops + Cardinality(car.stopped)
                       /\ \A n \in car.stopped : n > entry.laps + 1 /\ car.times[n - entry.laps - 1] > advice.at
  BY DEF StopsAsPlanned, FromLastLap, Planned
<1> DEFINE entry == advice.field[d]
           car == race.car[d]
<1>1. Simulation /\ RaceOk(race) /\ Advised
  BY DEF RaceInv, AdvisedInv
<1>2. Begun(d) = BegunIn(race, d) /\ Base(d) = entry.laps
  BY DEF Begun, BegunIn, Base
<1>3. /\ FromLastLap(stored.session, d, entry) /\ entry.laps \in Nat /\ advice.at \in Nat
      /\ \A n \in Planned(d) : n \in Int /\ n >= entry.laps + 2
  BY <1>1 DEF RaceOk, Advised, FieldRow, Base
<1>4. /\ car.stopped = {n \in Planned(d) : n <= Begun(d)}
      /\ car.stops = entry.stops + Cardinality(car.stopped)
      /\ car.times \in Seq(Int) /\ Len(car.times) = Begun(d) - entry.laps
      /\ \A i, j \in 1..Len(car.times) : i < j => car.times[i] < car.times[j]
      /\ 1 <= Len(car.times) /\ car.times[1] > advice.at /\ Begun(d) \in Int
  <2>1. CarOk(car, Begun(d), d)
    BY <1>1, <1>2 DEF RaceOk
  <2> HIDE DEF car
  <2> QED
    BY <1>2, <2>1 DEF CarOk, CarRun
<1> HIDE DEF car, entry
<1>5. ASSUME NEW n \in car.stopped PROVE n > entry.laps + 1 /\ car.times[n - entry.laps - 1] > advice.at
  <2> DEFINE m == Len(car.times)
             i == n - entry.laps - 1
  <2>1. n \in Int /\ n >= entry.laps + 2 /\ n <= Begun(d)
    BY <1>3, <1>4
  <2>2. m \in Nat /\ \A j \in 1..m : car.times[j] \in Int
    BY <1>4, LenProperties, ElementOfSeq
  <2>3. i \in 1..m /\ 1 \in 1..m /\ n > entry.laps + 1
    <3>1. m = Begun(d) - entry.laps /\ 1 <= m /\ Begun(d) \in Int /\ entry.laps \in Nat
      BY <1>3, <1>4
    <3> HIDE DEF m
    <3> QED
      BY <2>1, <2>2, <3>1
  <2> HIDE DEF i
  <2>4. car.times[i] > advice.at
    <3>1. CASE i = 1
      BY <1>4, <3>1
    <3>2. CASE i # 1
      <4>1. car.times[1] < car.times[i]
        BY <1>4, <2>3, <3>2
      <4> HIDE DEF m
      <4>2. car.times[1] \in Int /\ car.times[i] \in Int
        BY <2>2, <2>3
      <4>3. car.times[1] > advice.at /\ advice.at \in Int
        BY <1>3, <1>4
      <4> QED
        BY ONLY <4>1, <4>2, <4>3
    <3> QED
      BY <3>1, <3>2
  <2> QED
    BY <2>3, <2>4 DEF i
<1> QED
  BY <1>3, <1>4, <1>5 DEF car, entry

(* The race is classified as it was at the winner's time.                       *)
LEMMA ClassifiedAsEnded ==
  ASSUME AdvisedInv, RaceInv
  PROVE  ClassifiedAtTheFlag
<1> DEFINE cars == DOMAIN race.car
           Ends(d, n) == race.car[d].times[n - advice.field[d].laps]
           homes == {Ends(d, advice.total) : d \in {d \in cars :
                       advice.total - advice.field[d].laps \in DOMAIN race.car[d].times}}
           flag == CHOOSE t \in homes : \A o \in homes : t <= o
           Done(d) == advice.field[d].laps
                       + Cardinality({i \in DOMAIN race.car[d].times : race.car[d].times[i] <= flag})
           Ahead(o, d) ==
             \/ Done(o) > Done(d)
             \/ Done(o) = Done(d) /\ Done(d) < advice.total /\ Ends(o, Done(o) + 1) < Ends(d, Done(d) + 1)
<1> SUFFICES ASSUME race # None, race.over, \A d \in cars : advice.field[d].laps < advice.total
             PROVE  /\ race.winner = flag
                    /\ \A d \in cars : race.car[d].laps = Done(d)
                    /\ \A o, d \in cars : Ahead(o, d) => Place(o) < Place(d)
  BY DEF ClassifiedAtTheFlag
<1> DEFINE left(d) == race.car[d].laps - Base(d)
<1>1. Simulation /\ RaceOk(race) /\ Advised /\ Fair(race) /\ race.over = TRUE
  BY DEF RaceInv, AdvisedInv, RaceOk, Fair, Base
<1>2. /\ DOMAIN race.queued \subseteq cars /\ DOMAIN race.queued # cars /\ cars = DOMAIN advice.field
      /\ \A d \in cars : advice.field[d].laps = Base(d) /\ Base(d) < advice.total
      /\ advice.total \in Nat
  BY <1>1 DEF RaceOk, OrderOk, Fair, Advised, Base
<1>3. ASSUME NEW d \in cars
      PROVE  LET car == race.car[d]
             IN /\ car.laps \in Nat /\ car.laps >= Base(d) /\ Base(d) \in Nat /\ car.next \in Int
                /\ DOMAIN car.times = 1..Len(car.times) /\ Len(car.times) \in Nat
                /\ \A i \in 1..Len(car.times) : car.times[i] \in Int
                /\ {i \in DOMAIN car.times : car.times[i] <= race.winner} = 1..left(d)
                /\ d \in DOMAIN race.queued =>
                     /\ car.laps < advice.total /\ Len(car.times) = left(d) + 1
                     /\ car.times[left(d) + 1] = car.next /\ race.winner < car.next
                /\ d \notin DOMAIN race.queued =>
                     /\ car.laps = advice.total /\ Len(car.times) = left(d) /\ left(d) >= 1
                     /\ car.times[left(d)] = race.winner /\ car.next = race.winner
                /\ race.winner \in Int
  BY <1>1, DoneAtTheFlag
<1>4. race.winner \in homes /\ \A t \in homes : race.winner <= t
  <2>1. PICK d \in cars : d \notin DOMAIN race.queued
    BY <1>2
  <2>2. left(d) = advice.total - advice.field[d].laps /\ left(d) \in DOMAIN race.car[d].times
        /\ race.car[d].times[left(d)] = race.winner
    BY <1>2, <1>3, <2>1
  <2>3. race.winner \in homes
    BY <2>1, <2>2
  <2>4. ASSUME NEW t \in homes PROVE race.winner <= t
    <3>1. PICK o \in cars : /\ advice.total - Base(o) \in DOMAIN race.car[o].times
                            /\ t = race.car[o].times[advice.total - Base(o)]
      BY <1>2
    <3>2. CASE o \in DOMAIN race.queued
      <4>1. /\ DOMAIN race.car[o].times = 1..(left(o) + 1) /\ race.car[o].laps < advice.total
            /\ race.car[o].times[left(o) + 1] = race.car[o].next /\ race.winner < race.car[o].next
            /\ race.car[o].laps \in Nat /\ Base(o) \in Nat
            /\ race.winner \in Int /\ race.car[o].next \in Int
        BY <1>3, <3>2
      <4>2. left(o) = race.car[o].laps - Base(o)
        OBVIOUS
      <4> HIDE DEF left
      <4>3. advice.total - Base(o) \in 1..(left(o) + 1)
        BY <3>1, <4>1, Zenon
      <4>4. advice.total \in Nat
        BY <1>2
      <4>5. advice.total - Base(o) = left(o) + 1
        BY ONLY <4>1, <4>2, <4>3, <4>4
      <4> QED
        <5>1. t = race.car[o].next
          BY <3>1, <4>1, <4>5, Zenon
        <5> QED
          BY ONLY <4>1, <5>1
    <3>3. CASE o \notin DOMAIN race.queued
      <4>1. /\ race.car[o].laps = advice.total /\ race.car[o].times[left(o)] = race.winner
            /\ race.winner \in Int
        BY <1>3, <3>3
      <4>2. left(o) = advice.total - Base(o)
        BY <4>1, Zenon
      <4> HIDE DEF left
      <4>3. t = race.winner
        BY <3>1, <4>1, <4>2, Zenon
      <4> QED
        BY ONLY <4>1, <4>3
    <3> QED
      BY <3>2, <3>3
  <2> QED
    BY <2>3, <2>4
<1>5. race.winner = flag
  <2>1. \A t \in homes : t <= race.winner /\ race.winner <= t => t = race.winner
    <3> SUFFICES ASSUME NEW t \in homes, t <= race.winner, race.winner <= t PROVE t = race.winner
      OBVIOUS
    <3>1. PICK o \in cars : /\ advice.total - Base(o) \in DOMAIN race.car[o].times
                            /\ t = race.car[o].times[advice.total - Base(o)]
      BY <1>2
    <3> HIDE DEF homes
    <3>2. t \in Int /\ race.winner \in Int
      BY <1>3, <3>1
    <3> QED
      BY <3>2
  <2> HIDE DEF homes
  <2>2. flag \in homes /\ \A o \in homes : flag <= o
    BY <1>4
  <2> HIDE DEF flag
  <2> QED
    BY <1>4, <2>1, <2>2
<1> HIDE DEF flag
<1>6. ASSUME NEW d \in cars PROVE Done(d) = race.car[d].laps
  <2>1. Done(d) = Base(d) + Cardinality(1..left(d))
    <3>1. {i \in DOMAIN race.car[d].times : race.car[d].times[i] <= flag} = 1..left(d)
      BY <1>3, <1>5
    <3> QED
      BY <1>2, <3>1
  <2>2. left(d) \in Nat /\ Base(d) \in Nat /\ race.car[d].laps \in Nat
    BY <1>3
  <2>3. Cardinality(1..left(d)) = left(d)
    <3> HIDE DEF left
    <3> QED
      BY <2>2, UpToMany
  <2> HIDE DEF Done
  <2> QED
    BY <2>1, <2>2, <2>3
<1>7. ASSUME NEW o \in cars, NEW d \in cars, Ahead(o, d) PROVE Before(Rank(race, o), Rank(race, d))
  <2> DEFINE x == Rank(race, o)
             y == Rank(race, d)
  <2>1. /\ x[1] = - race.car[o].laps /\ x[2] = race.car[o].next /\ DOMAIN x = 1..4
        /\ y[1] = - race.car[d].laps /\ y[2] = race.car[d].next
    BY DEF Rank
  <2>2. race.car[o].laps \in Nat /\ race.car[d].laps \in Nat /\ race.car[o].next \in Int /\ race.car[d].next \in Int
    BY <1>3
  <2>3. \/ race.car[o].laps > race.car[d].laps
        \/ /\ race.car[o].laps = race.car[d].laps /\ race.car[d].laps < advice.total
           /\ Ends(o, race.car[o].laps + 1) < Ends(d, race.car[d].laps + 1)
    <3> HIDE DEF Done
    <3> QED
      BY <1>6, <1>7
  <2> HIDE DEF x, y
  <2>4. CASE race.car[o].laps > race.car[d].laps
    <3>1. 1 \in DOMAIN x /\ x[1] < y[1] /\ \A j \in 1..(1 - 1) : x[j] = y[j]
      BY <2>1, <2>2, <2>4
    <3>2. Before(x, y)
      BY <3>1 DEF Before
    <3> QED
      BY <3>2 DEF x, y
  <2>5. CASE /\ race.car[o].laps = race.car[d].laps /\ race.car[d].laps < advice.total
             /\ Ends(o, race.car[o].laps + 1) < Ends(d, race.car[d].laps + 1)
    <3>1. o \in DOMAIN race.queued /\ d \in DOMAIN race.queued
      BY <1>2, <1>3, <2>2, <2>5
    <3>2. \A c \in {o, d} : (race.car[c].laps + 1) - advice.field[c].laps = left(c) + 1
      BY <1>2, <1>3
    <3>3. Ends(o, race.car[o].laps + 1) = race.car[o].next /\ Ends(d, race.car[d].laps + 1) = race.car[d].next
      <4>1. /\ race.car[o].times[left(o) + 1] = race.car[o].next
            /\ race.car[d].times[left(d) + 1] = race.car[d].next
        BY <1>3, <3>1
      <4>2. /\ (race.car[o].laps + 1) - advice.field[o].laps = left(o) + 1
            /\ (race.car[d].laps + 1) - advice.field[d].laps = left(d) + 1
        BY <3>2
      <4> HIDE DEF left
      <4>3. /\ Ends(o, race.car[o].laps + 1) = race.car[o].times[left(o) + 1]
            /\ Ends(d, race.car[d].laps + 1) = race.car[d].times[left(d) + 1]
        BY <4>2 DEF Ends
      <4> HIDE DEF Ends
      <4> QED
        BY <4>1, <4>3
    <3>4. 2 \in DOMAIN x /\ x[2] < y[2] /\ \A j \in 1..(2 - 1) : x[j] = y[j]
      <4>1. x[2] < y[2] /\ x[1] = y[1]
        BY <2>1, <2>5, <3>3
      <4> QED
        BY <2>1, <4>1
    <3>5. Before(x, y)
      BY <3>4 DEF Before
    <3> QED
      BY <3>5 DEF x, y
  <2> QED
    BY <2>3, <2>4, <2>5
<1>8. IsFiniteSet(cars) /\ \A o \in cars : Rank(race, o) \in Keys(4)
  <2>1. IsFiniteSet(cars) /\ cars \subseteq Nat /\ \A o \in cars : advice.field[o].place \in Nat
    BY <1>1, <1>2 DEF Advised, FieldRow
  <2>2. ASSUME NEW o \in cars PROVE Rank(race, o) \in Keys(4)
    <3> DEFINE a == - race.car[o].laps
               b == race.car[o].next
               c == advice.field[o].place
    <3>1. a \in Int /\ b \in Int /\ c \in Int /\ o \in Int
      BY <1>3, <2>1
    <3>2. Rank(race, o) = <<a, b, c, o>>
      BY DEF Rank
    <3> HIDE DEF a, b, c
    <3>3. <<a, b, c, o>> \in [1..4 -> Int]
      BY <3>1
    <3> QED
      BY <3>2, <3>3 DEF Keys
  <2> QED
    BY <2>1, <2>2
<1>9. ASSUME NEW o \in cars, NEW d \in cars, Ahead(o, d) PROVE Place(o) < Place(d)
  <2> HIDE DEF Ahead
  <2>1. Before(Rank(race, o), Rank(race, d))
    BY <1>7, <1>9
  <2> DEFINE In(c) == {x \in cars : Before(Rank(race, x), Rank(race, c))}
  <2>2. \A c : Place(c) = 1 + Cardinality(In(c))
    BY DEF Place, Rank
  <2>3. Cardinality(In(o)) < Cardinality(In(d)) /\ Cardinality(In(o)) \in Nat /\ Cardinality(In(d)) \in Nat
    BY <1>8, <2>1, BeforeIsAhead
  <2> HIDE DEF In
  <2> QED
    BY <2>2, <2>3
<1> HIDE DEF Done, Ahead
<1> QED
  BY <1>5, <1>6, <1>9

(* Whatever a lap takes and a stop costs, and in whatever order the cars come:   *)
(* each car makes the stops planned for the laps it begins, once and after the  *)
(* cursor, and the order at the end is that of the laps done at the winner's    *)
(* time and of who ends the next one first.                                     *)
THEOREM RaceAsAdvised == AdviceSpec => []RacedAsAdvised
<1>1. AdvisedInv /\ RaceInv => RacedAsAdvised
  BY DrivenAsAdvised, ClassifiedAsEnded DEF RacedAsAdvised
<1> QED
  BY <1>1, AdvisedHolds, RaceInvHolds, PTL

--------------------------------------------------------------------------------
(* Advice.  What the models are given and what is simulated, in a session and   *)
(* in the one that ends at a time: both agree on the laps that have ended.       *)


(* Each stop is observed on the lap it is of, its entry if there is one, and an  *)
(* exit not before the entry.                                                   *)
LEMMA StopsObserved ==
  ASSUME NEW laps, LapTable(laps), NEW p \in Stops(laps)
  PROVE  /\ p.enter # None => \E l \in laps : l.driver = p.driver /\ l.lap = p.lap /\ l.enter = p.enter
         /\ p.enter = None =>
              p.exit # None /\ \E l \in laps : l.driver = p.driver /\ l.lap = p.lap /\ l.exit = p.exit
         /\ p.enter # None /\ p.exit # None => p.enter <= p.exit
<1> DEFINE d == p.driver
           S == Observations(laps, d)
           acc == PairedUp(laps, d)
           W == Waiting(acc)
           E == {o \in S : o.way = 0}
           X == {o \in S : o.way = 1}
           entered == {s \in acc.stops : s.enter # None}
<1>1. PICK s \in StopsOf(laps, d) : p = [driver |-> d, enter |-> s.enter, exit |-> s.exit, lap |-> s.lap]
  BY StopsAre
<1>2. p.enter = s.enter /\ p.exit = s.exit /\ p.lap = s.lap
  BY <1>1
<1>3. StopsOf(laps, d) = acc.stops \cup {[enter |-> e.at, exit |-> None, lap |-> e.lap] : e \in W}
  <2>1. ToSet(acc.open) = W
    BY DEF ToSet, Waiting
  <2>2. StopsOf(laps, d) = acc.stops \cup {[enter |-> e.at, exit |-> None, lap |-> e.lap] : e \in ToSet(acc.open)}
    BY DEF StopsOf, PairedUp, ObsKey
  <2> HIDE DEF acc
  <2> QED
    BY <2>1, <2>2
<1>4. PairInv(acc, S) /\ S \subseteq Obs /\ None \notin Nat
  BY AllPaired, ObservedFinite, NoneIsNoNumber
<1>5. /\ \A o \in S : o.way = 0 => \E l \in laps : l.driver = d /\ l.lap = o.lap /\ l.enter = o.at
      /\ \A o \in S : o.way = 1 => \E l \in laps : l.driver = d /\ l.lap = o.lap /\ l.exit = o.at
  BY DEF Observations
<1> HIDE DEF acc, S, d
<1>6. /\ W \subseteq E
      /\ \A r \in acc.stops : r.enter \in Maybe(Nat) /\ r.exit \in Nat /\ r.lap \in Nat
  BY <1>4, PairUnfold
<1>7. \A r \in acc.stops : \E o \in X : ExitOf(r, o)
  <2>1. PICK by \in Bijection(X, acc.stops) : \A o \in DOMAIN by : ExitOf(by[o], o)
    BY <1>4 DEF PairInv
  <2>2. DOMAIN by = X /\ \A r \in acc.stops : \E o \in X : by[o] = r
    BY <2>1 DEF Bijection, Surjection
  <2> QED
    BY <2>1, <2>2
<1>8. \A r \in entered : \E o \in E : EntryOf(r, o)
  <2>1. PICK by \in Bijection(E \ W, entered) : \A o \in DOMAIN by : EntryOf(by[o], o)
    BY <1>4 DEF PairInv
  <2>2. DOMAIN by = E \ W /\ \A r \in entered : \E o \in E \ W : by[o] = r
    BY <2>1 DEF Bijection, Surjection
  <2> QED
    BY <2>1, <2>2
<1>9. CASE s \in acc.stops
  <2>1. PICK o \in X : ExitOf(s, o)
    BY <1>7, <1>9
  <2>2. s.exit = o.at /\ (s.enter = None => s.lap = o.lap) /\ (s.enter # None => s.enter <= s.exit) /\ s.exit # None
    BY <1>4, <1>6, <1>9, <2>1 DEF ExitOf
  <2>3. s.enter # None => \E e \in E : EntryOf(s, e)
    BY <1>8, <1>9
  <2>4. s.enter # None => \E l \in laps : l.driver = d /\ l.lap = s.lap /\ l.enter = s.enter
    BY <1>5, <2>3 DEF EntryOf
  <2>5. s.enter = None => \E l \in laps : l.driver = d /\ l.lap = s.lap /\ l.exit = s.exit
    BY <1>5, <2>2
  <2> QED
    BY <1>2, <2>2, <2>4, <2>5 DEF d
<1>10. CASE s \in {[enter |-> e.at, exit |-> None, lap |-> e.lap] : e \in W}
  <2>1. PICK e \in W : s = [enter |-> e.at, exit |-> None, lap |-> e.lap]
    BY <1>10
  <2>2. s.enter = e.at /\ s.exit = None /\ s.lap = e.lap /\ e \in E
    BY <1>6, <2>1
  <2>3. s.enter # None
    BY <1>4, <2>2 DEF Obs
  <2>4. \E l \in laps : l.driver = d /\ l.lap = s.lap /\ l.enter = s.enter
    BY <1>5, <2>2
  <2> QED
    BY <1>2, <2>2, <2>3, <2>4 DEF d
<1> QED
  BY <1>1, <1>3, <1>9, <1>10

(* What the examples and the models are given.  A lap that has ended by a time,  *)
(* its pits included, is the same lap in what is known then.                    *)
AreRecords(laps) == \A l \in laps : l = [x \in DOMAIN l |-> l[x]]
Standing(rs) ==
  /\ Tabled(Derived(rs)) /\ Columns(rs.laps) /\ AreRecords(rs.laps)
  /\ LapsValid(Derived(rs)) /\ PitsInLaps(Derived(rs))
Ended(s, t) == {l \in s.laps : EndedBy(l, t)}

(* A lap with nothing yet to come is known as it is. *)
LEMMA LapAtSelf ==
  ASSUME NEW l, LapColumns \subseteq DOMAIN l, l = [x \in DOMAIN l |-> l[x]], NEW t,
         Seen(l.start, t) = l.start, Seen(l.end, t) = l.end, Seen(l.enter, t) = l.enter, Seen(l.exit, t) = l.exit
  PROVE  LapAt(l, t) = l
<1> DEFINE a == l.start
           b == l.end
           c == l.enter
           d == l.exit
<1>1. LapAt(l, t) = [l EXCEPT !.start = a, !.end = b, !.enter = c, !.exit = d]
  BY DEF LapAt, LapColumns
<1>2. a = l["start"] /\ b = l["end"] /\ c = l["enter"] /\ d = l["exit"]
  OBVIOUS
<1>3. {"start", "end", "enter", "exit"} \subseteq DOMAIN l
  BY DEF LapColumns
<1>4. l = [x \in DOMAIN l |-> l[x]]
  OBVIOUS
<1> HIDE DEF a, b, c, d
<1>5. [l EXCEPT !.start = a, !.end = b, !.enter = c, !.exit = d] = l
  BY ONLY <1>2, <1>3, <1>4
<1> QED
  BY <1>1, <1>5

(* The laps that have ended by a time are those known to have. *)
LEMMA EndedKnown ==
  ASSUME NEW rs, Standing(rs), NEW t \in Nat
  PROVE  /\ Ended(Derived(Cut(rs, t)), t) = Ended(Derived(rs), t)
         /\ \A o \in Derived(Cut(rs, t)).laps : Known(o.end) => o.end <= t
<1> DEFINE s == Derived(rs)
           c == Derived(Cut(rs, t))
           laps == rs.laps
           cut == LapsAt(laps, t)
<1>1. s.laps = laps /\ c.laps = cut
  BY CutIs DEF Derived
<1>2. Tabled(s) /\ Columns(laps) /\ AreRecords(laps) /\ LapsValid(s) /\ PitsInLaps(s)
  BY DEF Standing
<1> HIDE DEF s, c, laps
<1>3. LapTable(laps)
  BY <1>1, <1>2 DEF Tabled
<1>4. /\ \A l \in laps : LapSame(LapAt(l, t), l, t)
      /\ \A l \in laps : Reached(laps, l, t) => LapAt(l, t) \in cut
      /\ \A l \in laps : Shows(l, t) => Reached(laps, l, t)
      /\ \A o \in cut : \E l \in laps : o = LapAt(l, t)
  BY <1>2, <1>3, LapsAtTable
<1> HIDE DEF cut
<1>5. ASSUME NEW l \in laps, EndedBy(l, t) PROVE LapAt(l, t) = l /\ l \in cut
  <2>1. /\ l.start \in Maybe(Nat) /\ l.end \in Maybe(Nat) /\ l.enter \in Maybe(Nat) /\ l.exit \in Maybe(Nat)
        /\ l.lap \in Nat
    BY <1>3 DEF LapTable, Lap
  <2>2. l.end \in Nat /\ l.end <= t /\ l.end # None
    BY <1>5, <2>1 DEF EndedBy, Known, Maybe
  <2>3. InOrder(l.start, l.end) /\ InOrder(l.enter, l.end) /\ InOrder(l.exit, l.end)
    BY <1>1, <1>2, <2>1 DEF LapsValid, PitsInLaps
  <2>4. \A x \in Maybe(Nat) : InOrder(x, l.end) => Seen(x, t) = x
    <3> SUFFICES ASSUME NEW x \in Maybe(Nat), InOrder(x, l.end) PROVE Seen(x, t) = x
      OBVIOUS
    <3>1. CASE x = None
      BY <3>1 DEF Seen
    <3>2. CASE x \in Nat
      <4>1. {x, l.end} \subseteq Int
        BY <2>2, <3>2
      <4>2. x <= l.end
        BY <4>1 DEF InOrder
      <4> QED
        BY <2>2, <3>2, <4>2, NoneIsNoNumber DEF Seen
    <3> QED
      BY <3>1, <3>2 DEF Maybe
  <2>5. Seen(l.start, t) = l.start /\ Seen(l.enter, t) = l.enter /\ Seen(l.exit, t) = l.exit /\ Seen(l.end, t) = l.end
    BY <2>1, <2>2, <2>3, <2>4 DEF Seen
  <2>6. LapAt(l, t) = l
    BY <1>2, <2>5, LapAtSelf DEF Columns, AreRecords
  <2>7. Shows(l, t)
    BY <2>2, <2>5 DEF Shows
  <2> QED
    BY <1>4, <2>6, <2>7
<1>6. ASSUME NEW o \in cut, Known(o.end) PROVE o.end <= t /\ o \in laps
  <2>1. PICK l \in laps : o = LapAt(l, t)
    BY <1>4
  <2>2. o.end = Seen(l.end, t)
    BY <1>4, <2>1 DEF LapSame
  <2>3. l.end \in Maybe(Nat)
    BY <1>3 DEF LapTable, Lap
  <2>4. EndedBy(l, t) /\ o.end <= t
    BY <1>6, <2>2, <2>3, SeenIs DEF Known, EndedBy
  <2> QED
    BY <1>5, <2>1, <2>4
<1>7. Ended(c, t) = Ended(s, t)
  <2>1. \A l \in Ended(s, t) : l \in Ended(c, t)
    BY <1>1, <1>5 DEF Ended
  <2>2. \A l \in Ended(c, t) : l \in Ended(s, t)
    BY <1>1, <1>6 DEF Ended, EndedBy
  <2> QED
    BY <2>1, <2>2
<1> QED
  BY <1>1, <1>6, <1>7 DEF s, c

(* What the features look at agrees in a session and the one known at a time.   *)
Agree(s, c, t) ==
  /\ Ended(c, t) = Ended(s, t) /\ \A o \in c.laps : Known(o.end) => o.end <= t
  /\ c.weather = {w \in s.weather : w.at <= t}
  /\ c.control = {r \in s.control : r.at <= t}
  /\ c.positions = {p \in s.positions : p.at <= t}
  /\ {p \in c.stops : Known(p.exit)} = {p \in s.stops : Known(p.exit) /\ p.exit <= t}
  /\ \A l \in Ended(s, t) :
        {l.lap, l.lap - 1} \cap PitLapsFor(c, l.driver) = {l.lap, l.lap - 1} \cap PitLapsFor(s, l.driver)
LEMMA CutAgrees ==
  ASSUME NEW rs, Standing(rs), NEW t \in Nat
  PROVE  Agree(Derived(rs), Derived(Cut(rs, t)), t)
<1> DEFINE s == Derived(rs)
           k == Cut(rs, t)
           c == Derived(k)
           laps == rs.laps
           cut == LapsAt(laps, t)
<1>1. /\ s.laps = laps /\ s.weather = rs.weather /\ s.control = rs.control /\ s.positions = rs.positions
      /\ s.stops = Stops(laps)
      /\ c.laps = cut /\ c.weather = k.weather /\ c.control = k.control /\ c.positions = k.positions
      /\ c.stops = Stops(cut)
  BY CutIs DEF Derived
<1>2. Tabled(s) /\ Columns(laps) /\ PitsInLaps(s)
  BY DEF Standing
<1>3. /\ k.weather = {w \in rs.weather : w.at <= t} /\ k.control = {r \in rs.control : r.at <= t}
      /\ k.positions = {p \in rs.positions : p.at <= t}
  BY CutIs
<1>4. Ended(c, t) = Ended(s, t) /\ \A o \in c.laps : Known(o.end) => o.end <= t
  BY EndedKnown
<1> HIDE DEF s, c, k, laps
<1>5. LapTable(laps)
  BY <1>1, <1>2 DEF Tabled
<1>6. {p \in Stops(laps) : p.exit # None /\ p.exit <= t} = {p \in Stops(cut) : p.exit # None}
  BY <1>2, <1>5, ExitsKnown
<1>7. /\ \A p \in Stops(laps) : p.enter # None /\ p.enter <= t => \E r \in Stops(cut) : EntrySame(p, r)
      /\ \A r \in Stops(cut) : r.enter # None => \E p \in Stops(laps) : EntrySame(p, r)
  BY <1>2, <1>5, EntriesKnown
<1>8. LapTable(cut)
  BY <1>2, <1>5, LapsAtTable
<1> HIDE DEF cut
<1>10. ASSUME NEW l \in Ended(s, t), NEW p \in Stops(laps), p.driver = l.driver, p.lap <= l.lap
       PROVE  \E r \in Stops(cut) : r.driver = p.driver /\ r.lap = p.lap
  <2>1. l \in laps /\ l.end \in Nat /\ l.end <= t
    BY <1>1, <1>5, <1>10 DEF Ended, EndedBy, Known, LapTable, Lap, Maybe
  <2>2. CASE p.enter # None
    <3>1. PICK o \in laps : o.driver = p.driver /\ o.lap = p.lap /\ o.enter = p.enter
      BY <1>5, <2>2, StopsObserved
    <3>2. InOrder(o.enter, l.end) /\ o.enter \in Nat
      BY <1>1, <1>2, <1>5, <1>10, <2>1, <2>2, <3>1 DEF PitsInLaps, LapTable, Lap, Maybe
    <3>3. p.enter <= t
      <4>1. {o.enter, l.end} \subseteq Int
        BY <2>1, <3>2
      <4>2. o.enter <= l.end
        BY <3>2, <4>1 DEF InOrder
      <4> QED
        BY <2>1, <3>1, <3>2, <4>2
    <3>4. PICK r \in Stops(cut) : EntrySame(p, r)
      BY <1>7, <2>2, <3>3
    <3> QED
      BY <3>4 DEF EntrySame
  <2>3. CASE p.enter = None
    <3>1. PICK o \in laps : o.driver = p.driver /\ o.lap = p.lap /\ o.exit = p.exit
      BY <1>5, <2>3, StopsObserved
    <3>2. p.exit # None
      BY <1>5, <2>3, StopsObserved
    <3>3. InOrder(o.exit, l.end) /\ o.exit \in Nat
      BY <1>1, <1>2, <1>5, <1>10, <2>1, <3>1, <3>2 DEF PitsInLaps, LapTable, Lap, Maybe
    <3>4. p.exit <= t
      <4>1. {o.exit, l.end} \subseteq Int
        BY <2>1, <3>3
      <4>2. o.exit <= l.end
        BY <3>3, <4>1 DEF InOrder
      <4> QED
        BY <2>1, <3>1, <3>3, <4>2
    <3> QED
      BY <1>6, <3>2, <3>4
  <2> QED
    BY <2>2, <2>3
<1>11. ASSUME NEW r \in Stops(cut)
       PROVE  \E p \in Stops(laps) : p.driver = r.driver /\ p.lap = r.lap
  <2>1. CASE r.enter # None
    BY <1>7, <2>1 DEF EntrySame
  <2>2. CASE r.enter = None
    <3>1. r.exit # None
      BY <1>8, <2>2, StopsObserved
    <3> QED
      BY <1>6, <3>1
  <2> QED
    BY <2>1, <2>2
<1>12. \A l \in Ended(s, t) :
         {l.lap, l.lap - 1} \cap PitLapsFor(c, l.driver) = {l.lap, l.lap - 1} \cap PitLapsFor(s, l.driver)
  <2> SUFFICES ASSUME NEW l \in Ended(s, t), NEW n \in {l.lap, l.lap - 1}
               PROVE  n \in PitLapsFor(c, l.driver) <=> n \in PitLapsFor(s, l.driver)
    OBVIOUS
  <2>1. l.lap \in Nat /\ n <= l.lap
    BY <1>1, <1>5 DEF Ended, LapTable, Lap
  <2>2. n \in PitLapsFor(s, l.driver) => n \in PitLapsFor(c, l.driver)
    BY <1>1, <1>10, <2>1 DEF PitLapsFor
  <2>3. n \in PitLapsFor(c, l.driver) => n \in PitLapsFor(s, l.driver)
    BY <1>1, <1>11 DEF PitLapsFor
  <2> QED
    BY <2>2, <2>3
<1>13. {p \in c.stops : Known(p.exit)} = {p \in s.stops : Known(p.exit) /\ p.exit <= t}
  BY <1>1, <1>6 DEF Known
<1>14. Agree(s, c, t)
  BY <1>1, <1>3, <1>4, <1>12, <1>13 DEF Agree
<1> QED
  BY <1>14 DEF s, c, k

(* The laps that have ended by an earlier time are the same too. *)
LEMMA EndedEarlier ==
  ASSUME NEW s, NEW c, NEW t \in Nat, Tabled(s), Agree(s, c, t)
  PROVE  /\ \A x \in Nat : x <= t => Ended(c, x) = Ended(s, x)
         /\ \A l \in s.laps : l.driver \in Nat /\ l.lap \in Nat /\ l.start \in Maybe(Nat) /\ l.end \in Maybe(Nat)
         /\ \A l \in s.laps : EndedBy(l, t) => l \in c.laps
         /\ \A l \in c.laps : Known(l.end) => l \in s.laps /\ EndedBy(l, t)
<1>1. /\ Ended(c, t) = Ended(s, t)
      /\ \A o \in c.laps : Known(o.end) => o.end <= t
  BY DEF Agree
<1>2. \A l \in s.laps : l.driver \in Nat /\ l.lap \in Nat /\ l.start \in Maybe(Nat) /\ l.end \in Maybe(Nat)
  BY DEF Tabled, LapTable, Lap
<1>3. \A l \in s.laps : EndedBy(l, t) => l \in c.laps
  BY <1>1 DEF Ended
<1>4. \A l \in c.laps : Known(l.end) => l \in s.laps /\ EndedBy(l, t)
  BY <1>1 DEF Ended, EndedBy
<1>5. ASSUME NEW x \in Nat, x <= t PROVE Ended(c, x) = Ended(s, x)
  <2>1. \A l \in s.laps : EndedBy(l, x) => EndedBy(l, t)
    BY <1>2, <1>5 DEF EndedBy, Known, Maybe
  <2>2. \A l \in c.laps : EndedBy(l, x) => l \in s.laps
    BY <1>4 DEF EndedBy
  <2> QED
    BY <1>3, <2>1, <2>2 DEF Ended
<1> QED
  BY <1>2, <1>3, <1>4, <1>5

(* A message not after another is at its time or before. *)
LEMMA NotAfterInTime ==
  ASSUME NEW a, NEW b, a.at \in Nat, b.at \in Nat, a.id \in Nat, b.id \in Nat,
         a = b \/ Before(<<a.at, a.id>>, <<b.at, b.id>>)
  PROVE  a.at <= b.at
<1>1. CASE a = b
  BY <1>1
<1>2. CASE Before(<<a.at, a.id>>, <<b.at, b.id>>)
  <2> DEFINE u == <<a.at, a.id>>
             v == <<b.at, b.id>>
  <2>1. PICK i \in DOMAIN u : u[i] < v[i] /\ \A j \in 1..(i - 1) : u[j] = v[j]
    BY <1>2 DEF Before
  <2>2. i = 1 \/ i = 2
    OBVIOUS
  <2>3. CASE i = 1
    BY <2>1, <2>3
  <2>4. CASE i = 2
    <3>1. u[1] = v[1]
      BY <2>1, <2>4
    <3> QED
      BY <3>1
  <2> QED
    BY <2>2, <2>3, <2>4
<1> QED
  BY <1>1, <1>2

(* The restarts known by a time are the restarts up to it. *)
LEMMA RestartsKnown ==
  ASSUME NEW s, NEW c, NEW t \in Nat, Tabled(s), Agree(s, c, t)
  PROVE  RestartTimes(c) = {x \in RestartTimes(s) : x <= t} /\ RestartTimes(s) \subseteq Nat
<1> DEFINE NotAfter(a, b) == a = b \/ Before(<<a.at, a.id>>, <<b.at, b.id>>)
           Starts(a) == a.says = "started"
           Again(C, a) == \E r \in C : r.status = RedFlag /\ NotAfter(r, a) /\
                            \A x \in C : Starts(x) /\ NotAfter(r, x) /\ NotAfter(x, a) => x = a
           S == s.control
           C == c.control
<1>1. /\ RestartTimes(s) = {a.at : a \in {a \in S : Starts(a) /\ Again(S, a)}}
      /\ RestartTimes(c) = {a.at : a \in {a \in C : Starts(a) /\ Again(C, a)}}
  BY DEF RestartTimes
<1>2. C = {r \in S : r.at <= t}
  BY DEF Agree
<1>3. \A a \in S : a.id \in Nat /\ a.at \in Nat
  BY DEF Tabled
<1>4. \A a, b \in S : NotAfter(a, b) => a.at <= b.at
  BY <1>3, NotAfterInTime
<1> HIDE DEF NotAfter, Starts, S, C
<1>5. ASSUME NEW a \in S, a.at <= t PROVE Again(S, a) <=> Again(C, a)
  <2>1. \A r \in S : NotAfter(r, a) => r \in C
    <3> SUFFICES ASSUME NEW r \in S, NotAfter(r, a) PROVE r.at <= t
      BY <1>2
    <3>1. r.at <= a.at
      BY <1>4
    <3> QED
      BY <1>3, <1>5, <3>1
  <2>2. C \subseteq S
    BY <1>2
  <2> QED
    BY <2>1, <2>2
<1> HIDE DEF Again
<1>6. \A a \in C : a \in S /\ a.at <= t
  BY <1>2
<1>7. \A x \in RestartTimes(c) : x \in RestartTimes(s) /\ x <= t
  BY <1>1, <1>5, <1>6
<1>8. \A x \in RestartTimes(s) : x <= t => x \in RestartTimes(c)
  BY <1>1, <1>2, <1>5
<1>9. RestartTimes(s) \subseteq Nat
  BY <1>1, <1>3
<1> QED
  BY <1>7, <1>8, <1>9

(* A lap is the first after a restart whether or not later laps are known. *)
LEMMA RestartLapKnown ==
  ASSUME NEW s, NEW c, NEW t \in Nat, Tabled(s), LapsValid(s), Agree(s, c, t), NEW l \in Ended(s, t)
  PROVE  IsRestartLap(c, l) <=> IsRestartLap(s, l)
<1> DEFINE Timed1(r, x) == {o \in LapsFor(r, l.driver) : Known(o.end) /\ o.end > x /\ Known(o.time)}
           First1(r, x) == l \in Timed1(r, x) /\ \A o \in Timed1(r, x) : l.lap <= o.lap
<1>1. /\ IsRestartLap(s, l) <=> \E x \in RestartTimes(s) : First1(s, x)
      /\ IsRestartLap(c, l) <=> \E x \in RestartTimes(c) : First1(c, x)
  BY DEF IsRestartLap
<1>2. RestartTimes(c) = {x \in RestartTimes(s) : x <= t} /\ RestartTimes(s) \subseteq Nat
  BY RestartsKnown
<1>3. /\ \A o \in s.laps : o.driver \in Nat /\ o.lap \in Nat /\ o.start \in Maybe(Nat) /\ o.end \in Maybe(Nat)
      /\ \A o \in s.laps : EndedBy(o, t) => o \in c.laps
      /\ \A o \in c.laps : Known(o.end) => o \in s.laps /\ EndedBy(o, t)
  BY EndedEarlier
<1>4. l \in s.laps /\ l \in c.laps /\ l.end \in Nat /\ l.end <= t
  BY <1>3 DEF Ended, EndedBy, Known, Maybe
<1>5. ASSUME NEW x \in Nat, First1(s, x) PROVE x <= t /\ First1(c, x)
  <2>1. l.end > x
    BY <1>5
  <2>2. x <= t
    BY <1>4, <2>1
  <2>3. \A o \in Timed1(c, x) : o \in Timed1(s, x)
    BY <1>3 DEF LapsFor
  <2>4. l \in Timed1(c, x)
    BY <1>4, <1>5 DEF LapsFor
  <2> QED
    BY <1>5, <2>2, <2>3, <2>4
<1>6. ASSUME NEW x \in Nat, First1(c, x) PROVE First1(s, x)
  <2>1. l \in Timed1(s, x)
    BY <1>4, <1>6 DEF LapsFor
  <2>2. ASSUME NEW o \in Timed1(s, x) PROVE l.lap <= o.lap
    <3>1. o \in s.laps /\ o.driver = l.driver /\ o.end # None
      BY DEF LapsFor, Known
    <3>2. o.end \in Nat /\ o.lap \in Nat /\ l.lap \in Nat
      BY <1>3, <1>4, <3>1 DEF Maybe
    <3>3. CASE o.end <= t
      <4>1. o \in Timed1(c, x)
        BY <1>3, <3>1, <3>3 DEF LapsFor, EndedBy, Known
      <4> QED
        BY <1>6, <4>1
    <3>4. CASE ~ o.end <= t
      <4>1. o.lap < l.lap => InOrder(o.end, l.end)
        BY <1>4, <3>1 DEF LapsValid
      <4>2. {o.end, l.end} \subseteq Int
        BY <1>4, <3>2
      <4>3. ~ o.end <= l.end
        BY <1>4, <3>2, <3>4
      <4> QED
        BY <3>2, <4>1, <4>2, <4>3 DEF InOrder
    <3> QED
      BY <3>3, <3>4
  <2> QED
    BY <2>1, <2>2
<1> HIDE DEF First1
<1> QED
  BY <1>1, <1>2, <1>5, <1>6

(* The weather of a lap that has ended is known. *)
LEMMA WeatherKnown ==
  ASSUME NEW s, NEW c, NEW t \in Nat, Tabled(s), LapsValid(s), Agree(s, c, t)
  PROVE  /\ \A x \in Nat : x <= t => WeatherAt(c, x) = WeatherAt(s, x)
         /\ \A l \in Ended(s, t) : LapWeatherIsDry(c, l) <=> LapWeatherIsDry(s, l)
<1>1. c.weather = {w \in s.weather : w.at <= t} /\ \A w \in s.weather : w.at \in Nat
  BY DEF Agree, Tabled
<1>2. ASSUME NEW x \in Nat, x <= t PROVE WeatherAt(c, x) = WeatherAt(s, x)
  <2> DEFINE Of(S) == IF S = {} THEN None ELSE CHOOSE w \in S : \A o \in S : o.at <= w.at
             A == {w \in c.weather : w.at <= x}
             B == {w \in s.weather : w.at <= x}
  <2>1. A = B
    BY <1>1, <1>2
  <2>2. WeatherAt(c, x) = Of(A) /\ WeatherAt(s, x) = Of(B)
    BY DEF WeatherAt
  <2> HIDE DEF A, B, Of
  <2> QED
    BY <2>1, <2>2
<1>3. ASSUME NEW l \in Ended(s, t) PROVE LapWeatherIsDry(c, l) <=> LapWeatherIsDry(s, l)
  <2>1. l \in s.laps /\ l.start \in Maybe(Nat) /\ l.end \in Nat /\ l.end <= t
    BY EndedEarlier DEF Ended, EndedBy, Known, Maybe
  <2>2. CASE l.start = None
    BY <2>2 DEF LapWeatherIsDry, Known
  <2>3. CASE l.start \in Nat
    <3>1. InOrder(l.start, l.end) /\ {l.start, l.end} \subseteq Int
      BY <2>1, <2>3 DEF LapsValid
    <3>2. l.start <= l.end
      BY <3>1 DEF InOrder
    <3>3. l.start <= t
      BY <2>1, <2>3, <3>2
    <3>4. WeatherAt(c, l.start) = WeatherAt(s, l.start)
      BY <1>2, <2>3, <3>3
    <3>5. (\A w \in c.weather : l.start < w.at /\ w.at <= l.end => w.wet = FALSE)
            <=> \A w \in s.weather : l.start < w.at /\ w.at <= l.end => w.wet = FALSE
      <4>1. \A w \in s.weather : w.at <= l.end => w \in c.weather
        BY <1>1, <2>1
      <4> QED
        BY <1>1, <4>1
    <3> QED
      BY <3>4, <3>5 DEF LapWeatherIsDry
  <2> QED
    BY <2>1, <2>2, <2>3 DEF Maybe
<1> QED
  BY <1>2, <1>3

(* A lap that has ended is an example, or not, whatever comes later. *)
LEMMA EligibleKnown ==
  ASSUME NEW s, NEW c, NEW t \in Nat, Tabled(s), LapsValid(s), Agree(s, c, t), NEW l \in Ended(s, t)
  PROVE  Eligible(c, l) <=> Eligible(s, l)
<1>1. IsRestartLap(c, l) <=> IsRestartLap(s, l)
  BY RestartLapKnown
<1>2. LapWeatherIsDry(c, l) <=> LapWeatherIsDry(s, l)
  BY WeatherKnown
<1>3. {l.lap, l.lap - 1} \cap PitLapsFor(c, l.driver) = {l.lap, l.lap - 1} \cap PitLapsFor(s, l.driver)
  BY DEF Agree
<1> QED
  BY <1>1, <1>2, <1>3, Zenon DEF Eligible

(* So are its features. *)
LEMMA FeatureKnown ==
  ASSUME NEW s, NEW c, NEW t \in Nat, Tabled(s), LapsValid(s), Agree(s, c, t), NEW l \in Ended(s, t)
  PROVE  FeatureForLap(c, l) = FeatureForLap(s, l)
<1> DEFINE Past(r) == {o \in LapsFor(r, l.driver) : o.lap <= l.lap /\ EndedBy(o, l.end) /\ Eligible(r, o)}
           Out(r) == {p \in r.stops : p.driver = l.driver /\ Known(p.exit) /\ p.exit <= l.end}
           PlaceIn(S) == CHOOSE p \in S : \A o \in S : ~ Before(<<p.at, p.id>>, <<o.at, o.id>>)
           Given(e, b, h, w, S, P) ==
             IF /\ e /\ Known(l.life) /\ Known(l.stint)
                /\ ~ b
                /\ Cardinality(h) >= 2
                /\ w # None /\ w.measured
                /\ S # {}
             THEN [driver |-> l.driver, at |-> l.end, lap |-> l.lap, life |-> l.life, stint |-> l.stint,
                   pits |-> Cardinality(P),
                   place |-> PlaceIn(S).place, recent |-> {<<o.lap, o.time>> : o \in TheLast(h, 3)},
                   weather |-> w.id, compound |-> l.compound]
             ELSE None
<1>1. \A r : FeatureForLap(r, l) = Given(Eligible(r, l), IsLappedAtBoundary(r, l), Past(r), WeatherAt(r, l.end),
                                        SeenBy(r, l), Out(r))
  BY DEF FeatureForLap
<1>2. /\ \A x \in Nat : x <= t => Ended(c, x) = Ended(s, x)
      /\ \A o \in s.laps : EndedBy(o, t) => o \in c.laps
      /\ \A o \in c.laps : Known(o.end) => o \in s.laps /\ EndedBy(o, t)
      /\ l.end \in Nat /\ l.end <= t /\ l \in s.laps
  BY EndedEarlier DEF Ended, EndedBy, Known, Maybe
<1>3. \A o : (o \in c.laps /\ EndedBy(o, l.end)) <=> (o \in s.laps /\ EndedBy(o, l.end))
  BY <1>2 DEF Ended
<1>4. \A o \in s.laps : EndedBy(o, l.end) => o \in Ended(s, t)
  BY <1>2, <1>3 DEF Ended, EndedBy
<1>5. \A o \in Ended(s, t) : Eligible(c, o) <=> Eligible(s, o)
  BY EligibleKnown
<1>6. Past(c) = Past(s)
  BY <1>3, <1>4, <1>5 DEF LapsFor
<1>7. Eligible(c, l) <=> Eligible(s, l)
  BY <1>5
<1>8. IsLappedAtBoundary(c, l) <=> IsLappedAtBoundary(s, l)
  BY <1>3 DEF IsLappedAtBoundary
<1>9. WeatherAt(c, l.end) = WeatherAt(s, l.end)
  BY <1>2, WeatherKnown
<1>10. SeenBy(c, l) = SeenBy(s, l)
  <2>1. c.positions = {p \in s.positions : p.at <= t} /\ \A p \in s.positions : p.at \in Nat
    BY DEF Agree, Tabled
  <2>2. \A p \in s.positions : p.at <= l.end => p.at <= t
    BY <1>2, <2>1
  <2> QED
    BY <2>1, <2>2 DEF SeenBy
<1>11. Out(c) = Out(s)
  <2>1. /\ {p \in c.stops : Known(p.exit)} = {p \in s.stops : Known(p.exit) /\ p.exit <= t}
        /\ \A p \in s.stops : p.exit \in Maybe(Nat)
    BY DEF Agree, Tabled, StopRows
  <2>2. \A p \in s.stops : Known(p.exit) /\ p.exit <= l.end => p.exit <= t
    BY <1>2, <2>1 DEF Known, Maybe
  <2>3. \A p : (p \in c.stops /\ Known(p.exit)) <=> (p \in s.stops /\ Known(p.exit) /\ p.exit <= t)
    BY <2>1
  <2> QED
    BY <2>2, <2>3
<1>12. /\ FeatureForLap(c, l) = Given(Eligible(c, l), IsLappedAtBoundary(c, l), Past(c), WeatherAt(c, l.end),
                                     SeenBy(c, l), Out(c))
       /\ FeatureForLap(s, l) = Given(Eligible(s, l), IsLappedAtBoundary(s, l), Past(s), WeatherAt(s, l.end),
                                     SeenBy(s, l), Out(s))
  BY <1>1
<1> HIDE DEF Past, Out, Given
<1>13. Eligible(c, l) = Eligible(s, l) /\ IsLappedAtBoundary(c, l) = IsLappedAtBoundary(s, l)
  BY <1>7, <1>8 DEF Eligible, IsLappedAtBoundary
<1> QED
  BY <1>6, <1>9, <1>10, <1>11, <1>12, <1>13, Zenon

(* What a driver is given at a time, and what is forecast for it, is known then. *)
LEMMA ForecastKnown ==
  ASSUME NEW s, NEW c, NEW t \in Nat, Tabled(s), LapsValid(s), Agree(s, c, t), NEW d
  PROVE  /\ {l \in LapsFor(c, d) : EndedBy(l, t)} = {l \in LapsFor(s, d) : EndedBy(l, t)}
         /\ Completed(c, d, t) = Completed(s, d, t)
         /\ FeatureAt(c, d, t) = FeatureAt(s, d, t)
         /\ SessionIsFinishedAt(c, t) <=> SessionIsFinishedAt(s, t)
         /\ Forecast(c, d, t) = Forecast(s, d, t)
<1>1. {l \in LapsFor(c, d) : EndedBy(l, t)} = {l \in LapsFor(s, d) : EndedBy(l, t)}
  <2>1. Ended(c, t) = Ended(s, t)
    BY DEF Agree
  <2>2. \A r : {l \in LapsFor(r, d) : EndedBy(l, t)} = {l \in Ended(r, t) : l.driver = d}
    BY DEF LapsFor, Ended
  <2> QED
    BY <2>1, <2>2
<1>2. Completed(c, d, t) = Completed(s, d, t)
  BY <1>1, Zenon DEF Completed
<1>3. Completed(s, d, t) \subseteq Ended(s, t)
  BY DEF Completed, TheLast, Ended, LapsFor
<1>4. FeatureAt(c, d, t) = FeatureAt(s, d, t)
  <2> DEFINE l == CHOOSE l \in Completed(s, d, t) : TRUE
  <2>1. CASE Completed(s, d, t) = {}
    BY <1>2, <2>1 DEF FeatureAt
  <2>2. CASE Completed(s, d, t) # {}
    <3>1. l \in Completed(s, d, t)
      BY <2>2
    <3>2. FeatureAt(c, d, t) = FeatureForLap(c, l) /\ FeatureAt(s, d, t) = FeatureForLap(s, l)
      BY <1>2, <2>2, Zenon DEF FeatureAt
    <3> HIDE DEF l
    <3>3. l \in Ended(s, t)
      BY <1>3, <3>1
    <3>4. FeatureForLap(c, l) = FeatureForLap(s, l)
      BY <3>3, FeatureKnown
    <3> QED
      BY <3>2, <3>4
  <2> QED
    BY <2>1, <2>2
<1>5. SessionIsFinishedAt(c, t) <=> SessionIsFinishedAt(s, t)
  BY DEF SessionIsFinishedAt, Agree
<1>6. Forecast(c, d, t) = Forecast(s, d, t)
  BY <1>4, <1>5 DEF Forecast
<1> QED
  BY <1>1, <1>2, <1>4, <1>5, <1>6

(* Who can be simulated, and how it stands, is known. *)
LEMMA FieldKnown ==
  ASSUME NEW s, NEW c, NEW t \in Nat, Tabled(s), LapsValid(s), Agree(s, c, t), NEW got, NEW d, NEW total
  PROVE  BuildState(c, got, d, t, total) = BuildState(s, got, d, t, total)
<1> DEFINE state == got.state
           Field(r) == {o \in Driver : Running(r, state, o, t)}
           Entries(r, F) == [o \in F |-> Entry(r, state, o, t)]
           Stands(e, f, F) == /\ ~ e
                              /\ state.track = Clear
                              /\ state.weather # None /\ state.weather.wet = FALSE
                              /\ Known(got.lap) /\ total > got.lap
                              /\ f # None
                              /\ d \in F /\ Cardinality(F) >= 2
<1>1. \A o : /\ {l \in LapsFor(c, o) : EndedBy(l, t)} = {l \in LapsFor(s, o) : EndedBy(l, t)}
             /\ Completed(c, o, t) = Completed(s, o, t)
             /\ FeatureAt(c, o, t) = FeatureAt(s, o, t)
  BY ForecastKnown
<1>2. SessionIsFinishedAt(c, t) <=> SessionIsFinishedAt(s, t)
  BY ForecastKnown
<1>3. \A o : Running(c, state, o, t) <=> Running(s, state, o, t)
  BY <1>1 DEF Running
<1>4. Field(c) = Field(s)
  BY <1>3
<1>5. \A o : Entry(c, state, o, t) = Entry(s, state, o, t)
  <2> SUFFICES ASSUME NEW o PROVE Entry(c, state, o, t) = Entry(s, state, o, t)
    OBVIOUS
  <2> DEFINE Made(done, feature) ==
               LET car == state.car[o]
                   latest == CHOOSE l \in done : \A b \in done : ~ Before(<<l.end, l.lap>>, <<b.end, b.lap>>)
               IN [laps |-> car.laps, at |-> latest.end, elapsed |-> t - latest.end,
                   compound |-> car.compound, age |-> car.age, stint |-> IF Known(car.stint) THEN car.stint ELSE 1,
                   stops |-> car.stops, place |-> IF Known(car.place) THEN car.place ELSE 30,
                   used |-> {car.compound} \cup ({l.compound : l \in done} \cap Dry),
                   given |-> feature]
             Done(r) == {l \in LapsFor(r, o) : EndedBy(l, t)}
  <2>1. /\ Entry(c, state, o, t) = Made(Done(c), FeatureAt(c, o, t))
        /\ Entry(s, state, o, t) = Made(Done(s), FeatureAt(s, o, t))
    BY DEF Entry
  <2>2. Done(c) = Done(s) /\ FeatureAt(c, o, t) = FeatureAt(s, o, t)
    BY <1>1
  <2> HIDE DEF Made, Done
  <2> QED
    BY <2>1, <2>2
<1>6. Entries(c, Field(c)) = Entries(s, Field(s))
  BY <1>4, <1>5
<1>7. \A r : BuildState(r, got, d, t, total) =
              IF Stands(SessionIsFinishedAt(r, t), FeatureAt(r, d, t), Field(r)) THEN Entries(r, Field(r)) ELSE None
  BY DEF BuildState
<1>8. FeatureAt(c, d, t) = FeatureAt(s, d, t)
  BY <1>1
<1> HIDE DEF Field, Entries
<1>9. Stands(SessionIsFinishedAt(c, t), FeatureAt(c, d, t), Field(c))
        <=> Stands(SessionIsFinishedAt(s, t), FeatureAt(s, d, t), Field(s))
  BY <1>2, <1>4, <1>8
<1> HIDE DEF Stands
<1> QED
  BY <1>6, <1>7, <1>9

(* The lap with a feature is the last its driver has completed when it ends. *)
LEMMA CompletedOnly ==
  ASSUME NEW s, LapTable(s.laps), NEW l \in s.laps, Known(l.end), ~ IsLappedAtBoundary(s, l)
  PROVE  Completed(s, l.driver, l.end) = {l}
<1> DEFINE D == {o \in LapsFor(s, l.driver) : EndedBy(o, l.end)}
<1>1. Completed(s, l.driver, l.end) = {o \in D : Cardinality({b \in D : b.lap > o.lap}) < 1}
  BY DEF Completed, TheLast
<1>2. l.end \in Nat /\ l \in D
  BY DEF LapTable, Lap, Known, Maybe, LapsFor, EndedBy
<1>3. IsFiniteSet(D) /\ \A o \in D : o \in s.laps /\ o.lap \in Nat /\ o.driver = l.driver /\ EndedBy(o, l.end)
  BY FS_Subset DEF LapTable, Lap, LapsFor
<1>4. \A o \in D : ~ o.lap > l.lap
  BY <1>3 DEF IsLappedAtBoundary
<1> HIDE DEF D
<1>5. Cardinality({b \in D : b.lap > l.lap}) < 1
  <2>1. {b \in D : b.lap > l.lap} = {}
    BY <1>4
  <2> QED
    BY <2>1, FS_EmptySet
<1>6. ASSUME NEW o \in D, o # l PROVE ~ Cardinality({b \in D : b.lap > o.lap}) < 1
  <2> DEFINE B == {b \in D : b.lap > o.lap}
  <2>1. o.lap # l.lap
    BY <1>2, <1>3, <1>6 DEF LapTable
  <2>2. l \in B
    BY <1>2, <1>3, <1>4, <2>1
  <2>3. IsFiniteSet(B)
    BY <1>3, FS_Subset
  <2> HIDE DEF B
  <2>4. Cardinality(B) \in Nat /\ Cardinality(B) # 0
    BY <2>2, <2>3, FS_CardinalityType, FS_EmptySet
  <2> QED
    BY <2>4 DEF B
<1> QED
  BY <1>1, <1>2, <1>5, <1>6

(* An example of a lap time is known when its lap ends, and asks for a later one. *)
LEMMA PaceCausal ==
  ASSUME NEW rs, Standing(rs), NEW r \in PaceRows(Derived(rs))
  PROVE  LET c == Derived(Cut(rs, r.feature.at))
         IN r.feature = FeatureAt(c, r.feature.driver, r.feature.at) /\ r.until > r.feature.at
<1> DEFINE s == Derived(rs)
           c == Derived(Cut(rs, r.feature.at))
<1>1. \A x \in Nat : Agree(s, Derived(Cut(rs, x)), x)
  BY CutAgrees
<1>2. Tabled(s) /\ LapsValid(s) /\ LapTable(s.laps)
  BY DEF Standing, Tabled
<1>3. PICK l \in s.laps, n \in s.laps :
        /\ FeatureForLap(s, l) # None
        /\ n.driver = l.driver /\ n.lap = l.lap + 1 /\ Known(n.end)
        /\ r = [feature |-> FeatureForLap(s, l), target |-> n.lap, until |-> n.end, time |-> n.time]
  <2> HIDE DEF s
  <2> QED
    BY DEF PaceRows, LapsFor, s
<1> HIDE DEF s
<1>4. r.feature = FeatureForLap(s, l) /\ r.until = n.end
  BY <1>3
<1>5. Eligible(s, l) /\ ~ IsLappedAtBoundary(s, l)
  BY <1>3 DEF FeatureForLap
<1>6. r.feature.driver = l.driver /\ r.feature.at = l.end
  BY <1>3, <1>4 DEF FeatureForLap
<1>7. Known(l.end) /\ l.end \in Nat /\ n.end \in Nat /\ l.lap \in Nat /\ n.lap \in Nat
  BY <1>2, <1>3, <1>5 DEF Eligible, LapTable, Lap, Maybe, Known
<1>8. Completed(s, l.driver, l.end) = {l}
  BY <1>2, <1>5, <1>7, CompletedOnly
<1>9. FeatureAt(s, l.driver, l.end) = FeatureForLap(s, l)
  BY <1>8 DEF FeatureAt
<1>10. Agree(s, c, l.end)
  BY <1>1, <1>6, <1>7
<1> HIDE DEF c
<1>11. FeatureAt(c, l.driver, l.end) = FeatureAt(s, l.driver, l.end)
  BY <1>2, <1>7, <1>10, ForecastKnown
<1>12. n.end > l.end
  <2>1. ~ EndedBy(n, l.end)
    BY <1>3, <1>5, <1>7 DEF IsLappedAtBoundary
  <2> QED
    BY <1>3, <1>7, <2>1 DEF EndedBy
<1>13. r.feature = FeatureAt(c, r.feature.driver, r.feature.at) /\ r.until > r.feature.at
  BY <1>4, <1>6, <1>9, <1>11, <1>12
<1> QED
  BY <1>13 DEF c

(* An example of a stop is known when the car enters the pits. *)
LEMMA PitCausal ==
  ASSUME NEW rs, Standing(rs), NEW r \in PitRows(Derived(rs))
  PROVE  r.before = CleanBefore(Derived(Cut(rs, r.enter)), r) /\ r.enter <= r.until
<1> DEFINE s == Derived(rs)
           c == Derived(Cut(rs, r.enter))
           Clean(k, x) == {l \in LapsFor(k, x.driver) : l.lap < x.lap /\ Eligible(k, l)}
<1>1. \A x \in Nat : Agree(s, Derived(Cut(rs, x)), x)
  BY CutAgrees
<1>2. Tabled(s) /\ LapsValid(s) /\ LapTable(s.laps) /\ s.stops = Stops(s.laps)
  BY DEF Standing, Tabled, Derived
<1> HIDE DEF s
<1>3. PICK p \in s.stops :
        /\ Known(p.enter) /\ Known(p.exit)
        /\ Cardinality(CleanBefore(s, p)) >= 2
        /\ \A l \in CleanBefore(s, p) : l.end < p.enter
        /\ r.driver = p.driver /\ r.lap = p.lap /\ r.before = CleanBefore(s, p)
        /\ r.enter = p.enter /\ r.until = p.exit
  BY DEF PitRows, s
<1>4. p.enter \in Nat /\ p.exit \in Nat /\ p.lap \in Nat
  BY <1>2, <1>3 DEF Tabled, StopRows, Known, Maybe
<1>5. p.enter <= p.exit
  BY <1>2, <1>3, StopsObserved DEF Known
<1> DEFINE t == p.enter
<1>6. Agree(s, c, t)
  BY <1>1, <1>3, <1>4
<1> HIDE DEF c
<1>7. t \in Nat
  BY <1>4
<1>8. CleanBefore(s, p) = TheLast(Clean(s, p), 3) /\ CleanBefore(c, r) = TheLast(Clean(c, r), 3)
  BY DEF CleanBefore
<1>9. Clean(c, r) = Clean(c, p)
  BY <1>3
<1>10. ASSUME NEW l \in Clean(s, p) PROVE l \in Ended(s, t)
  <2>1. /\ l \in s.laps /\ Known(l.end) /\ l.end \in Nat /\ l.lap \in Nat /\ l.driver = p.driver
        /\ \A o \in Clean(s, p) : o \in s.laps /\ o.end \in Nat /\ o.lap \in Nat /\ o.driver = p.driver
    BY <1>2 DEF LapsFor, Eligible, LapTable, Lap, Known, Maybe
  <2>2. IsFiniteSet(Clean(s, p))
    BY <1>2, FS_Subset DEF LapTable, LapsFor
  <2> HIDE DEF Clean
  <2>3. PICK m \in Clean(s, p) : \A o \in Clean(s, p) : o.lap <= m.lap
    <3> DEFINE N == {o.lap : o \in Clean(s, p)}
    <3> DEFINE f == [o \in Clean(s, p) |-> o.lap]
    <3>1. IsFiniteSet({f[o] : o \in DOMAIN f})
      BY <2>2, ImageFinite
    <3>2. {f[o] : o \in DOMAIN f} = N
      OBVIOUS
    <3>3. N # {} /\ N \subseteq Int
      BY <2>1
    <3>4. PICK a \in N : \A b \in N : b <= a
      BY <3>1, <3>2, <3>3, MaxIn
    <3> QED
      BY <3>4
  <2>4. m \in CleanBefore(s, p)
    <3>1. {o \in Clean(s, p) : o.lap > m.lap} = {}
      BY <2>1, <2>3
    <3>2. Cardinality({o \in Clean(s, p) : o.lap > m.lap}) < 3
      BY <3>1, FS_EmptySet
    <3> QED
      BY <1>8, <2>3, <3>2 DEF TheLast
  <2>5. m.end < t
    BY <1>3, <2>4
  <2>6. l.end <= m.end
    <3>1. CASE l.lap = m.lap
      <4>1. l = m
        BY <1>2, <2>1, <2>3, <3>1 DEF LapTable
      <4> QED
        BY <2>1, <4>1
    <3>2. CASE l.lap < m.lap
      <4>1. InOrder(l.end, m.end) /\ {l.end, m.end} \subseteq Int
        BY <1>2, <2>1, <2>3, <3>2 DEF LapsValid
      <4> QED
        BY <4>1 DEF InOrder
    <3> QED
      BY <2>1, <2>3, <3>1, <3>2
  <2> QED
    BY <1>7, <2>1, <2>3, <2>5, <2>6 DEF Ended, EndedBy
<1>11. \A l \in Ended(s, t) : Eligible(c, l) <=> Eligible(s, l)
  BY <1>2, <1>6, <1>7, EligibleKnown
<1>12. /\ \A l \in s.laps : EndedBy(l, t) => l \in c.laps
       /\ \A l \in c.laps : Known(l.end) => l \in s.laps /\ EndedBy(l, t)
  BY <1>2, <1>6, <1>7, EndedEarlier
<1>13. Clean(c, p) = Clean(s, p)
  <2>1. \A l \in Clean(s, p) : l \in Clean(c, p)
    BY <1>10, <1>11, <1>12 DEF LapsFor, Ended
  <2>2. \A l \in Clean(c, p) : l \in Clean(s, p)
    <3> SUFFICES ASSUME NEW l \in Clean(c, p) PROVE l \in Clean(s, p)
      OBVIOUS
    <3>1. Eligible(c, l) /\ l \in c.laps /\ l.driver = p.driver /\ l.lap < p.lap
      BY DEF LapsFor
    <3>2. l \in Ended(s, t)
      BY <1>12, <3>1 DEF Eligible, Ended
    <3> QED
      BY <1>11, <3>1, <3>2 DEF LapsFor, Ended
  <2> QED
    BY <2>1, <2>2
<1>14. r.before = CleanBefore(c, r) /\ r.enter <= r.until
  BY <1>3, <1>5, <1>8, <1>9, <1>13
<1> QED
  BY <1>14 DEF c

(* Advice is what was asked for, of the session stored. *)
Given ==
  advice # None =>
    /\ engine # None
    /\ \/ advice = [kind |-> "examples", got |-> Examples(stored.session)]
       \/ \E d \in Driver, t \in Time :
            advice = [kind |-> "forecast", driver |-> d, at |-> t, got |-> Forecast(stored.session, d, t)]
       \/ \E d \in Driver, t \in Time, total \in Distance : \E strategy :
            advice = Asked(d, t, strategy, total, FieldAt(d, t, total))

(* It stays so: the session is stored before the engine is opened, once. *)
LEMMA GivenHolds == AdviceSpec => []Given
<1>1. AdviceInit => Given
  BY DEF AdviceInit, Given
<1>2. Engaged /\ Given /\ [AdviceNext]_adviceVars => Given'
  <2> SUFFICES ASSUME Engaged, Given, [AdviceNext]_adviceVars PROVE Given'
    OBVIOUS
  <2>1. ASSUME UNCHANGED <<advice, stored, engine>> PROVE Given'
    BY <2>1 DEF Given, FieldAt
  <2>2. CASE (Ingest \/ Open) /\ UNCHANGED <<advice, race>>
    <3>1. CASE advice = None
      BY <2>2, <3>1 DEF Given
    <3>2. CASE advice # None
      <4>1. engine # None /\ UNCHANGED <<advice, engine>>
        BY <2>2, <3>2 DEF Given, Ingest, Open
      <4>2. ~ Open /\ ~ Ingest
        BY <4>1 DEF Open, Ingest, Engaged
      <4> QED
        BY <2>2, <4>2
    <3> QED
      BY <3>1, <3>2
  <2>3. CASE BuildDataset
    BY <2>3 DEF BuildDataset, Given, replayVars
  <2>4. ASSUME NEW d \in Driver, NEW t \in Time, Predict(d, t) PROVE Given'
    BY <2>4 DEF Predict, Given, replayVars
  <2>5. ASSUME NEW d \in Driver, NEW t \in Time, NEW strategy, NEW total \in Distance, engine # None,
               advice' = Asked(d, t, strategy, total, FieldAt(d, t, total)), UNCHANGED replayVars
        PROVE  Given'
    <3>1. FieldAt(d, t, total)' = FieldAt(d, t, total) /\ engine' # None
      BY <2>5 DEF FieldAt, replayVars
    <3> QED
      BY <2>5, <3>1 DEF Given
  <2>6. ASSUME NEW d \in Driver, NEW t \in Time, NEW strategy \in Strategies, NEW total \in Distance,
               Simulate(d, t, strategy, total)
        PROVE  Given'
    BY <2>5, <2>6 DEF Simulate
  <2>7. ASSUME NEW d \in Driver, NEW t \in Time, NEW total \in Distance, Compare(d, t, total)
        PROVE  Given'
    BY <2>5, <2>7 DEF Compare
  <2>8. CASE Start \/ NextLap
    BY <2>1, <2>8 DEF Start, NextLap, replayVars
  <2>9. CASE UNCHANGED adviceVars
    BY <2>1, <2>9 DEF adviceVars, replayVars
  <2> QED
    BY <2>2, <2>3, <2>4, <2>6, <2>7, <2>8, <2>9 DEF AdviceNext
<1> QED
  BY <1>1, <1>2, AdviceReplays, EngagedHolds, PTL DEF AdviceSpec

(* A session whose rows are those of the provider stands, its pits in its laps. *)
LEMMA StoredStands ==
  ASSUME Ingested, stored # None, PitsInLaps(stored.session)
  PROVE  Standing(Records(rows)) /\ stored.session = Derived(Records(rows))
<1> DEFINE rs == Records(rows)
<1>1. stored.session = Derived(rs) /\ rows \in Sessions /\ Valid(Derived(rs))
  BY DEF Ingested, Session
<1>2. Tabled(Derived(rs))
  BY <1>1, SessionTabled DEF Session
<1>3. rs.laps \subseteq rows.laps
  BY <1>1, RecordsAreRows
<1>4. \A l \in rows.laps : LapRow(l)
  BY <1>1, SessionsAssumption
<1> HIDE DEF rs
<1>5. Columns(rs.laps)
  BY <1>3, <1>4 DEF Columns, LapRow
<1>6. AreRecords(rs.laps)
  BY <1>3, <1>4, Zenon DEF AreRecords, LapRow
<1>7. Standing(rs)
  BY <1>1, <1>2, <1>5, <1>6 DEF Standing, Valid
<1> QED
  BY <1>1, <1>7 DEF rs

(* The field of a simulation is the one a session that ends at its time has. *)
LEMMA SimulatedByThen ==
  ASSUME Engaged, engine # None, PitsInLaps(stored.session), FirstTyres(stored.session),
         NEW t \in Nat, NEW d, NEW total
  PROVE  LET s == KnownAt(t)
             got == [state |-> [Replayed(Fresh, Timeline(s)) EXCEPT !.at = t],
                     lap |-> ReferenceLap(Cursors(s), t)]
         IN FieldAt(d, t, total) = IF t > Last(stored.events).at THEN None ELSE BuildState(s, got, d, t, total)
<1> DEFINE rs == Records(rows)
           s == Derived(rs)
           ev == Timeline(s)
           n == EventLimit(ev, t)
           c == Derived(Cut(rs, t))
           now == [state |-> [Replayed(Fresh, Timeline(c)) EXCEPT !.at = t], lap |-> ReferenceLap(Cursors(c), t)]
<1>1. stored # None /\ Ingested
  BY DEF Engaged
<1>2. Standing(rs) /\ stored.session = s
  BY <1>1, StoredStands
<1>3. stored = [session |-> s, events |-> ev]
  BY <1>1 DEF Ingested, Session
<1>4. PICK k \in Interval : engine = Opened(stored, k)
  BY DEF Engaged
<1>5. Tabled(s) /\ LapsValid(s) /\ Columns(rs.laps)
  BY <1>2 DEF Standing
<1>6. Agree(s, c, t)
  BY <1>2, CutAgrees
<1>7. TyresOfFirst(rs.laps)
  <2>1. s.stints = Stints(rs.laps) /\ s.laps = rs.laps
    BY DEF Derived
  <2> HIDE DEF s, rs
  <2> QED
    BY <1>2, <2>1 DEF FirstTyres, TyresOfFirst
<1>8. KnownAt(t) = c
  BY DEF KnownAt
<1> HIDE DEF rs, s, n, c
<1> DEFINE got == StateAt(stored, engine, t)
<1>9. FieldAt(d, t, total) = IF "state" \in DOMAIN got THEN BuildState(s, got, d, t, total) ELSE None
  BY <1>2 DEF FieldAt
<1>10. CASE t > Last(stored.events).at
  <2>1. got = [error |-> TRUE]
    BY <1>10 DEF StateAt
  <2>2. "state" \notin DOMAIN got
    BY <2>1
  <2> QED
    BY <1>8, <1>9, <1>10, <2>2
<1>11. CASE ~ t > Last(stored.events).at
  <2>1. "state" \in DOMAIN got
    BY <1>11 DEF StateAt
  <2>2. /\ n \in 0..Len(ev) /\ \A i \in DOMAIN ev : ev[i].at <= t <=> i <= n
        /\ got = [state |-> [States(ev, n) EXCEPT !.at = t], lap |-> ReferenceLap(Cursors(s), t)]
    BY <1>3, <1>4, <1>5, <2>1, StateAtReplays DEF n
  <2>3. /\ States(ev, n) = Replayed(Fresh, Timeline(c))
        /\ ReferenceLap(Cursors(s), t) = ReferenceLap(Cursors(c), t)
    BY <1>5, <1>7, <2>2, AnsweredByThen DEF s, c
  <2> HIDE DEF got, ev
  <2>4. got = now
    BY <2>2, <2>3, Zenon
  <2> HIDE DEF now
  <2>5. BuildState(c, now, d, t, total) = BuildState(s, now, d, t, total)
    BY <1>5, <1>6, FieldKnown
  <2>6. FieldAt(d, t, total) = BuildState(c, now, d, t, total)
    BY <1>9, <2>1, <2>4, <2>5
  <2> QED
    BY <1>8, <1>11, <2>6 DEF now
<1> QED
  BY <1>10, <1>11

(* Nothing of what is predicted or simulated at a time, or put together as an   *)
(* example of it, is known only later.                                          *)
THEOREM AdviceKnowsNoFuture == AdviceSpec => []AdviceCausal
<1>1. Engaged /\ Given => AdviceCausal
  <2> SUFFICES ASSUME Engaged, Given, advice # None, PitsInLaps(stored.session) PROVE AdviceCausal
    BY DEF AdviceCausal
  <2> DEFINE rs == Records(rows)
             s == Derived(rs)
  <2>1. engine # None /\ stored # None /\ Ingested
    BY DEF Given, Engaged
  <2>2. Standing(rs) /\ stored.session = s
    BY <2>1, StoredStands
  <2>3. Tabled(s) /\ LapsValid(s)
    BY <2>2 DEF Standing
  <2>4. \A t : KnownAt(t) = Derived(Cut(rs, t))
    BY DEF KnownAt
  <2> HIDE DEF rs
  <2>5. \A t \in Nat : Agree(s, Derived(Cut(rs, t)), t)
    BY <2>2, CutAgrees
  <2> HIDE DEF s
  <2>6. CASE advice = [kind |-> "examples", got |-> Examples(stored.session)]
    <3>1. advice.kind = "examples" /\ advice.got.pace = PaceRows(s) /\ advice.got.pits = PitRows(s)
      BY <2>2, <2>6 DEF Examples
    <3>2. \A r \in PaceRows(s) : /\ r.feature = FeatureAt(KnownAt(r.feature.at), r.feature.driver, r.feature.at)
                                 /\ r.until > r.feature.at
      BY <2>2, <2>4, PaceCausal DEF s
    <3>3. \A r \in PitRows(s) : r.before = CleanBefore(KnownAt(r.enter), r) /\ r.enter <= r.until
      BY <2>2, <2>4, PitCausal DEF s
    <3> QED
      BY <3>1, <3>2, <3>3 DEF AdviceCausal
  <2>7. ASSUME NEW d \in Driver, NEW t \in Time,
               advice = [kind |-> "forecast", driver |-> d, at |-> t, got |-> Forecast(stored.session, d, t)]
        PROVE  AdviceCausal
    <3>1. advice.kind = "forecast" /\ advice.got = Forecast(s, d, t) /\ advice.driver = d /\ advice.at = t
      BY <2>2, <2>7
    <3>2. t \in Nat
      BY TimeAssumption
    <3>3. Agree(s, KnownAt(t), t)
      BY <2>4, <2>5, <3>2
    <3>4. Forecast(KnownAt(t), d, t) = Forecast(s, d, t)
      BY <2>3, <3>2, <3>3, ForecastKnown
    <3> QED
      BY <3>1, <3>4 DEF AdviceCausal
  <2>8. ASSUME NEW d \in Driver, NEW t \in Time, NEW total \in Distance, NEW strategy,
               advice = Asked(d, t, strategy, total, FieldAt(d, t, total))
        PROVE  AdviceCausal
    <3>1. /\ advice.kind = "simulation" /\ advice.field = FieldAt(d, t, total)
          /\ advice.driver = d /\ advice.at = t /\ advice.total = total
      BY <2>8 DEF Asked
    <3>2. t \in Nat
      BY TimeAssumption
    <3>3. FirstTyres(stored.session) =>
            LET k == KnownAt(t)
                got == [state |-> [Replayed(Fresh, Timeline(k)) EXCEPT !.at = t],
                        lap |-> ReferenceLap(Cursors(k), t)]
            IN FieldAt(d, t, total) =
                 IF t > Last(stored.events).at THEN None ELSE BuildState(k, got, d, t, total)
      BY <2>1, <3>2, SimulatedByThen
    <3> QED
      BY <3>1, <3>3 DEF AdviceCausal
  <2> QED
    BY <2>6, <2>7, <2>8 DEF Given
<1> QED
  BY <1>1, AdviceReplays, EngagedHolds, GivenHolds, PTL
=================================================================================
