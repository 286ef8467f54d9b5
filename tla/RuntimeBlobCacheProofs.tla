----------------------- MODULE RuntimeBlobCacheProofs -----------------------
(***************************************************************************)
(* Proofs about RuntimeBlobCache for every set of threads, processes,      *)
(* releases and files.  The lock bookkeeping and the lease counters are    *)
(* inductive together with the types: a counter may be decremented because *)
(* it counts the frames of the one thread that holds the mutex, and a file *)
(* may be dropped because only that thread can drop it.  The limits speak  *)
(* of sums over sets of files; what a sum is, is proved here by induction  *)
(* over the subsets of a finite set.                                       *)
(***************************************************************************)
EXTENDS RuntimeBlobCache, FiniteSetTheorems, SequenceTheorems, WellFoundedInduction, TLAPS

LockInv == LocksAccounted /\ LeaseCounts

-----------------------------------------------------------------------------
(* Counting the frames of a lease stack that hold a file. *)

(* The frames of a stack that hold a file are finitely many. *)
LEMMA FramesFinite ==
  ASSUME NEW s \in Seq(SUBSET File), NEW f
  PROVE  /\ IsFiniteSet(Frames(s, f))
         /\ Cardinality(Frames(s, f)) \in Nat
<1>1. Len(s) \in Nat
  OBVIOUS
<1>2. IsFiniteSet(1..Len(s))
  BY <1>1, FS_Interval
<1>3. Frames(s, f) \in SUBSET (1..Len(s))
  BY DEF Frames
<1> QED
  BY <1>2, <1>3, FS_Subset, FS_CardinalityType

(* An empty stack holds no file. *)
LEMMA FramesEmpty == \A f : Cardinality(Frames(<<>>, f)) = 0
<1>1. \A f : Frames(<<>>, f) = {}
  BY DEF Frames
<1> QED
  BY <1>1, FS_EmptySet

(* Granting a lease adds one frame for each of its files. *)
LEMMA FramesPush ==
  ASSUME NEW s \in Seq(SUBSET File), NEW S \in SUBSET File, NEW f
  PROVE  Cardinality(Frames(Append(s, S), f)) =
            Cardinality(Frames(s, f)) + (IF f \in S THEN 1 ELSE 0)
<1> DEFINE n == Len(s)
<1>1. n \in Nat
  OBVIOUS
<1>2. /\ Len(Append(s, S)) = n + 1
      /\ \A i \in 1..n : Append(s, S)[i] = s[i]
      /\ Append(s, S)[n + 1] = S
  BY AppendProperties
<1>3. n + 1 \notin Frames(s, f)
  BY <1>1 DEF Frames
<1>4. CASE f \in S
  <2>1. Frames(Append(s, S), f) = Frames(s, f) \cup {n + 1}
    BY <1>1, <1>2, <1>4 DEF Frames
  <2> QED
    BY <2>1, <1>3, <1>4, FramesFinite, FS_AddElement
<1>5. CASE f \notin S
  <2>1. Frames(Append(s, S), f) = Frames(s, f)
    BY <1>1, <1>2, <1>5 DEF Frames
  <2> QED
    BY <2>1, <1>5, FramesFinite
<1> QED
  BY <1>4, <1>5

(* Ending a lease removes one frame for each of its files. *)
LEMMA FramesPop ==
  ASSUME NEW s \in Seq(SUBSET File), s # <<>>, NEW f
  PROVE  Cardinality(Frames(SubSeq(s, 1, Len(s) - 1), f)) =
            Cardinality(Frames(s, f)) - (IF f \in s[Len(s)] THEN 1 ELSE 0)
<1> DEFINE n == Len(s)
           r == SubSeq(s, 1, n - 1)
<1>1. n \in Nat /\ n >= 1
  OBVIOUS
<1>2. /\ Len(r) = n - 1
      /\ \A i \in 1..(n - 1) : r[i] = s[i]
  <2>1. 1 \in 1..(n + 1) /\ n - 1 \in (1 - 1)..n
    BY <1>1
  <2>2. /\ Len(r) = IF 1 <= n - 1 THEN (n - 1) - 1 + 1 ELSE 0
        /\ \A i \in 1..((n - 1) - 1 + 1) : r[i] = s[1 + i - 1]
    BY <2>1, SubSeqProperties
  <2> HIDE DEF r, n
  <2>3. Len(r) = n - 1
    BY <1>1, <2>2
  <2>4. ASSUME NEW i \in 1..(n - 1)
        PROVE  r[i] = s[i]
    <3>1. i \in 1..((n - 1) - 1 + 1) /\ 1 + i - 1 = i
      BY <1>1
    <3> QED
      BY <2>2, <3>1
  <2> QED
    BY <2>3, <2>4
<1>3. Frames(r, f) = Frames(s, f) \ {n}
  BY <1>1, <1>2 DEF Frames
<1>4. n \in Frames(s, f) <=> f \in s[n]
  BY <1>1 DEF Frames
<1> HIDE DEF r, n
<1>5. Cardinality(Frames(s, f) \ {n}) =
        IF n \in Frames(s, f) THEN Cardinality(Frames(s, f)) - 1
                              ELSE Cardinality(Frames(s, f))
  BY FramesFinite, FS_RemoveElement
<1>6. Cardinality(Frames(r, f)) =
        Cardinality(Frames(s, f)) - (IF f \in s[n] THEN 1 ELSE 0)
  BY <1>3, <1>4, <1>5, FramesFinite
<1> QED
  BY <1>6 DEF r, n

-----------------------------------------------------------------------------
(* The locks and counters. *)

(* Initially every lock is free and no file is leased. *)
LEMMA InitLockInv == Init => LockInv
BY ConstantsAssumption DEF Init, LockInv, LocksAccounted, LeaseCounts, Holding, Critical, Proc

(* A step that moves threads only within the locked region or only outside  *)
(* it, and touches no lock, counter or stack, keeps the bookkeeping.        *)
LEMMA QuietStep ==
  ASSUME LockInv,
         UNCHANGED <<mutex, depth, flock, leased, stack>>,
         \A u \in Thread : (pc'[u] \in Critical) <=> (pc[u] \in Critical),
         \A u \in Thread : (pc'[u] = "flock") <=> (pc[u] = "flock")
  PROVE  LockInv'
<1>1. Critical' = Critical
  BY DEF Critical
<1>2. LocksAccounted'
  BY <1>1, Zenon DEF LockInv, LocksAccounted, Proc, Holding
<1>3. LeaseCounts'
  BY DEF LockInv, LeaseCounts
<1> QED
  BY <1>2, <1>3 DEF LockInv

(* What the bookkeeping says of a thread t that owns its process's mutex:   *)
(* no other thread of the process is inside, and if t is inside no other    *)
(* thread at all is.                                                        *)
LEMMA Owner ==
  ASSUME TypeOK, LockInv, NEW t \in Thread, mutex[Proc(t)] = t
  PROVE  /\ \A u \in Thread : u # t /\ Proc(u) = Proc(t) =>
                ~ Holding(u) /\ pc[u] # "flock" /\ stack[u] = <<>>
         /\ Holding(t) => \A u \in Thread : u # t => ~ Holding(u) /\ stack[u] = <<>>
         /\ depth[Proc(t)] =
                IF pc[t] \in Critical THEN Len(stack[t]) + 1 ELSE Len(stack[t])
         /\ Holding(t) => flock = Proc(t)
         /\ \A f \in File : leased[Proc(t)][f] = Cardinality(Frames(stack[t], f))
<1>1. /\ Proc(t) \in Process /\ t # NoOne
      /\ \A u \in Thread : Proc(u) \in Process
  BY ConstantsAssumption DEF Proc
<1>3. \A u \in Thread : (Holding(u) \/ pc[u] = "flock") <=> mutex[Proc(u)] = u
  BY DEF LockInv, LocksAccounted
<1>4. \A u \in Thread : Holding(u) => flock = Proc(u)
  BY DEF LockInv, LocksAccounted
<1>5. \A u \in Thread : ~ Holding(u) => stack[u] = <<>>
  BY DEF Holding
<1>6. \A u \in Thread : u # t /\ Proc(u) = Proc(t) => ~ Holding(u) /\ pc[u] # "flock"
  BY <1>3
<1>7. Holding(t) => \A u \in Thread : u # t => ~ Holding(u)
  BY <1>3, <1>4
<1>8. depth[Proc(t)] =
                IF pc[t] \in Critical THEN Len(stack[t]) + 1 ELSE Len(stack[t])
  BY DEF LockInv, LocksAccounted
<1>9. \A f \in File : leased[Proc(t)][f] = Cardinality(Frames(stack[t], f))
  BY <1>1 DEF LockInv, LeaseCounts
<1> QED
  BY <1>4, <1>5, <1>6, <1>7, <1>8, <1>9

-----------------------------------------------------------------------------
(* A step of thread t that changes the locks only of its own process p, to *)
(* values that account for t's new place l and stack s: m is the new holder *)
(* of the mutex, d the new depth and c the new counters.                    *)
Accounts(t, p, m, d, s, l, c) ==
  /\ p = Proc(t) /\ mutex[p] \in {NoOne, t}
  /\ m \in {NoOne, t} /\ d \in Nat /\ s \in Seq(SUBSET File)
  /\ mutex' = [mutex EXCEPT ![p] = m]
  /\ depth' = [depth EXCEPT ![p] = d]
  /\ stack' = [stack EXCEPT ![t] = s]
  /\ pc' = [pc EXCEPT ![t] = l]
  /\ leased' = [leased EXCEPT ![p] = c]
  /\ \A r \in Process : r # p => ((flock' = r) <=> (flock = r))
  /\ (flock' = p) <=> (d > 0)
  /\ (s # <<>> \/ l \in Critical \/ l = "flock") <=> (m = t)
  /\ m = t => d = IF l \in Critical THEN Len(s) + 1 ELSE Len(s)
  /\ m = NoOne \/ l = "flock" => d = 0
  /\ \A f \in File : c[f] = IF m = NoOne THEN 0 ELSE Cardinality(Frames(s, f))

(* Such a step keeps the bookkeeping. *)
LEMMA OwnerStep ==
  ASSUME TypeOK, LockInv, NEW t \in Thread,
         NEW p, NEW m, NEW d, NEW s, NEW l, NEW c, Accounts(t, p, m, d, s, l, c)
  PROVE  LockInv'
<1> p \in Process
  BY ConstantsAssumption DEF Accounts, Proc
<1> USE DEF Accounts
<1>1. /\ t # NoOne
      /\ \A u \in Thread : u # NoOne /\ Proc(u) \in Process /\ Proc(u)' = Proc(u)
      /\ Critical' = Critical
  BY ConstantsAssumption DEF Proc, Critical
<1>2. /\ mutex'[p] = m /\ \A r \in Process : r # p => mutex'[r] = mutex[r]
      /\ depth'[p] = d /\ \A r \in Process : r # p => depth'[r] = depth[r]
      /\ stack'[t] = s /\ \A u \in Thread : u # t => stack'[u] = stack[u]
      /\ pc'[t] = l /\ \A u \in Thread : u # t => pc'[u] = pc[u]
      /\ leased'[p] = c /\ \A r \in Process : r # p => leased'[r] = leased[r]
  BY DEF TypeOK
<1>3. /\ Holding(t)' <=> (s # <<>> \/ l \in Critical)
      /\ \A u \in Thread : u # t => (Holding(u)' <=> Holding(u))
  BY <1>1, <1>2 DEF Holding
<1>4. \A u \in Thread : u # t /\ Proc(u) = p => ~ Holding(u) /\ pc[u] # "flock"
  BY <1>1 DEF LockInv, LocksAccounted
<1>5. \A u \in Thread : (Holding(u)' \/ pc'[u] = "flock") <=> (mutex'[Proc(u)] = u)
  <2> TAKE u \in Thread
  <2>1. CASE u = t
    BY <2>1, <1>2, <1>3
  <2>2. CASE u # t /\ Proc(u) = p
    BY <2>2, <1>1, <1>2, <1>3, <1>4
  <2>3. CASE Proc(u) # p
    BY <2>3, <1>1, <1>2, <1>3 DEF LockInv, LocksAccounted
  <2> QED
    BY <2>1, <2>2, <2>3
<1>6. \A u \in Thread : Holding(u)' => flock' = Proc(u)
  <2> TAKE u \in Thread
  <2>1. CASE u = t
    <3>1. SUFFICES ASSUME s # <<>> \/ l \in Critical
                   PROVE  d > 0
      BY <2>1, <1>3
    <3>2. Len(s) \in Nat /\ (s # <<>> => Len(s) > 0)
      OBVIOUS
    <3> QED
      BY <3>1, <3>2
  <2>2. CASE u # t /\ Proc(u) = p
    BY <2>2, <1>3, <1>4
  <2>3. CASE Proc(u) # p
    BY <2>3, <1>1, <1>3 DEF LockInv, LocksAccounted
  <2> QED
    BY <2>1, <2>2, <2>3
<1>7. \A u \in Thread : mutex'[Proc(u)] = u =>
        depth'[Proc(u)] =
            IF pc'[u] \in Critical THEN Len(stack'[u]) + 1 ELSE Len(stack'[u])
  <2> TAKE u \in Thread
  <2>1. CASE u = t
    <3>1. Proc(u) = p /\ mutex'[p] = m /\ depth'[p] = d /\ stack'[u] = s /\ pc'[u] = l
      BY <2>1, <1>2
    <3> QED
      BY <3>1, <2>1, Zenon
  <2>2. CASE u # t /\ Proc(u) = p
    BY <2>2, <1>1, <1>2
  <2>3. CASE Proc(u) # p
    BY <2>3, <1>1, <1>2 DEF LockInv, LocksAccounted
  <2> QED
    BY <2>1, <2>2, <2>3
<1>8. \A r \in Process : (flock' = r) <=> (depth'[r] > 0)
  BY <1>2 DEF LockInv, LocksAccounted
<1>9. \A r \in Process : mutex'[r] = NoOne => depth'[r] = 0
  BY <1>1, <1>2 DEF LockInv, LocksAccounted
<1>12. \A r \in Process : mutex'[r] # NoOne => Proc(mutex'[r]) = r
  BY <1>1, <1>2 DEF LockInv, LocksAccounted
<1>13. \A u \in Thread : pc'[u] = "flock" => depth'[Proc(u)] = 0
  <2> TAKE u \in Thread
  <2>1. CASE u = t
    BY <2>1, <1>2
  <2>2. CASE u # t /\ Proc(u) = p
    BY <2>2, <1>2, <1>4
  <2>3. CASE Proc(u) # p
    BY <2>3, <1>1, <1>2 DEF LockInv, LocksAccounted
  <2> QED
    BY <2>1, <2>2, <2>3
<1>10. LocksAccounted'
  BY <1>1, <1>5, <1>6, <1>7, <1>8, <1>9, <1>12, <1>13 DEF LocksAccounted
<1>11. LeaseCounts'
  <2>1. ASSUME NEW r \in Process, NEW f \in File
        PROVE  leased'[r][f] = IF mutex'[r] = NoOne THEN 0
                               ELSE Cardinality(Frames(stack'[mutex'[r]], f))
    <3>1. CASE r = p
      BY <3>1, <1>1, <1>2
    <3>2. CASE r # p
      <4>1. mutex[r] # NoOne => mutex[r] \in Thread /\ mutex[r] # t
        BY <3>2 DEF LockInv, LocksAccounted, TypeOK
      <4> QED
        BY <3>2, <4>1, <1>2 DEF LockInv, LeaseCounts
    <3> QED
      BY <3>1, <3>2
  <2> QED
    BY <2>1 DEF LeaseCounts, Frames
<1> QED
  BY <1>10, <1>11 DEF LockInv

(* Each action that touches the locks, by OwnerStep. *)

(* Taking the mutex, and re-entering the locked region of a live lease. *)
LEMMA AcquireMutexLockInv ==
  ASSUME TypeOK, LockInv, NEW t \in Thread, AcquireMutex(t)
  PROVE  LockInv'
<1> DEFINE p == Proc(t)
           again == depth[p] # 0
           d == IF again THEN depth[p] + 1 ELSE 0
           l == IF again THEN "inspect" ELSE "flock"
<1>1. p \in Process /\ t # NoOne /\ stack[t] \in Seq(SUBSET File) /\ depth[p] \in Nat
  BY ConstantsAssumption DEF Proc, TypeOK
<1>2. /\ pc[t] = "mutex" /\ mutex[p] \in {NoOne, t}
      /\ mutex' = [mutex EXCEPT ![p] = t]
      /\ UNCHANGED <<flock, leased, stack>>
      /\ pc' = [pc EXCEPT ![t] = l]
      /\ depth' = [depth EXCEPT ![p] = d]
  BY <1>1 DEF AcquireMutex, Goto, TypeOK
<1>3. /\ pc[t] \notin Critical /\ "inspect" \in Critical /\ "flock" \notin Critical
  BY <1>2 DEF Critical
<1>4. ASSUME mutex[p] = t
      PROVE  stack[t] # <<>> /\ depth[p] = Len(stack[t])
  <2>1. Holding(t) \/ pc[t] = "flock"
    BY <1>4 DEF LockInv, LocksAccounted
  <2> QED
    BY <2>1, <1>2, <1>3, <1>4, Owner DEF Holding
<1>5. mutex[p] = NoOne => depth[p] = 0 /\ stack[t] = <<>>
  BY <1>1 DEF LockInv, LocksAccounted, Holding
<1>6. Len(stack[t]) \in Nat /\ (stack[t] = <<>> <=> Len(stack[t]) = 0)
  BY <1>1
<1>7. again <=> mutex[p] = t
  BY <1>1, <1>2, <1>4, <1>5, <1>6
<1>8. (flock = p) <=> (depth[p] > 0)
  BY <1>1 DEF LockInv, LocksAccounted
<1>9. \A f \in File : leased[p][f] = Cardinality(Frames(stack[t], f))
  BY <1>1, <1>2, <1>5, FramesEmpty DEF LockInv, LeaseCounts
<1>10. d \in Nat /\ (d > 0 <=> depth[p] > 0) /\ (l = "flock" => d = 0)
  BY <1>1
<1>11. d = IF l \in Critical THEN Len(stack[t]) + 1 ELSE Len(stack[t])
  BY <1>1, <1>2, <1>3, <1>4, <1>5, <1>6, <1>7
<1>12. stack' = [stack EXCEPT ![t] = stack[t]] /\ leased' = [leased EXCEPT ![p] = leased[p]]
  BY <1>1, <1>2 DEF TypeOK
<1>13. stack[t] # <<>> \/ l \in Critical \/ l = "flock"
  BY <1>3
<1>14. /\ \A r \in Process : r # p => ((flock' = r) <=> (flock = r))
       /\ (flock' = p) <=> (d > 0)
  BY <1>2, <1>8, <1>10
<1>15. Accounts(t, p, t, d, stack[t], l, leased[p])
  <2> HIDE DEF d, l, again
  <2> QED
    BY <1>1, <1>2, <1>9, <1>10, <1>11, <1>12, <1>13, <1>14 DEF Accounts
<1> QED
  BY <1>15, OwnerStep

(* The facts about the acting thread that every such proof starts from. *)
LEMMA Local ==
  ASSUME TypeOK, LockInv, NEW t \in Thread
  PROVE  /\ Proc(t) \in Process /\ t # NoOne
         /\ stack[t] \in Seq(SUBSET File) /\ depth[Proc(t)] \in Nat
         /\ Len(stack[t]) \in Nat /\ (stack[t] = <<>> <=> Len(stack[t]) = 0)
         /\ (Holding(t) \/ pc[t] = "flock") <=> mutex[Proc(t)] = t
         /\ (flock = Proc(t)) <=> (depth[Proc(t)] > 0)
         /\ stack = [stack EXCEPT ![t] = stack[t]]
         /\ leased = [leased EXCEPT ![Proc(t)] = leased[Proc(t)]]
<1>1. Proc(t) \in Process /\ t # NoOne
  BY ConstantsAssumption DEF Proc
<1> QED
  BY <1>1 DEF TypeOK, LockInv, LocksAccounted

(* Getting the file lock. *)
LEMMA AcquireFlockLockInv ==
  ASSUME TypeOK, LockInv, NEW t \in Thread, AcquireFlock(t)
  PROVE  LockInv'
<1> DEFINE p == Proc(t)
<1>1. /\ pc[t] = "flock" /\ flock = NoOne /\ flock' = p
      /\ depth' = [depth EXCEPT ![p] = @ + 1]
      /\ pc' = [pc EXCEPT ![t] = "inspect"]
      /\ UNCHANGED <<mutex, leased, stack>>
  BY DEF AcquireFlock, Goto
<1>2. pc[t] \notin Critical /\ "inspect" \in Critical
  BY <1>1 DEF Critical
<1>3. mutex[p] = t /\ mutex' = [mutex EXCEPT ![p] = t]
  BY <1>1, Local DEF TypeOK
<1>4. depth[p] = 0 /\ stack[t] = <<>>
  BY <1>1, <1>2, <1>3, Local, Owner DEF LockInv, LocksAccounted
<1>5. depth' = [depth EXCEPT ![p] = 1]
  BY <1>1, <1>4
<1>6. /\ \A r \in Process : r # p => ((flock' = r) <=> (flock = r))
      /\ (flock' = p) <=> (1 > 0)
  BY <1>1, ConstantsAssumption
<1>7. \A f \in File : leased[p][f] = IF t = NoOne THEN 0 ELSE Cardinality(Frames(stack[t], f))
  BY <1>3, Local, Owner
<1>8. 1 = IF "inspect" \in Critical THEN Len(stack[t]) + 1 ELSE Len(stack[t])
  BY <1>2, <1>4, Local
<1>9. Accounts(t, p, t, 1, stack[t], "inspect", leased[p])
  BY <1>1, <1>2, <1>3, <1>5, <1>6, <1>7, <1>8, Local DEF Accounts
<1> QED
  BY <1>9, OwnerStep

(* Giving up on the file lock lets go of the mutex. *)
LEMMA FlockTimeoutLockInv ==
  ASSUME TypeOK, LockInv, NEW t \in Thread, FlockTimeout(t)
  PROVE  LockInv'
<1> DEFINE p == Proc(t)
<1>1. /\ pc[t] = "flock"
      /\ mutex' = [mutex EXCEPT ![p] = NoOne]
      /\ pc' = [pc EXCEPT ![t] = "body"]
      /\ UNCHANGED <<depth, flock, leased, stack>>
  BY DEF FlockTimeout, EndCall, Goto
<1>2. pc[t] \notin Critical /\ "body" \notin Critical
  BY <1>1 DEF Critical
<1>3. mutex[p] = t
  BY <1>1, Local
<1>4. depth[p] = 0 /\ stack[t] = <<>>
  BY <1>1, <1>2, <1>3, Local, Owner DEF LockInv, LocksAccounted
<1>5. \A f \in File : leased[p][f] = 0
  BY <1>3, <1>4, Owner, FramesEmpty
<1>6. depth' = [depth EXCEPT ![p] = 0]
  BY <1>1, <1>4, Local DEF TypeOK
<1>7. Accounts(t, p, NoOne, 0, stack[t], "body", leased[p])
  BY <1>1, <1>2, <1>3, <1>4, <1>5, <1>6, Local DEF Accounts
<1> QED
  BY <1>7, OwnerStep

(* A failed call leaves one level: an enclosing lease keeps both locks, the *)
(* outermost level frees both.                                              *)
LEMMA RaiseLockInv ==
  ASSUME TypeOK, LockInv, NEW t \in Thread, pc[t] \in Critical, Raise(t)
  PROVE  LockInv'
<1> DEFINE p == Proc(t)
           last == depth[p] = 1
           m == IF last THEN NoOne ELSE t
<1>1. /\ depth' = [depth EXCEPT ![p] = @ - 1]
      /\ flock' = IF last THEN NoOne ELSE flock
      /\ mutex' = IF last THEN [mutex EXCEPT ![p] = NoOne] ELSE mutex
      /\ pc' = [pc EXCEPT ![t] = "body"]
      /\ UNCHANGED <<leased, stack>>
  BY DEF Raise, LeaveLock, EndCall, Goto
<1>2. "body" \notin Critical
  BY DEF Critical
<1>3. mutex[p] = t /\ flock = p /\ Holding(t)
  BY Local, Owner DEF Holding
<1>4. depth[p] = Len(stack[t]) + 1
  BY <1>3, Owner
<1>5. depth[p] - 1 \in Nat /\ (last <=> stack[t] = <<>>) /\ depth[p] - 1 = Len(stack[t])
  BY <1>4, Local
<1>6. \A f \in File : leased[p][f] = IF m = NoOne THEN 0 ELSE Cardinality(Frames(stack[t], f))
  <2>1. \A f \in File : leased[p][f] = Cardinality(Frames(stack[t], f))
    BY <1>3, Owner
  <2>2. last => \A f \in File : leased[p][f] = 0
    BY <2>1, <1>5, FramesEmpty
  <2> QED
    BY <2>1, <2>2, Local
<1>7. mutex' = [mutex EXCEPT ![p] = m]
  BY <1>1, <1>3 DEF TypeOK
<1>8. /\ \A r \in Process : r # p => ((flock' = r) <=> (flock = r))
      /\ (flock' = p) <=> (depth[p] - 1 > 0)
  BY <1>1, <1>3, <1>4, <1>5, Local, ConstantsAssumption
<1>9. m \in {NoOne, t} /\ (m = t <=> ~ last) /\ (m = NoOne <=> last)
  BY Local
<1>10. Accounts(t, p, m, depth[p] - 1, stack[t], "body", leased[p])
  <2> HIDE DEF m, last
  <2> QED
    BY <1>1, <1>2, <1>3, <1>5, <1>6, <1>7, <1>8, <1>9, Local DEF Accounts
<1> QED
  BY <1>10, OwnerStep

(* A granted lease keeps the level its call had entered and counts its files. *)
LEMMA GrantLockInv ==
  ASSUME TypeOK, LockInv, NEW t \in Thread, Grant(t)
  PROVE  LockInv'
<1> DEFINE p == Proc(t)
           s == Append(stack[t], req[t])
           c == [f \in File |-> leased[p][f] + (IF f \in req[t] THEN 1 ELSE 0)]
<1>1. /\ pc[t] = "fetch"
      /\ leased' = [leased EXCEPT ![p] = c]
      /\ stack' = [stack EXCEPT ![t] = s]
      /\ pc' = [pc EXCEPT ![t] = "body"]
      /\ UNCHANGED <<mutex, depth, flock>>
  BY Local DEF Grant, EndCall, Goto, TypeOK, locks
<1>2. pc[t] \in Critical /\ "body" \notin Critical
  BY <1>1 DEF Critical
<1>3. mutex[p] = t /\ flock = p /\ Holding(t)
  BY <1>2, Local, Owner DEF Holding
<1>4. depth[p] = Len(stack[t]) + 1
  BY <1>2, <1>3, Owner
<1>5. req[t] \in SUBSET File
  BY DEF TypeOK
<1>6. s \in Seq(SUBSET File) /\ Len(s) = depth[p] /\ s # <<>>
  BY <1>4, <1>5, Local, AppendProperties
<1>7. \A f \in File : c[f] = IF t = NoOne THEN 0 ELSE Cardinality(Frames(s, f))
  <2> TAKE f \in File
  <2>1. leased[p][f] = Cardinality(Frames(stack[t], f))
    BY <1>3, Owner
  <2>2. Cardinality(Frames(s, f)) =
          Cardinality(Frames(stack[t], f)) + (IF f \in req[t] THEN 1 ELSE 0)
    <3>1. ASSUME NEW z \in Seq(SUBSET File), NEW S \in SUBSET File
          PROVE  Cardinality(Frames(Append(z, S), f)) =
                    Cardinality(Frames(z, f)) + (IF f \in S THEN 1 ELSE 0)
      BY FramesPush
    <3> QED
      BY <3>1, <1>5, Local, Zenon
  <2> QED
    BY <2>1, <2>2, Local
<1>8. mutex' = [mutex EXCEPT ![p] = t] /\ depth' = [depth EXCEPT ![p] = depth[p]]
  BY <1>1, <1>3 DEF TypeOK
<1>9. Accounts(t, p, t, depth[p], s, "body", c)
  <2> HIDE DEF s, c
  <2> QED
    BY <1>1, <1>2, <1>3, <1>6, <1>7, <1>8, Local DEF Accounts
<1> QED
  BY <1>9, OwnerStep

(* The end of a lease leaves one level and uncounts its files. *)
LEMMA EndLeaseLockInv ==
  ASSUME TypeOK, LockInv, NEW t \in Thread, EndLease(t)
  PROVE  LockInv'
<1> DEFINE p == Proc(t)
           n == Len(stack[t])
           s == SubSeq(stack[t], 1, n - 1)
           c == [f \in File |-> leased[p][f] - (IF f \in stack[t][n] THEN 1 ELSE 0)]
           last == depth[p] = 1
           m == IF last THEN NoOne ELSE t
<1>1. /\ pc[t] = "body" /\ stack[t] # <<>>
      /\ leased' = [leased EXCEPT ![p] = c]
      /\ stack' = [stack EXCEPT ![t] = s]
      /\ depth' = [depth EXCEPT ![p] = @ - 1]
      /\ flock' = IF last THEN NoOne ELSE flock
      /\ mutex' = IF last THEN [mutex EXCEPT ![p] = NoOne] ELSE mutex
      /\ pc' = pc
  BY Local DEF EndLease, LeaveLock, call, TypeOK
<1>2. pc[t] \notin Critical /\ pc' = [pc EXCEPT ![t] = "body"]
  BY <1>1 DEF Critical, TypeOK
<1>3. mutex[p] = t /\ flock = p /\ Holding(t)
  BY <1>1, Local, Owner DEF Holding
<1>4. depth[p] = n /\ n \in Nat /\ n > 0
  BY <1>1, <1>2, <1>3, Owner, Local
<1>5. s \in Seq(SUBSET File) /\ Len(s) = n - 1
  <2>1. 1 \in 1..(n + 1) /\ n - 1 \in (1 - 1)..n
    BY <1>4
  <2>2. /\ s \in Seq(SUBSET File)
        /\ Len(s) = IF 1 <= n - 1 THEN (n - 1) - 1 + 1 ELSE 0
    BY <2>1, Local, SubSeqProperties
  <2> HIDE DEF s, n
  <2> QED
    BY <2>2, <1>4
<1>6. (s = <<>> <=> last) /\ depth[p] - 1 \in Nat
  <2> HIDE DEF s, n
  <2> QED
    BY <1>4, <1>5
<1>7. \A f \in File : c[f] = Cardinality(Frames(s, f))
  <2> TAKE f \in File
  <2>1. leased[p][f] = Cardinality(Frames(stack[t], f))
    BY <1>3, Owner
  <2>2. Cardinality(Frames(s, f)) =
          Cardinality(Frames(stack[t], f)) - (IF f \in stack[t][n] THEN 1 ELSE 0)
    BY <1>1, Local, FramesPop
  <2> HIDE DEF s, n
  <2> QED
    BY <2>1, <2>2
<1>8. \A f \in File : c[f] = IF m = NoOne THEN 0 ELSE Cardinality(Frames(s, f))
  <2>1. last => \A f \in File : c[f] = 0
    <3> HIDE DEF s, c
    <3> QED
      BY <1>6, <1>7, FramesEmpty
  <2> HIDE DEF s, c
  <2> QED
    BY <1>7, <2>1, Local
<1>9. mutex' = [mutex EXCEPT ![p] = m]
  BY <1>1, <1>3 DEF TypeOK
<1>10. /\ \A r \in Process : r # p => ((flock' = r) <=> (flock = r))
       /\ (flock' = p) <=> (depth[p] - 1 > 0)
  <2> HIDE DEF s, n, c, m
  <2> QED
    BY <1>1, <1>3, <1>4, <1>6, Local, ConstantsAssumption
<1>11. m \in {NoOne, t} /\ (m = t <=> ~ last) /\ (m = NoOne <=> last)
  BY Local
<1>12. depth' = [depth EXCEPT ![p] = depth[p] - 1] /\ (last => depth[p] - 1 = 0)
  BY <1>1
<1>13. Accounts(t, p, m, depth[p] - 1, s, "body", c)
  <2> HIDE DEF m, last, s, c, n
  <2> QED
    BY <1>1, <1>2, <1>3, <1>4, <1>5, <1>6, <1>8, <1>9, <1>10, <1>11, <1>12, Local DEF Accounts
<1> QED
  BY <1>13, OwnerStep

(* A crash resets one process and leaves the others as they were. *)
LEMMA CrashLockInv ==
  ASSUME TypeOK, LockInv, NEW p \in Process, NEW r \in Release, Crash(p, r)
  PROVE  LockInv'
<1>1. /\ \A u \in Thread : u # NoOne /\ Proc(u) \in Process /\ Proc(u)' = Proc(u)
      /\ p # NoOne /\ Critical' = Critical /\ "body" \notin Critical
  BY ConstantsAssumption DEF Proc, Critical
<1>2. /\ mutex'[p] = NoOne /\ \A o \in Process : o # p => mutex'[o] = mutex[o]
      /\ depth'[p] = 0 /\ \A o \in Process : o # p => depth'[o] = depth[o]
      /\ leased'[p] = [f \in File |-> 0] /\ \A o \in Process : o # p => leased'[o] = leased[o]
      /\ flock' # p /\ \A o \in Process : o # p => ((flock' = o) <=> (flock = o))
  BY <1>1, ConstantsAssumption DEF Crash, TypeOK
<1>3. \A u \in Thread :
        /\ Proc(u) = p => stack'[u] = <<>> /\ pc'[u] = "body"
        /\ Proc(u) # p => stack'[u] = stack[u] /\ pc'[u] = pc[u]
  BY DEF Crash
<1>4. \A u \in Thread :
        /\ Proc(u) = p => ~ Holding(u)' /\ pc'[u] # "flock"
        /\ Proc(u) # p => (Holding(u)' <=> Holding(u))
  BY <1>1, <1>3 DEF Holding
<1>5. \A u \in Thread : Holding(u)' => flock' = Proc(u)
  <2> TAKE u \in Thread
  <2>1. CASE Proc(u) = p
    BY <2>1, <1>4
  <2>2. CASE Proc(u) # p
    BY <2>2, <1>1, <1>2, <1>4 DEF LockInv, LocksAccounted
  <2> QED
    BY <2>1, <2>2
<1>6. \A u \in Thread : (Holding(u)' \/ pc'[u] = "flock") <=> mutex'[Proc(u)] = u
  <2> TAKE u \in Thread
  <2>1. CASE Proc(u) = p
    BY <2>1, <1>1, <1>2, <1>4
  <2>2. CASE Proc(u) # p
    <3>1. (Holding(u) \/ pc[u] = "flock") <=> mutex[Proc(u)] = u
      BY DEF LockInv, LocksAccounted
    <3> QED
      BY <2>2, <3>1, <1>1, <1>2, <1>3, <1>4
  <2> QED
    BY <2>1, <2>2
<1>7. \A u \in Thread : mutex'[Proc(u)] = u =>
        depth'[Proc(u)] = IF pc'[u] \in Critical THEN Len(stack'[u]) + 1 ELSE Len(stack'[u])
  <2> TAKE u \in Thread
  <2>1. CASE Proc(u) = p
    BY <2>1, <1>1, <1>2
  <2>2. CASE Proc(u) # p
    BY <2>2, <1>1, <1>2, <1>3 DEF LockInv, LocksAccounted
  <2> QED
    BY <2>1, <2>2
<1>8. /\ \A o \in Process : (flock' = o) <=> (depth'[o] > 0)
      /\ \A o \in Process : mutex'[o] = NoOne => depth'[o] = 0
      /\ \A o \in Process : mutex'[o] # NoOne => Proc(mutex'[o]) = o
  BY <1>2 DEF LockInv, LocksAccounted
<1>9. \A u \in Thread : pc'[u] = "flock" => depth'[Proc(u)] = 0
  BY <1>1, <1>2, <1>3 DEF LockInv, LocksAccounted
<1>10. LocksAccounted'
  BY <1>1, <1>5, <1>6, <1>7, <1>8, <1>9 DEF LocksAccounted
<1>11. ASSUME NEW o \in Process, NEW f \in File
       PROVE  leased'[o][f] = IF mutex'[o] = NoOne THEN 0
                              ELSE Cardinality(Frames(stack'[mutex'[o]], f))
  <2>1. CASE o = p
    BY <2>1, <1>2
  <2>2. CASE o # p
    <3>1. mutex[o] # NoOne => mutex[o] \in Thread /\ Proc(mutex[o]) = o
      BY DEF LockInv, LocksAccounted, TypeOK
    <3>2. mutex[o] # NoOne => stack'[mutex[o]] = stack[mutex[o]]
      BY <2>2, <3>1, <1>3
    <3> QED
      BY <2>2, <3>2, <1>2 DEF LockInv, LeaseCounts
  <2> QED
    BY <2>1, <2>2
<1>12. LeaseCounts'
  BY <1>11 DEF LeaseCounts, Frames
<1> QED
  BY <1>10, <1>12 DEF LockInv

(* The actions that leave locks, counters and stacks alone. *)
LEMMA QuietActions ==
  ASSUME TypeOK, LockInv, NEW t \in Thread,
         \/ \E S \in SUBSET File : Request(t, S)
         \/ MutexTimeout(t) \/ Inspect(t)
         \/ \E f \in File : VerifyIntact(t, f) \/ VerifyMissing(t, f) \/ StartPart(t, f)
         \/ AllVerified(t) \/ ReserveFits(t) \/ EvictOldest(t)
         \/ \E good \in BOOLEAN : ReceiveChunk(t, good)
         \/ Publish(t)
  PROVE  LockInv'
<1>1. /\ \A u \in Thread \ {t} : pc'[u] = pc[u]
      /\ (pc'[t] \in Critical) <=> (pc[t] \in Critical)
      /\ pc'[t] # "flock" /\ pc[t] # "flock"
  <2> USE DEF TypeOK, Goto, Critical
  <2>1. CASE \E S \in SUBSET File : Request(t, S)
    BY <2>1 DEF Request
  <2>2. CASE MutexTimeout(t)
    BY <2>2 DEF MutexTimeout, EndCall
  <2>3. CASE Inspect(t)
    BY <2>3 DEF Inspect
  <2>4. CASE AllVerified(t)
    BY <2>4 DEF AllVerified
  <2>5. CASE ReserveFits(t)
    BY <2>5 DEF ReserveFits
  <2>6. CASE \E f \in File : StartPart(t, f)
    BY <2>6 DEF StartPart
  <2>7. CASE Publish(t)
    BY <2>7 DEF Publish
  <2>8. CASE \E f \in File : VerifyIntact(t, f) \/ VerifyMissing(t, f)
    BY <2>8 DEF VerifyIntact, VerifyMissing
  <2>9. CASE EvictOldest(t)
    BY <2>9 DEF EvictOldest
  <2>10. CASE \E good \in BOOLEAN : ReceiveChunk(t, good)
    BY <2>10 DEF ReceiveChunk
  <2> QED
    BY <2>1, <2>2, <2>3, <2>4, <2>5, <2>6, <2>7, <2>8, <2>9, <2>10
<1>2. UNCHANGED <<mutex, depth, flock, leased, stack>>
  BY DEF Request, MutexTimeout, Inspect, VerifyIntact, VerifyMissing, StartPart, AllVerified,
         ReserveFits, EvictOldest, ReceiveChunk, Publish, locks
<1>3. \A u \in Thread : /\ (pc'[u] \in Critical) <=> (pc[u] \in Critical)
                        /\ (pc'[u] = "flock") <=> (pc[u] = "flock")
  BY <1>1
<1> QED
  BY <1>2, <1>3, QuietStep

(* The bookkeeping is inductive. *)
LEMMA NextLockInv ==
  ASSUME TypeOK, LockInv, [Next]_vars
  PROVE  LockInv'
<1>1. ASSUME NEW t \in Thread, NEW S \in SUBSET File, Request(t, S)
      PROVE  LockInv'
  BY <1>1, QuietActions
<1>2. ASSUME NEW t \in Thread, EndLease(t)
      PROVE  LockInv'
  BY <1>2, EndLeaseLockInv
<1>3. ASSUME NEW t \in Thread, Step(t)
      PROVE  LockInv'
  <2>1. CASE AcquireMutex(t)
    BY <2>1, AcquireMutexLockInv
  <2>2. CASE AcquireFlock(t)
    BY <2>2, AcquireFlockLockInv
  <2>3. CASE FlockTimeout(t)
    BY <2>3, FlockTimeoutLockInv
  <2>4. CASE InspectFails(t) \/ (\E f \in File : VerifyLost(t, f))
             \/ ReserveFails(t) \/ MaterializeFails(t)
    <3>1. pc[t] \in Critical /\ Raise(t)
      BY <2>4 DEF InspectFails, VerifyLost, ReserveFails, MaterializeFails, Critical
    <3> QED
      BY <3>1, RaiseLockInv
  <2>5. CASE Grant(t)
    BY <2>5, GrantLockInv
  <2>6. CASE \/ MutexTimeout(t) \/ Inspect(t)
             \/ \E f \in File : VerifyIntact(t, f) \/ VerifyMissing(t, f) \/ StartPart(t, f)
             \/ AllVerified(t) \/ ReserveFits(t) \/ EvictOldest(t)
             \/ \E good \in BOOLEAN : ReceiveChunk(t, good)
             \/ Publish(t)
    BY <2>6, QuietActions
  <2> QED
    BY <1>3, <2>1, <2>2, <2>3, <2>4, <2>5, <2>6 DEF Step
<1>4. ASSUME NEW p \in Process, NEW r \in Release, Crash(p, r)
      PROVE  LockInv'
  BY <1>4, CrashLockInv
<1>5. ASSUME NEW f \in File, Damage(f)
      PROVE  LockInv'
  <2>1. UNCHANGED <<mutex, depth, flock, leased, stack, pc>>
    BY <1>5 DEF Damage, locks
  <2> QED
    BY <2>1, QuietStep
<1>6. ASSUME UNCHANGED vars
      PROVE  LockInv'
  <2>1. UNCHANGED <<mutex, depth, flock, leased, stack, pc>>
    BY <1>6 DEF vars, locks
  <2> QED
    BY <2>1, QuietStep
<1> QED
  BY <1>1, <1>2, <1>3, <1>4, <1>5, <1>6 DEF Next

-----------------------------------------------------------------------------
(* Types.  Two counters are decremented; the bookkeeping says they count. *)

(* The initial state is well typed. *)
LEMMA InitTypeOK == Init => TypeOK
BY ConstantsAssumption DEF Init, TypeOK, DiskState, Place

(* Leaving a lock level, of a thread that is inside, keeps the lock types. *)
LEMMA LeaveLockType ==
  ASSUME TypeOK, LockInv, NEW t \in Thread, Holding(t), LeaveLock(Proc(t))
  PROVE  /\ mutex' \in [Process -> Thread \cup {NoOne}]
         /\ depth' \in [Process -> Nat]
         /\ flock' \in Process \cup {NoOne}
<1>1. depth[Proc(t)] \in Nat /\ depth[Proc(t)] > 0
  BY Local, Owner
<1>2. mutex' \in [Process -> Thread \cup {NoOne}] /\ flock' \in Process \cup {NoOne}
  BY DEF LeaveLock, TypeOK
<1>3. depth' \in [Process -> Nat]
  <2> DEFINE d == depth[Proc(t)] - 1
  <2>1. d \in Nat
    BY <1>1
  <2>2. depth' = [depth EXCEPT ![Proc(t)] = d] /\ depth \in [Process -> Nat]
    BY DEF LeaveLock, TypeOK
  <2> HIDE DEF d
  <2> QED
    BY <2>1, <2>2
<1> QED
  BY <1>2, <1>3

(* So does a failed call as a whole. *)
LEMMA RaiseType ==
  ASSUME TypeOK, LockInv, NEW t \in Thread, pc[t] \in Critical, Raise(t), UNCHANGED files
  PROVE  TypeOK'
<1>1. Holding(t)
  BY DEF Holding
<1>2. /\ mutex' \in [Process -> Thread \cup {NoOne}]
      /\ depth' \in [Process -> Nat]
      /\ flock' \in Process \cup {NoOne}
  BY <1>1, LeaveLockType DEF Raise
<1> QED
  BY <1>2 DEF Raise, EndCall, Goto, TypeOK, Place, files, bounds

(* Uncounting the innermost frame leaves a natural number. *)
LEMMA EndLeaseType ==
  ASSUME TypeOK, LockInv, NEW t \in Thread, EndLease(t)
  PROVE  TypeOK'
<1> DEFINE p == Proc(t)
           n == Len(stack[t])
<1>1. Holding(t) /\ stack[t] # <<>>
  BY DEF EndLease, Holding
<1>2. /\ mutex' \in [Process -> Thread \cup {NoOne}]
      /\ depth' \in [Process -> Nat]
      /\ flock' \in Process \cup {NoOne}
  BY <1>1, LeaveLockType DEF EndLease
<1>3. n \in Nat /\ n > 0
  BY <1>1, Local
<1>4. ASSUME NEW f \in File, f \in stack[t][n]
      PROVE  leased[p][f] > 0
  <2>1. leased[p][f] = Cardinality(Frames(stack[t], f))
    BY <1>1, Local, Owner
  <2>2. n \in Frames(stack[t], f)
    BY <1>3, <1>4 DEF Frames
  <2>3. IsFiniteSet(Frames(stack[t], f)) /\ Cardinality(Frames(stack[t], f)) \in Nat
    BY Local, FramesFinite
  <2> QED
    BY <2>1, <2>2, <2>3, FS_EmptySet
<1>5. [f \in File |-> leased[p][f] - (IF f \in stack[t][n] THEN 1 ELSE 0)] \in [File -> Nat]
  BY <1>4, Local DEF TypeOK
<1>6. leased' \in [Process -> [File -> Nat]]
  BY <1>5 DEF EndLease, TypeOK
<1>7. SubSeq(stack[t], 1, n - 1) \in Seq(SUBSET File)
  <2>1. 1 \in 1..(n + 1) /\ n - 1 \in (1 - 1)..n
    BY <1>3
  <2> QED
    BY <2>1, Local, SubSeqProperties
<1>8. stack' \in [Thread -> Seq(SUBSET File)]
  BY <1>7 DEF EndLease, TypeOK
<1> QED
  BY <1>2, <1>6, <1>8 DEF EndLease, TypeOK, files, call, bounds

(* Removing a file from the disk keeps the file types. *)
LEMMA DropType ==
  ASSUME TypeOK, NEW f \in File, Drop(f)
  PROVE  /\ disk' \in [File -> DiskState]
         /\ older' \subseteq File \X File
         /\ unknown' \in [files : Nat, bytes : Nat]
BY DEF Drop, TypeOK, DiskState

(* The steps of a call that neither fail nor grant. *)
LEMMA StepType ==
  ASSUME TypeOK, LockInv, NEW t \in Thread, Step(t)
  PROVE  TypeOK'
<1> Proc(t) \in Process
  BY Local
<1>1. CASE AcquireMutex(t)
  <2>1. depth' \in [Process -> Nat]
    <3> DEFINE d == depth[Proc(t)] + 1
    <3>1. d \in Nat
      BY Local
    <3>2. depth' = depth \/ depth' = [depth EXCEPT ![Proc(t)] = d]
      BY <1>1 DEF AcquireMutex
    <3> HIDE DEF d
    <3> QED
      BY <3>1, <3>2 DEF TypeOK
  <2>2. pc' \in [Thread -> Place]
    <3>1. Goto(t, "flock") \/ Goto(t, "inspect")
      BY <1>1 DEF AcquireMutex
    <3>2. pc \in [Thread -> Place]
      BY DEF TypeOK
    <3> QED
      BY <3>1, <3>2 DEF Goto, Place
  <2> QED
    BY <1>1, <2>1, <2>2 DEF AcquireMutex, TypeOK, files, call, bounds
<1>2. CASE MutexTimeout(t) \/ FlockTimeout(t)
  BY <1>2 DEF MutexTimeout, FlockTimeout, EndCall, Goto, TypeOK, Place, files, locks, bounds
<1>3. CASE AcquireFlock(t)
  BY <1>3 DEF AcquireFlock, Goto, TypeOK, Place, files, call, bounds
<1>4. CASE InspectFails(t) \/ (\E f \in File : VerifyLost(t, f))
           \/ ReserveFails(t) \/ MaterializeFails(t)
  <2>1. pc[t] \in Critical /\ Raise(t) /\ UNCHANGED files
    BY <1>4 DEF InspectFails, VerifyLost, ReserveFails, MaterializeFails, Critical
  <2> QED
    BY <2>1, RaiseType
<1>5. CASE Inspect(t) \/ AllVerified(t) \/ ReserveFits(t)
  BY <1>5 DEF Inspect, AllVerified, ReserveFits, Goto, TypeOK, Place, files, locks, call, bounds
<1>6. ASSUME NEW f \in File, VerifyIntact(t, f)
      PROVE  TypeOK'
  BY <1>6 DEF VerifyIntact, TypeOK, files, locks, bounds
<1>7. ASSUME NEW f \in File, VerifyMissing(t, f)
      PROVE  TypeOK'
  <2>1. /\ disk' \in [File -> DiskState]
        /\ older' \subseteq File \X File
        /\ unknown' \in [files : Nat, bytes : Nat]
    BY <1>7, DropType DEF VerifyMissing, TypeOK, files
  <2> QED
    BY <1>7, <2>1 DEF VerifyMissing, TypeOK, locks, bounds
<1>8. CASE EvictOldest(t)
  <2>1. PICK f \in File : Drop(f)
    BY <1>8, ConstantsAssumption DEF EvictOldest, Evictable, Indexed, TypeOK
  <2> QED
    BY <1>8, <2>1, DropType DEF EvictOldest, TypeOK, locks, call, bounds
<1>9. ASSUME NEW f \in File, StartPart(t, f)
      PROVE  TypeOK'
  <2>1. {[by |-> t, file |-> f, bytes |-> 0, good |-> TRUE]} \in
            SUBSET [by : Thread, file : File, bytes : Nat, good : BOOLEAN]
    OBVIOUS
  <2>2. part' \in [Thread -> SUBSET [by : Thread, file : File, bytes : Nat, good : BOOLEAN]]
    BY <1>9, <2>1 DEF StartPart, TypeOK
  <2> QED
    BY <1>9, <2>2 DEF StartPart, Goto, TypeOK, Place, files, locks, bounds
<1>10. ASSUME NEW good \in BOOLEAN, ReceiveChunk(t, good)
       PROVE  TypeOK'
  <2>1. PICK w \in part[t] :
            part' = [part EXCEPT ![t] = {[w EXCEPT !.bytes = @ + 1, !.good = @ /\ good]}]
    BY <1>10 DEF ReceiveChunk
  <2>2. w \in [by : Thread, file : File, bytes : Nat, good : BOOLEAN]
    BY DEF TypeOK
  <2>3. [w EXCEPT !.bytes = @ + 1, !.good = @ /\ good] \in
            [by : Thread, file : File, bytes : Nat, good : BOOLEAN]
    <3> DEFINE e == w.bytes + 1
               g == w.good /\ good
    <3>1. e \in Nat
      BY <2>2
    <3>2. g \in BOOLEAN
      BY <1>10
    <3>3. [w EXCEPT !.bytes = e, !.good = g] \in
            [by : Thread, file : File, bytes : Nat, good : BOOLEAN]
      <4> HIDE DEF e, g
      <4> QED
        BY <2>2, <3>1, <3>2
    <3> QED
      BY <3>3
  <2>4. part' \in [Thread -> SUBSET [by : Thread, file : File, bytes : Nat, good : BOOLEAN]]
    BY <2>1, <2>3 DEF TypeOK
  <2> QED
    BY <1>10, <2>4 DEF ReceiveChunk, TypeOK, files, locks, bounds
<1>11. CASE Publish(t)
  <2>1. PICK w \in part[t] :
          /\ disk' = [disk EXCEPT ![w.file] = IF w.good THEN "intact" ELSE "damaged"]
          /\ older' = {pair \in older : w.file \notin {pair[1], pair[2]}}
                        \cup (Present \ {w.file}) \X {w.file}
          /\ missing' = [missing EXCEPT ![t] = @ \ {w.file}]
    BY <1>11 DEF Publish
  <2>2. w.file \in File
    BY DEF TypeOK
  <2>3. disk' \in [File -> DiskState]
    BY <2>1 DEF TypeOK, DiskState
  <2>4. older' \subseteq File \X File
    BY <2>1, <2>2 DEF TypeOK, Present
  <2>5. missing' \in [Thread -> SUBSET File]
    BY <2>1 DEF TypeOK
  <2> QED
    BY <1>11, <2>3, <2>4, <2>5 DEF Publish, Goto, TypeOK, Place, locks, bounds
<1>12. CASE Grant(t)
  <2>1. leased' \in [Process -> [File -> Nat]]
    <3>1. [f \in File |-> leased[Proc(t)][f] + (IF f \in req[t] THEN 1 ELSE 0)] \in [File -> Nat]
      BY DEF TypeOK
    <3> QED
      BY <1>12, <3>1 DEF Grant, TypeOK
  <2>2. stack' \in [Thread -> Seq(SUBSET File)]
    <3>1. Append(stack[t], req[t]) \in Seq(SUBSET File)
      BY Local, AppendProperties DEF TypeOK
    <3> QED
      BY <1>12, <3>1 DEF Grant, TypeOK
  <2> QED
    BY <1>12, <2>1, <2>2 DEF Grant, EndCall, Goto, TypeOK, Place, files, locks, bounds
<1> QED
  BY <1>1, <1>2, <1>3, <1>4, <1>5, <1>6, <1>7, <1>8, <1>9, <1>10, <1>11, <1>12 DEF Step

(* A crash resets one process to values of the right types. *)
LEMMA CrashType ==
  ASSUME TypeOK, NEW p \in Process, NEW r \in Release, Crash(p, r)
  PROVE  TypeOK'
<1>1. unknown' \in [files : Nat, bytes : Nat]
  <2>1. CASE UNCHANGED unknown
    BY <2>1 DEF TypeOK
  <2>2. CASE \E t \in Thread : \E w \in part[t] :
                unknown' = [files |-> unknown.files + 1, bytes |-> unknown.bytes + w.bytes]
    <3>1. PICK t \in Thread : \E w \in part[t] :
                unknown' = [files |-> unknown.files + 1, bytes |-> unknown.bytes + w.bytes]
      BY <2>2
    <3>4. PICK w \in part[t] :
                unknown' = [files |-> unknown.files + 1, bytes |-> unknown.bytes + w.bytes]
      BY <3>1
    <3>2. w.bytes \in Nat /\ unknown.files \in Nat /\ unknown.bytes \in Nat
      BY DEF TypeOK
    <3> QED
      BY <3>4, <3>2
  <2> QED
    BY <2>1, <2>2 DEF Crash
<1>2. leased' \in [Process -> [File -> Nat]]
  BY DEF Crash, TypeOK
<1>3. stack' \in [Thread -> Seq(SUBSET File)] /\ pc' \in [Thread -> Place]
  BY DEF Crash, TypeOK, Place
<1>4. /\ req' \in [Thread -> SUBSET File]
      /\ todo' \in [Thread -> SUBSET File]
      /\ missing' \in [Thread -> SUBSET File]
  BY DEF Crash, TypeOK
<1>5. part' \in [Thread -> SUBSET [by : Thread, file : File, bytes : Nat, good : BOOLEAN]]
  BY DEF Crash, TypeOK
<1>6. /\ mutex' \in [Process -> Thread \cup {NoOne}]
      /\ depth' \in [Process -> Nat]
      /\ flock' \in Process \cup {NoOne}
      /\ release' \in [Process -> Release]
      /\ crashes' \in Nat
  BY DEF Crash, TypeOK
<1> QED
  BY <1>1, <1>2, <1>3, <1>4, <1>5, <1>6 DEF Crash, TypeOK

(* Every step keeps the types, given the bookkeeping. *)
LEMMA NextType ==
  ASSUME TypeOK, LockInv, [Next]_vars
  PROVE  TypeOK'
<1>1. ASSUME NEW t \in Thread, NEW S \in SUBSET File, Request(t, S)
      PROVE  TypeOK'
  BY <1>1 DEF Request, Goto, TypeOK, Place, files, locks, bounds
<1>2. ASSUME NEW f \in File, Damage(f)
      PROVE  TypeOK'
  BY <1>2 DEF Damage, TypeOK, DiskState, locks, call
<1>3. CASE UNCHANGED vars
  BY <1>3 DEF vars, TypeOK, files, locks, call, bounds
<1> QED
  BY <1>1, <1>2, <1>3, StepType, EndLeaseType, CrashType DEF Next

-----------------------------------------------------------------------------
(* No two threads are inside: a consequence of the bookkeeping alone. *)

(* A thread inside owns its process's mutex and the file lock. *)
LEMMA LockInvExcludes == TypeOK /\ LockInv => MutualExclusion
<1> SUFFICES ASSUME TypeOK, LockInv, NEW t \in Thread, NEW u \in Thread,
                    Holding(t), Holding(u)
             PROVE  t = u
  BY DEF MutualExclusion
<1>1. mutex[Proc(t)] = t
  BY Local
<1> QED
  BY <1>1, Owner

(* The types hold in every reachable state (TypeOK of the run). *)
THEOREM TypeCorrect == Spec => []TypeOK
<1>1. Init => TypeOK /\ LockInv
  BY InitTypeOK, InitLockInv
<1>2. TypeOK /\ LockInv /\ [Next]_vars => (TypeOK /\ LockInv)'
  BY NextType, NextLockInv
<1> QED
  BY <1>1, <1>2, PTL DEF Spec

(* Whatever path a call takes, granted, refused, timed out or cut off by a  *)
(* crash, the mutexes, the file lock and the depths account for the leases. *)
THEOREM LocksAlwaysAccounted == Spec => [](LocksAccounted /\ LeaseCounts)
<1>1. Init => TypeOK /\ LockInv
  BY InitTypeOK, InitLockInv
<1>2. TypeOK /\ LockInv /\ [Next]_vars => (TypeOK /\ LockInv)'
  BY NextType, NextLockInv
<1>3. LockInv => LocksAccounted /\ LeaseCounts
  BY DEF LockInv
<1> QED
  BY <1>1, <1>2, <1>3, PTL DEF Spec

(* No two threads, of one process or of two, are ever inside the cache.     *)
THEOREM NeverTwoInside == Spec => []MutualExclusion
<1>1. Init => TypeOK /\ LockInv
  BY InitTypeOK, InitLockInv
<1>2. TypeOK /\ LockInv /\ [Next]_vars => (TypeOK /\ LockInv)'
  BY NextType, NextLockInv
<1>3. TypeOK /\ LockInv => MutualExclusion
  BY LockInvExcludes
<1> QED
  BY <1>1, <1>2, <1>3, PTL DEF Spec

-----------------------------------------------------------------------------
(* Leased files stay.  The only steps that remove a file are taken by the   *)
(* thread inside, on a file whose counter is zero; that counter counts the  *)
(* frames of the only non-empty stack there is.                             *)

FileInv == RequestKept /\ LeasedPresent

(* A file whose counter is zero is in no live lease. *)
LEMMA UncountedUnleased ==
  ASSUME TypeOK, LockInv, NEW t \in Thread, Holding(t), NEW f \in File,
         leased[Proc(t)][f] = 0
  PROVE  \A u \in Thread : \A i \in 1..Len(stack[u]) : f \notin stack[u][i]
<1>1. /\ mutex[Proc(t)] = t
      /\ \A u \in Thread : u # t => stack[u] = <<>>
      /\ Cardinality(Frames(stack[t], f)) = 0
  BY Local, Owner
<1>2. Frames(stack[t], f) = {}
  BY <1>1, Local, FramesFinite, FS_EmptySet
<1>3. \A i \in 1..Len(stack[t]) : f \notin stack[t][i]
  BY <1>2 DEF Frames
<1>4. \A u \in Thread : u # t => 1..Len(stack[u]) = {}
  BY <1>1
<1> QED
  BY <1>3, <1>4

(* If every stack keeps only frames it had and no leased file is removed,   *)
(* leased files stay present.                                               *)
LEMMA LeasedStay ==
  ASSUME LeasedPresent,
         \A u \in Thread : \A i \in 1..Len(stack'[u]) :
            i \in 1..Len(stack[u]) /\ stack'[u][i] = stack[u][i],
         \A f \in File : disk'[f] = "absent" /\ disk[f] # "absent" =>
            \A u \in Thread : \A i \in 1..Len(stack[u]) : f \notin stack[u][i],
         TypeOK
  PROVE  LeasedPresent'
<1> SUFFICES ASSUME NEW u \in Thread, NEW i \in 1..Len(stack'[u]), NEW f \in stack'[u][i]
             PROVE  disk'[f] # "absent"
  BY DEF LeasedPresent
<1>1. i \in 1..Len(stack[u]) /\ f \in stack[u][i]
  OBVIOUS
<1>2. f \in File
  BY <1>1 DEF TypeOK
<1> QED
  BY <1>1, <1>2 DEF LeasedPresent

Inside == {"verify", "reserve", "fetch", "write"}

Kept(t) ==
  /\ pc[t] \in Inside =>
       \A f \in req[t] \ (todo[t] \cup missing[t]) : disk[f] # "absent"
  /\ pc[t] \in {"reserve", "fetch", "write"} => todo[t] = {}

(* A step of thread t that removes a file only from inside keeps what the   *)
(* other calls have verified: when t is inside there is no other such call. *)
LEMMA KeptStep ==
  ASSUME TypeOK, LockInv, RequestKept, NEW t \in Thread,
         \A u \in Thread : u # t => /\ pc'[u] = pc[u] /\ req'[u] = req[u]
                                   /\ todo'[u] = todo[u] /\ missing'[u] = missing[u],
         Holding(t) \/ \A f \in File : disk[f] # "absent" => disk'[f] # "absent",
         Kept(t)'
  PROVE  RequestKept'
<1>1. \A u \in Thread : Kept(u)
  BY DEF RequestKept, Kept, Inside
<1>2. ASSUME NEW u \in Thread, u # t
      PROVE  Kept(u)'
  <2>1. /\ pc'[u] = pc[u] /\ req'[u] = req[u] /\ todo'[u] = todo[u]
        /\ missing'[u] = missing[u] /\ req[u] \in SUBSET File
    BY <1>2 DEF TypeOK
  <2>2. CASE Holding(t)
    <3>1. ~ Holding(u)
      BY <2>2, <1>2, Local, Owner
    <3>2. pc[u] \notin Inside
      BY <3>1 DEF Holding, Critical, Inside
    <3> QED
      BY <2>1, <3>2 DEF Kept, Inside
  <2>3. CASE \A f \in File : disk[f] # "absent" => disk'[f] # "absent"
    BY <2>1, <2>3, <1>1 DEF Kept, Inside
  <2> QED
    BY <2>2, <2>3
<1>3. \A u \in Thread : Kept(u)'
  BY <1>2
<1> QED
  BY <1>3 DEF RequestKept, Kept, Inside

(* What a step of thread t must show to keep FileInv: files go only while t *)
(* is inside and only if unleased, stacks only shrink.                      *)
Harmless(t) ==
  /\ \A u \in Thread : u # t => /\ pc'[u] = pc[u] /\ req'[u] = req[u]
                               /\ todo'[u] = todo[u] /\ missing'[u] = missing[u]
  /\ \A u \in Thread : \A i \in 1..Len(stack'[u]) :
            i \in 1..Len(stack[u]) /\ stack'[u][i] = stack[u][i]
  /\ \A f \in File : disk[f] # "absent" /\ disk'[f] = "absent" =>
            Holding(t) /\ leased[Proc(t)][f] = 0
  /\ Kept(t)'

(* Such a step keeps the file invariant. *)
LEMMA HarmlessStep ==
  ASSUME TypeOK, LockInv, FileInv, NEW t \in Thread, Harmless(t)
  PROVE  FileInv'
<1>1. Holding(t) \/ \A f \in File : disk[f] # "absent" => disk'[f] # "absent"
  BY DEF Harmless
<1>2. RequestKept'
  BY <1>1, KeptStep DEF Harmless, FileInv
<1>3. \A f \in File : disk'[f] = "absent" /\ disk[f] # "absent" =>
            \A u \in Thread : \A i \in 1..Len(stack[u]) : f \notin stack[u][i]
  BY UncountedUnleased DEF Harmless
<1>4. LeasedPresent'
  BY <1>3, LeasedStay DEF Harmless, FileInv
<1> QED
  BY <1>2, <1>4 DEF FileInv

(* Steps of a call that touch no file and no stack. *)
LEMMA QuietHarmless ==
  ASSUME TypeOK, LockInv, FileInv, NEW t \in Thread,
         \/ \E S \in SUBSET File : Request(t, S)
         \/ AcquireMutex(t) \/ MutexTimeout(t) \/ AcquireFlock(t) \/ FlockTimeout(t)
         \/ Inspect(t) \/ (\E f \in File : VerifyIntact(t, f))
         \/ AllVerified(t) \/ ReserveFits(t) \/ (\E f \in File : StartPart(t, f))
         \/ \E good \in BOOLEAN : ReceiveChunk(t, good)
         \/ Raise(t) /\ UNCHANGED files
  PROVE  Harmless(t)
<1>1. UNCHANGED <<disk, stack>>
  BY DEF Request, AcquireMutex, MutexTimeout, AcquireFlock, FlockTimeout, Inspect, VerifyIntact,
         AllVerified, ReserveFits, StartPart, ReceiveChunk, Raise, files
<1>2. \A u \in Thread : u # t => /\ pc'[u] = pc[u] /\ req'[u] = req[u]
                                 /\ todo'[u] = todo[u] /\ missing'[u] = missing[u]
  BY DEF Request, AcquireMutex, MutexTimeout, AcquireFlock, FlockTimeout, Inspect, VerifyIntact,
         AllVerified, ReserveFits, StartPart, ReceiveChunk, Raise, EndCall, Goto, TypeOK, call
<1>3. Kept(t)
  BY DEF FileInv, RequestKept, Kept, Inside
<1>4. Kept(t)'
  <2>1. CASE \/ \E S \in SUBSET File : Request(t, S)
             \/ AcquireMutex(t) \/ MutexTimeout(t) \/ AcquireFlock(t) \/ FlockTimeout(t)
             \/ Raise(t) /\ UNCHANGED files
    <3>1. pc'[t] \notin Inside
      BY <2>1 DEF Request, AcquireMutex, MutexTimeout, AcquireFlock, FlockTimeout, Raise,
                  EndCall, Goto, TypeOK, Inside
    <3> QED
      BY <3>1 DEF Kept, Inside
  <2>2. CASE Inspect(t)
    BY <2>2 DEF Inspect, Goto, Kept, Inside, TypeOK, files
  <2>3. ASSUME NEW f \in File, VerifyIntact(t, f)
        PROVE  Kept(t)'
    BY <2>3, <1>3 DEF VerifyIntact, Kept, Inside, TypeOK, files
  <2>4. CASE AllVerified(t) \/ ReserveFits(t) \/ (\E f \in File : StartPart(t, f))
    BY <2>4, <1>3 DEF AllVerified, ReserveFits, StartPart, Goto, Kept, Inside, TypeOK, files, call
  <2>5. CASE \E good \in BOOLEAN : ReceiveChunk(t, good)
    BY <2>5, <1>3 DEF ReceiveChunk, Kept, Inside, TypeOK, files
  <2> QED
    BY <2>1, <2>2, <2>3, <2>4, <2>5
<1> QED
  BY <1>1, <1>2, <1>4 DEF Harmless

(* A step of a call that removes one file: it is neither leased nor kept.   *)
LEMMA RemovalHarmless ==
  ASSUME TypeOK, LockInv, FileInv, NEW t \in Thread,
         (\E f \in File : VerifyMissing(t, f)) \/ EvictOldest(t)
  PROVE  Harmless(t)
<1>1. UNCHANGED <<stack, pc>> /\ Holding(t)
  BY DEF VerifyMissing, EvictOldest, Holding, Critical
<1>2. Kept(t)
  BY DEF FileInv, RequestKept, Kept, Inside
<1>3. ASSUME NEW f \in File, VerifyMissing(t, f)
      PROVE  Harmless(t)
  <2>1. /\ leased[Proc(t)][f] = 0
        /\ \A g \in File : g # f => disk'[g] = disk[g]
        /\ req' = req
        /\ todo' = [todo EXCEPT ![t] = @ \ {f}]
        /\ missing' = [missing EXCEPT ![t] = @ \cup {f}]
    BY <1>3 DEF VerifyMissing, Drop, TypeOK, files
  <2>2. Kept(t)'
    <3>1. pc[t] = "verify"
      BY <1>3 DEF VerifyMissing
    <3>2. todo'[t] = todo[t] \ {f} /\ missing'[t] = missing[t] \cup {f}
      BY <2>1 DEF TypeOK
    <3>3. \A g \in req[t] \ (todo'[t] \cup missing'[t]) :
            g \in File /\ g # f /\ g \in req[t] \ (todo[t] \cup missing[t])
      BY <3>2 DEF TypeOK
    <3> QED
      BY <1>1, <1>2, <2>1, <3>1, <3>3 DEF Kept, Inside
  <2> QED
    BY <1>1, <2>1, <2>2 DEF Harmless, TypeOK
<1>4. CASE EvictOldest(t)
  <2>1. PICK f \in Evictable(t) : Drop(f)
    BY <1>4 DEF EvictOldest
  <2>2. /\ leased[Proc(t)][f] = 0 /\ f \notin req[t]
        /\ \A g \in File : g # f => disk'[g] = disk[g]
        /\ UNCHANGED <<req, todo, missing>>
    BY <1>4, <2>1 DEF EvictOldest, Evictable, Drop, TypeOK, call
  <2>3. Kept(t)'
    BY <1>1, <1>2, <2>2 DEF Kept, Inside, TypeOK
  <2> QED
    BY <1>1, <2>2, <2>3 DEF Harmless
<1> QED
  BY <1>3, <1>4

(* Publishing a download adds a file of the request. *)
LEMMA PublishHarmless ==
  ASSUME TypeOK, LockInv, FileInv, NEW t \in Thread, Publish(t)
  PROVE  Harmless(t)
<1>1. PICK w \in part[t] :
          /\ disk' = [disk EXCEPT ![w.file] = IF w.good THEN "intact" ELSE "damaged"]
          /\ missing' = [missing EXCEPT ![t] = @ \ {w.file}]
  BY DEF Publish
<1>2. /\ \A f \in File : f # w.file => disk'[f] = disk[f]
      /\ w.file \in File /\ disk'[w.file] # "absent"
      /\ missing'[t] = missing[t] \ {w.file}
  BY <1>1 DEF TypeOK
<1>3. /\ pc[t] = "write" /\ pc' = [pc EXCEPT ![t] = "fetch"]
      /\ UNCHANGED <<stack, req, todo>>
  BY DEF Publish, Goto
<1>4. Kept(t)
  BY DEF FileInv, RequestKept, Kept, Inside
<1>5. Kept(t)'
  <2>1. \A f \in req[t] \ (todo[t] \cup missing'[t]) : disk'[f] # "absent"
    BY <1>2, <1>3, <1>4 DEF Kept, Inside, TypeOK
  <2> QED
    BY <1>3, <1>4, <2>1 DEF Kept, Inside, TypeOK
<1> QED
  BY <1>1, <1>2, <1>3, <1>5 DEF Harmless, TypeOK

(* Ending a lease only shortens a stack. *)
LEMMA EndLeaseHarmless ==
  ASSUME TypeOK, LockInv, FileInv, NEW t \in Thread, EndLease(t)
  PROVE  Harmless(t)
<1> DEFINE n == Len(stack[t])
           r == SubSeq(stack[t], 1, n - 1)
<1>1. /\ stack' = [stack EXCEPT ![t] = r] /\ stack[t] # <<>> /\ pc[t] = "body"
      /\ UNCHANGED <<disk, pc, req, todo, missing>>
  BY DEF EndLease, files, call
<1>2. n \in Nat /\ n > 0 /\ stack[t] \in Seq(SUBSET File)
  BY <1>1, Local
<1>3. \A i \in 1..Len(r) : i \in 1..n /\ r[i] = stack[t][i]
  <2>1. 1 \in 1..(n + 1) /\ n - 1 \in (1 - 1)..n
    BY <1>2
  <2>2. /\ Len(r) = IF 1 <= n - 1 THEN (n - 1) - 1 + 1 ELSE 0
        /\ \A i \in 1..((n - 1) - 1 + 1) : r[i] = stack[t][1 + i - 1]
    BY <1>2, <2>1, SubSeqProperties
  <2> HIDE DEF r, n
  <2>3. ASSUME NEW i \in 1..Len(r)
        PROVE  i \in 1..n /\ r[i] = stack[t][i]
    <3>1. i \in 1..((n - 1) - 1 + 1) /\ 1 + i - 1 = i /\ i \in 1..n
      BY <1>2, <2>2
    <3> QED
      BY <2>2, <3>1
  <2> QED
    BY <2>3
<1> HIDE DEF r
<1>4. stack'[t] = r /\ \A u \in Thread : u # t => stack'[u] = stack[u]
  BY <1>1 DEF TypeOK
<1>5. \A u \in Thread : \A i \in 1..Len(stack'[u]) :
            i \in 1..Len(stack[u]) /\ stack'[u][i] = stack[u][i]
  BY <1>3, <1>4
<1>6. Kept(t)'
  BY <1>1 DEF Kept, Inside
<1> QED
  BY <1>1, <1>5, <1>6 DEF Harmless

(* A granted lease holds only files that are present. *)
LEMMA GrantFiles ==
  ASSUME TypeOK, LockInv, FileInv, NEW t \in Thread, Grant(t)
  PROVE  FileInv'
<1> DEFINE s == stack[t]
           n == Len(s)
<1>1. /\ pc[t] = "fetch" /\ missing[t] = {} /\ disk' = disk
      /\ stack' = [stack EXCEPT ![t] = Append(s, req[t])]
      /\ pc' = [pc EXCEPT ![t] = "body"]
      /\ \A u \in Thread : u # t => /\ pc'[u] = pc[u] /\ req'[u] = req[u]
                                   /\ todo'[u] = todo[u] /\ missing'[u] = missing[u]
  BY DEF Grant, EndCall, Goto, files, TypeOK
<1>2. \A f \in req[t] : disk[f] # "absent"
  BY <1>1 DEF FileInv, RequestKept
<1>3. /\ Len(Append(s, req[t])) = n + 1
      /\ \A i \in 1..n : Append(s, req[t])[i] = s[i]
      /\ Append(s, req[t])[n + 1] = req[t]
      /\ n \in Nat
  BY Local, AppendProperties DEF TypeOK
<1>4. ASSUME NEW i \in 1..(n + 1), NEW f \in Append(s, req[t])[i]
      PROVE  disk[f] # "absent"
  <2>1. CASE i = n + 1
    BY <2>1, <1>2, <1>3, <1>4
  <2>2. CASE i \in 1..n
    BY <2>2, <1>3, <1>4 DEF FileInv, LeasedPresent
  <2> QED
    BY <2>1, <2>2, <1>3
<1>5. /\ stack'[t] = Append(s, req[t])
      /\ \A u \in Thread : u # t => stack'[u] = stack[u]
  BY <1>1 DEF TypeOK
<1>6. LeasedPresent'
  <2> SUFFICES ASSUME NEW u \in Thread, NEW i \in 1..Len(stack'[u]), NEW f \in stack'[u][i]
               PROVE  disk[f] # "absent"
    BY <1>1 DEF LeasedPresent
  <2>1. CASE u = t
    BY <2>1, <1>3, <1>4, <1>5
  <2>2. CASE u # t
    BY <2>2, <1>5 DEF FileInv, LeasedPresent
  <2> QED
    BY <2>1, <2>2
<1>7. Kept(t)'
  BY <1>1 DEF Kept, Inside, TypeOK
<1>8. RequestKept'
  BY <1>1, <1>7, KeptStep DEF FileInv
<1> QED
  BY <1>6, <1>8 DEF FileInv

(* A crash touches no target and forgets the process's leases. *)
LEMMA CrashFiles ==
  ASSUME TypeOK, FileInv, NEW p \in Process, NEW r \in Release, Crash(p, r)
  PROVE  FileInv'
<1>1. disk' = disk
  BY DEF Crash
<1>2. \A u \in Thread :
        \/ stack'[u] = <<>> /\ pc'[u] = "body"
        \/ /\ stack'[u] = stack[u] /\ pc'[u] = pc[u] /\ req'[u] = req[u]
           /\ todo'[u] = todo[u] /\ missing'[u] = missing[u]
  BY DEF Crash
<1>3. LeasedPresent'
  BY <1>1, <1>2 DEF FileInv, LeasedPresent
<1>4. RequestKept'
  BY <1>1, <1>2 DEF FileInv, RequestKept
<1> QED
  BY <1>3, <1>4 DEF FileInv

(* The file invariant is inductive. *)
LEMMA NextFileInv ==
  ASSUME TypeOK, LockInv, FileInv, [Next]_vars
  PROVE  FileInv'
<1>1. ASSUME NEW t \in Thread,
             (\E S \in SUBSET File : Request(t, S)) \/ Step(t) \/ EndLease(t)
      PROVE  FileInv'
  <2>1. CASE Grant(t)
    BY <2>1, GrantFiles
  <2>2. CASE InspectFails(t) \/ (\E f \in File : VerifyLost(t, f))
             \/ ReserveFails(t) \/ MaterializeFails(t)
    <3>1. Raise(t) /\ UNCHANGED files
      BY <2>2 DEF InspectFails, VerifyLost, ReserveFails, MaterializeFails
    <3> QED
      BY <3>1, QuietHarmless, HarmlessStep
  <2>3. CASE (\E f \in File : VerifyMissing(t, f)) \/ EvictOldest(t)
    BY <2>3, RemovalHarmless, HarmlessStep
  <2>4. CASE Publish(t)
    BY <2>4, PublishHarmless, HarmlessStep
  <2>5. CASE EndLease(t)
    BY <2>5, EndLeaseHarmless, HarmlessStep
  <2>6. CASE \/ \E S \in SUBSET File : Request(t, S)
             \/ AcquireMutex(t) \/ MutexTimeout(t) \/ AcquireFlock(t) \/ FlockTimeout(t)
             \/ Inspect(t) \/ (\E f \in File : VerifyIntact(t, f))
             \/ AllVerified(t) \/ ReserveFits(t) \/ (\E f \in File : StartPart(t, f))
             \/ \E good \in BOOLEAN : ReceiveChunk(t, good)
    BY <2>6, QuietHarmless, HarmlessStep
  <2> QED
    BY <1>1, <2>1, <2>2, <2>3, <2>4, <2>5, <2>6 DEF Step
<1>2. ASSUME NEW p \in Process, NEW r \in Release, Crash(p, r)
      PROVE  FileInv'
  BY <1>2, CrashFiles
<1>3. ASSUME NEW f \in File, Damage(f)
      PROVE  FileInv'
  <2>1. /\ UNCHANGED <<stack, pc, req, todo, missing>>
        /\ \A g : disk[g] # "absent" => disk'[g] # "absent"
    BY <1>3 DEF Damage, call, TypeOK
  <2> QED
    BY <2>1 DEF FileInv, RequestKept, LeasedPresent
<1>4. ASSUME UNCHANGED vars
      PROVE  FileInv'
  BY <1>4 DEF vars, files, call, FileInv, RequestKept, LeasedPresent
<1> QED
  BY <1>1, <1>2, <1>3, <1>4 DEF Next

(* A leased file stays in place for as long as any reader has it, whatever  *)
(* the other threads, processes and releases do and whoever crashes; and a  *)
(* call never evicts what it has itself verified or downloaded.             *)
THEOREM LeasedFilesStay == Spec => [](LeasedPresent /\ RequestKept)
<1>1. Init => TypeOK /\ LockInv /\ FileInv
  <2>1. Init => FileInv
    BY DEF Init, FileInv, RequestKept, LeasedPresent
  <2> QED
    BY <2>1, InitTypeOK, InitLockInv
<1>2. TypeOK /\ LockInv /\ FileInv /\ [Next]_vars => (TypeOK /\ LockInv /\ FileInv)'
  BY NextType, NextLockInv, NextFileInv
<1>3. FileInv => LeasedPresent /\ RequestKept
  BY DEF FileInv
<1> QED
  BY <1>1, <1>2, <1>3, PTL DEF Spec

-----------------------------------------------------------------------------
(* Induction over the subsets of a finite set, stated of a set of them: the *)
(* subsets outside it would have a smallest, and that one is inside.        *)
LEMMA SubsetInduction ==
  ASSUME NEW S, IsFiniteSet(S), NEW T, T \subseteq SUBSET S,
         \A s \in SUBSET S : (\A u \in SUBSET s : u # s => u \in T) => s \in T
  PROVE  T = SUBSET S
<1> DEFINE B == (SUBSET S) \ T
           R == StrictSubsetOrdering(S)
           D == FiniteSubsetsOf(S)
<1>1. IsWellFoundedOn(R, D)
  BY FS_StrictSubsetOrderingWellFounded
<1>2. B \subseteq D
  BY FS_Subset DEF FiniteSubsetsOf
<1>3. \A s, u \in SUBSET S : <<u, s>> \in R <=> u \subseteq s /\ u # s
  BY DEF StrictSubsetOrdering
<1>4. B \subseteq SUBSET S
  OBVIOUS
<1> HIDE DEF R, D
<1> SUFFICES ASSUME B # {} PROVE FALSE
  OBVIOUS
<1>5. PICK x \in B : \A y \in B : ~ (<<y, x>> \in R)
  <2> HIDE DEF B
  <2>1. B \subseteq D /\ B # {} /\ IsWellFoundedOn(R, D)
    BY <1>1, <1>2
  <2> QED
    BY <2>1, WFMin
<1>6. \A u \in SUBSET x : u # x => u \in T
  <2> SUFFICES ASSUME NEW u \in SUBSET x, u # x, u \notin T PROVE FALSE
    OBVIOUS
  <2>1. x \in SUBSET S /\ u \in SUBSET S
    BY <1>4, <1>5
  <2>2. u \in B
    BY <2>1
  <2>3. <<u, x>> \in R
    <3> HIDE DEF B
    <3> QED
      BY <1>3, <2>1
  <2> QED
    BY <2>2, <2>3, <1>5
<1> QED
  BY <1>5, <1>6

-----------------------------------------------------------------------------
(* Sums.  MapThenSumSet chooses a recursive function; by induction there is *)
(* one, whichever element it takes first the sum is the same, and so any    *)
(* element may be taken out of it.                                          *)
Sum(g, S) == MapThenSumSet(LAMBDA x : g[x], S)
First(s) == CHOOSE x \in s : TRUE
IsSum(it, g, S) == it = [s \in SUBSET S |-> IF s = {} THEN 0 ELSE g[First(s)] + it[s \ {First(s)}]]

(* Some element of a set is its first. *)
LEMMA FirstIn == ASSUME NEW s, s # {} PROVE First(s) \in s
BY DEF First

(* The operator of the library is that function at the whole set. *)
LEMMA SumDef ==
  ASSUME NEW g, NEW S
  PROVE Sum(g,S) = (CHOOSE it : IsSum(it, g, S))[S]
BY DEF Sum, IsSum, MapThenSumSet, MapThenFoldSet, First

(* The equation of a sum has one solution. *)
LEMMA SumUnique ==
  ASSUME NEW g, NEW S, IsFiniteSet(S), NEW a, NEW b, IsSum(a, g, S), IsSum(b, g, S)
  PROVE  a = b
<1> DEFINE T == {s \in SUBSET S : a[s] = b[s]}
<1>1. /\ a = [s \in SUBSET S |-> a[s]] /\ b = [s \in SUBSET S |-> b[s]]
      /\ a[{}] = 0 /\ b[{}] = 0
      /\ \A s \in SUBSET S : s # {} =>
         a[s] = g[First(s)] + a[s \ {First(s)}] /\ b[s] = g[First(s)] + b[s \ {First(s)}]
  BY DEF IsSum
<1>2. ASSUME NEW s \in SUBSET S, \A u \in SUBSET s : u # s => u \in T
      PROVE  s \in T
  <2>1. CASE s = {}
    BY <2>1, <1>1
  <2>2. CASE s # {}
    <3>1. s \ {First(s)} \in SUBSET s /\ s \ {First(s)} # s
      BY <2>2, FirstIn
    <3>2. a[s \ {First(s)}] = b[s \ {First(s)}]
      BY <3>1, <1>2
    <3> QED
      BY <1>1, <2>2, <3>2
  <2> QED
    BY <2>1, <2>2
<1>3. T = SUBSET S
  <2>1. T \subseteq SUBSET S
    OBVIOUS
  <2> HIDE DEF T
  <2> QED
    BY <1>2, <2>1, SubsetInduction
<1> QED
  BY <1>1, <1>3

Recurs(g, s) == /\ s = {} => Sum(g, s) = 0
                /\ s # {} => Sum(g, s) = g[First(s)] + Sum(g, s \ {First(s)})

(* It has a solution: the sums of the smaller sets make up the next one. *)
LEMMA SumRecursive ==
  ASSUME NEW g, NEW S, IsFiniteSet(S)
  PROVE  Recurs(g, S)
<1> DEFINE T == {s \in SUBSET S : Recurs(g, s)}
<1>2. ASSUME NEW s \in SUBSET S, \A u \in SUBSET s : u # s => u \in T
      PROVE  s \in T
  <2> DEFINE h == [u \in SUBSET s |-> IF u = {} THEN 0 ELSE g[First(u)] + Sum(g, u \ {First(u)})]
             it == CHOOSE it : IsSum(it, g, s)
  <2>1. \A u \in SUBSET s : u # s => h[u] = Sum(g, u)
    BY <1>2 DEF Recurs
  <2>2. \A u \in SUBSET s : u # {} => u \ {First(u)} \in SUBSET s /\ u \ {First(u)} # s
    BY FirstIn
  <2>3. IsSum(h, g, s)
    <3>1. \A u \in SUBSET s : h[u] = IF u = {} THEN 0 ELSE g[First(u)] + h[u \ {First(u)}]
      BY <2>1, <2>2
    <3>2. h = [u \in SUBSET s |-> h[u]]
      OBVIOUS
    <3> HIDE DEF h
    <3> QED
      BY <3>1, <3>2 DEF IsSum
  <2> HIDE DEF h
  <2>4. IsSum(it, g, s)
    BY <2>3
  <2>5. it = h
    <3>1. IsFiniteSet(s)
      BY FS_Subset
    <3> HIDE DEF it
    <3> QED
      BY <2>3, <2>4, <3>1, SumUnique
  <2>6. Sum(g, s) = h[s]
    BY SumDef, <2>5
  <2>7. Recurs(g, s)
    BY <2>6 DEF h, Recurs
  <2> QED
    BY <2>7
<1>3. T = SUBSET S
  <2>1. T \subseteq SUBSET S
    OBVIOUS
  <2> HIDE DEF T
  <2> QED
    BY <1>2, <2>1, SubsetInduction
<1> QED
  BY <1>3

(* Natural numbers have a natural sum. *)
LEMMA SumNat ==
  ASSUME NEW D, NEW g \in [D -> Nat], NEW S \in SUBSET D, IsFiniteSet(S)
  PROVE  Sum(g, S) \in Nat
<1> DEFINE T == {s \in SUBSET S : Sum(g, s) \in Nat}
<1>2. ASSUME NEW s \in SUBSET S, \A u \in SUBSET s : u # s => u \in T
      PROVE  s \in T
  <2>1. Recurs(g, s)
    BY SumRecursive, FS_Subset
  <2>2. CASE s = {}
    BY <2>1, <2>2 DEF Recurs
  <2>3. CASE s # {}
    <3>1. s \ {First(s)} \in SUBSET s /\ s \ {First(s)} # s /\ First(s) \in D
      BY <2>3, FirstIn
    <3>2. Sum(g, s \ {First(s)}) \in Nat
      BY <3>1, <1>2
    <3>3. g[First(s)] \in Nat
      BY <3>1
    <3> QED
      BY <2>1, <2>3, <3>2, <3>3 DEF Recurs
  <2> QED
    BY <2>2, <2>3
<1>3. T = SUBSET S
  <2>1. T \subseteq SUBSET S
    OBVIOUS
  <2> HIDE DEF T
  <2> QED
    BY <1>2, <2>1, SubsetInduction
<1> QED
  BY <1>3

(* Any element can be taken out of a sum. *)
LEMMA SumRemove ==
  ASSUME NEW D, NEW g \in [D -> Nat], NEW S \in SUBSET D, IsFiniteSet(S), NEW c \in S
  PROVE  Sum(g, S) = g[c] + Sum(g, S \ {c})
<1> DEFINE T == {s \in SUBSET S : \A x \in s : Sum(g, s) = g[x] + Sum(g, s \ {x})}
<1>2. ASSUME NEW s \in SUBSET S, \A u \in SUBSET s : u # s => u \in T
      PROVE  s \in T
  <2> SUFFICES ASSUME NEW x \in s PROVE Sum(g, s) = g[x] + Sum(g, s \ {x})
    OBVIOUS
  <2> DEFINE y == First(s)
  <2>1. y \in s /\ Sum(g, s) = g[y] + Sum(g, s \ {y})
    BY SumRecursive, FS_Subset, FirstIn DEF Recurs
  <2> HIDE DEF y
  <2>2. CASE x = y
    BY <2>1, <2>2
  <2>3. CASE x # y
    <3>1. s \ {y} \in T /\ x \in s \ {y} /\ s \ {x} \in T /\ y \in s \ {x}
      BY <1>2, <2>1, <2>3
    <3>2. Sum(g, s \ {y}) = g[x] + Sum(g, (s \ {y}) \ {x})
      BY <3>1
    <3>3. Sum(g, s \ {x}) = g[y] + Sum(g, (s \ {x}) \ {y})
      BY <3>1
    <3>4. (s \ {y}) \ {x} = (s \ {x}) \ {y}
      OBVIOUS
    <3>5. g[x] \in Nat /\ g[y] \in Nat /\ Sum(g, (s \ {x}) \ {y}) \in Nat
      <4>1. (s \ {x}) \ {y} \in SUBSET D /\ IsFiniteSet((s \ {x}) \ {y})
        BY FS_Subset
      <4> QED
        BY <2>1, <4>1, SumNat
    <3> QED
      BY <2>1, <3>2, <3>3, <3>4, <3>5
  <2> QED
    BY <2>2, <2>3
<1>3. T = SUBSET S
  <2>1. T \subseteq SUBSET S
    OBVIOUS
  <2> HIDE DEF T
  <2> QED
    BY <1>2, <2>1, SubsetInduction
<1> QED
  BY <1>3
-----------------------------------------------------------------------------
(* Downloads.  What a call misses is absent and nobody leases it, from when *)
(* it was verified; from _reserve on there is room for all of it.           *)

Room(t) ==
  /\ SizeOf(Present) + SizeOf(missing[t]) + unknown.bytes <= MaxBytes
  /\ Cardinality(Present) + Cardinality(missing[t]) + unknown.files <= MaxFiles

Downloading(t) ==
  /\ missing[t] # {} => pc[t] \in Inside
  /\ \A f \in missing[t] : leased[Proc(t)][f] = 0 /\ disk[f] = "absent"
  /\ part[t] # {} => pc[t] = "write"
  /\ pc[t] = "write" => \E w \in part[t] :
        part[t] = {w} /\ w.file \in missing[t] /\ w.bytes <= Size[w.file]
  /\ pc[t] \in {"fetch", "write"} => Room(t)

DownloadInv == \A t \in Thread : Downloading(t)

(* Sets of files have a size and a number, and losing a file takes its own off. *)
LEMMA SizeFacts ==
  ASSUME NEW S \in SUBSET File
  PROVE  /\ IsFiniteSet(S) /\ Cardinality(S) \in Nat /\ SizeOf(S) \in Nat
         /\ S = {} => SizeOf(S) = 0 /\ Cardinality(S) = 0
         /\ \A c \in S : /\ SizeOf(S) = Size[c] + SizeOf(S \ {c})
                         /\ Cardinality(S) = 1 + Cardinality(S \ {c})
<1>1. IsFiniteSet(S) /\ Cardinality(S) \in Nat
  BY ConstantsAssumption, FS_Subset, FS_CardinalityType
<1>2. Size \in [File -> Nat]
  BY ConstantsAssumption
<1>3. \A s : SizeOf(s) = Sum(Size, s)
  BY DEF SizeOf, Sum
<1>4. SizeOf(S) \in Nat
  BY <1>1, <1>2, <1>3, SumNat
<1>5. S = {} => SizeOf(S) = 0 /\ Cardinality(S) = 0
  BY <1>1, <1>3, SumRecursive, FS_EmptySet DEF Recurs
<1>6. \A c \in S : SizeOf(S) = Size[c] + SizeOf(S \ {c})
  BY <1>1, <1>2, <1>3, SumRemove
<1>7. \A c \in S : Cardinality(S) = 1 + Cardinality(S \ {c})
  BY <1>1, FS_RemoveElement, FS_CardinalityType, FS_Subset
<1> QED
  BY <1>1, <1>4, <1>5, <1>6, <1>7

ByteSum(P) == MapThenSumSet(LAMBDA w : w.bytes, P)
IsByteSum(it, P) ==
  it = [s \in SUBSET P |-> IF s = {} THEN 0 ELSE First(s).bytes + it[s \ {First(s)}]]

(* The bytes of no .part and of one. *)
LEMMA ByteSumSmall ==
  ASSUME NEW P, P = {} \/ \E w : P = {w} /\ w.bytes \in Nat
  PROVE  /\ P = {} => ByteSum(P) = 0
         /\ \A w : P = {w} => ByteSum(P) = w.bytes
<1> DEFINE it == CHOOSE f : IsByteSum(f, P)
           h == [s \in SUBSET P |-> IF s = {} THEN 0 ELSE First(s).bytes]
<1>1. ByteSum(P) = it[P]
  BY DEF ByteSum, IsByteSum, MapThenSumSet, MapThenFoldSet, First
<1>2. \A s \in SUBSET P : s # {} => s = P /\ P = {First(s)} /\ s \ {First(s)} = {}
  BY FirstIn
<1>3. \A s \in SUBSET P : s # {} => First(s).bytes \in Nat
  BY <1>2
<1>4. \A s \in SUBSET P : h[s] = IF s = {} THEN 0 ELSE First(s).bytes + h[s \ {First(s)}]
  BY <1>2, <1>3
<1>5. IsByteSum(h, P)
  <2>1. h = [s \in SUBSET P |-> h[s]]
    OBVIOUS
  <2> HIDE DEF h
  <2> QED
    BY <1>4, <2>1 DEF IsByteSum
<1>6. IsByteSum(it, P)
  BY <1>5
<1> HIDE DEF it
<1>7. it[{}] = 0 /\ (P # {} => it[P] = First(P).bytes + it[P \ {First(P)}])
  BY <1>6 DEF IsByteSum
<1>8. CASE P = {}
  BY <1>1, <1>7, <1>8
<1>9. CASE P # {}
  <2>1. P = {First(P)} /\ P \ {First(P)} = {} /\ First(P).bytes \in Nat
    BY <1>2, <1>3, <1>9
  <2>2. it[P] = First(P).bytes + 0
    BY <1>7, <1>9, <2>1
  <2>3. it[P] = First(P).bytes
    BY <2>1, <2>2
  <2>4. \A w : P = {w} => w = First(P)
    BY <2>1
  <2> QED
    BY <1>1, <1>9, <2>3, <2>4
<1> QED
  BY <1>8, <1>9

(* In particular of one unfinished download.                                *)
LEMMA OnePart ==
  ASSUME NEW w, w.bytes \in Nat
  PROVE  ByteSum({w}) = w.bytes /\ Cardinality({w}) = 1
<1>1. \E x : {w} = {x} /\ x.bytes \in Nat
  OBVIOUS
<1>2. ByteSum({w}) = w.bytes
  <2> DEFINE P == {w}
  <2>1. \E x : P = {x} /\ x.bytes \in Nat
    BY <1>1
  <2>2. P = {w}
    OBVIOUS
  <2> HIDE DEF P
  <2>3. ByteSum(P) = w.bytes
    BY <2>1, <2>2, ByteSumSmall
  <2> QED
    BY <2>2, <2>3
<1> QED
  BY <1>2, FS_Singleton

(* Only the thread inside has a .part, or misses anything. *)
LEMMA PartsAre ==
  ASSUME TypeOK, LockInv, DownloadInv
  PROVE  /\ \A t \in Thread : Holding(t) => Parts = part[t]
         /\ (\A t \in Thread : ~ Holding(t)) => Parts = {}
         /\ \A t \in Thread : ~ Holding(t) => part[t] = {} /\ missing[t] = {}
<1>1. \A t \in Thread : ~ Holding(t) => part[t] = {} /\ missing[t] = {}
  BY DEF DownloadInv, Downloading, Holding, Critical, Inside
<1>2. ASSUME NEW t \in Thread, Holding(t)
      PROVE  Parts = part[t]
  <2>1. \A u \in Thread : u # t => part[u] = {}
    BY <1>1, <1>2, Local, Owner
  <2> QED
    BY <2>1 DEF Parts
<1>3. (\A t \in Thread : ~ Holding(t)) => Parts = {}
  BY <1>1 DEF Parts
<1> QED
  BY <1>1, <1>2, <1>3

(* So there is at most one .part, and its bytes are all there are of them. *)
LEMMA PartsFacts ==
  ASSUME TypeOK, LockInv, DownloadInv
  PROVE  /\ Parts = {} \/ \E t \in Thread : \E w \in part[t] :
                Parts = {w} /\ part[t] = {w} /\ pc[t] = "write"
         /\ Parts = {} => Cardinality(Parts) = 0 /\ PartBytes = 0
         /\ \A w : Parts = {w} => Cardinality(Parts) = 1 /\ PartBytes = w.bytes /\ w.bytes \in Nat
<1>1. Parts = {} \/ \E t \in Thread : \E w \in part[t] :
                Parts = {w} /\ part[t] = {w} /\ pc[t] = "write"
  <2>1. CASE \A t \in Thread : ~ Holding(t)
    BY <2>1, PartsAre
  <2>2. ASSUME NEW t \in Thread, Holding(t)
        PROVE  Parts = {} \/ \E w \in part[t] : Parts = {w} /\ part[t] = {w} /\ pc[t] = "write"
    BY <2>2, PartsAre DEF DownloadInv, Downloading
  <2> QED
    BY <2>1, <2>2
<1>2. \A w : Parts = {w} => w.bytes \in Nat
  <2> SUFFICES ASSUME NEW w, Parts = {w} PROVE w.bytes \in Nat
    OBVIOUS
  <2>1. PICK t \in Thread : w \in part[t]
    BY <1>1
  <2>2. part[t] \subseteq [by : Thread, file : File, bytes : Nat, good : BOOLEAN]
    BY DEF TypeOK
  <2> QED
    BY <2>1, <2>2
<1>3. PartBytes = ByteSum(Parts)
  BY DEF PartBytes, ByteSum
<1>4. /\ Parts = {} => PartBytes = 0
      /\ \A w : Parts = {w} => PartBytes = w.bytes
  BY <1>1, <1>2, <1>3, ByteSumSmall
<1>5. /\ Parts = {} => Cardinality(Parts) = 0
      /\ \A w : Parts = {w} => Cardinality(Parts) = 1
  BY FS_EmptySet, FS_Singleton
<1> QED
  BY <1>1, <1>2, <1>4, <1>5

(* Who is not inside downloads nothing, so a step of the thread inside, and *)
(* a step that leaves files and counters alone, is of no concern to others. *)
LEMMA DownloadStep ==
  ASSUME TypeOK, LockInv, DownloadInv, NEW t \in Thread,
         \A u \in Thread : u # t => /\ pc'[u] = pc[u] /\ missing'[u] = missing[u]
                                   /\ part'[u] = part[u],
         Holding(t) \/ UNCHANGED <<disk, unknown, leased>>,
         Downloading(t)'
  PROVE  DownloadInv'
<1> SUFFICES ASSUME NEW u \in Thread, u # t
             PROVE  Downloading(u)'
  BY DEF DownloadInv
<1>1. Downloading(u) /\ pc'[u] = pc[u] /\ missing'[u] = missing[u] /\ part'[u] = part[u]
  BY DEF DownloadInv
<1>2. CASE Holding(t)
  <2>1. ~ Holding(u)
    BY <1>2, Local, Owner
  <2>2. missing[u] = {} /\ part[u] = {} /\ pc[u] \notin {"fetch", "write"}
    BY <2>1, PartsAre DEF Holding, Critical
  <2> QED
    BY <1>1, <2>2 DEF Downloading
<1>3. CASE UNCHANGED <<disk, unknown, leased>>
  <2>1. Present' = Present
    BY <1>3 DEF Present
  <2>2. Room(u)' <=> Room(u)
    BY <1>1, <1>3, <2>1 DEF Room
  <2>3. Proc(u)' = Proc(u)
    BY DEF Proc
  <2> QED
    BY <1>1, <1>3, <2>2, <2>3 DEF Downloading
<1> QED
  BY <1>2, <1>3

(* A call that has not come to its downloads, or is over, has none. *)
LEMMA NothingToDownload ==
  ASSUME TypeOK, LockInv, DownloadInv, NEW t \in Thread,
         \/ \E S \in SUBSET File : Request(t, S)
         \/ AcquireMutex(t) \/ MutexTimeout(t) \/ AcquireFlock(t) \/ FlockTimeout(t)
         \/ Inspect(t) \/ (Raise(t) /\ UNCHANGED files) \/ Grant(t) \/ EndLease(t)
  PROVE  /\ Downloading(t)'
         /\ UNCHANGED <<disk, unknown>>
         /\ \A u \in Thread : u # t => /\ pc'[u] = pc[u] /\ missing'[u] = missing[u]
                                      /\ part'[u] = part[u]
         /\ part'[t] = {}
<1>1. UNCHANGED <<disk, unknown>>
  BY DEF Request, AcquireMutex, MutexTimeout, AcquireFlock, FlockTimeout, Inspect, Raise, Grant,
         EndLease, files
<1>2. \A u \in Thread : u # t => /\ pc'[u] = pc[u] /\ missing'[u] = missing[u]
                                 /\ part'[u] = part[u]
  BY DEF Request, AcquireMutex, MutexTimeout, AcquireFlock, FlockTimeout, Inspect, Raise, Grant,
         EndLease, EndCall, Goto, TypeOK, call
<1>3. Downloading(t)
  BY DEF DownloadInv
<1>4. missing'[t] = {} /\ part'[t] = {} /\ pc'[t] \notin {"fetch", "write"}
  <2>1. CASE (\E S \in SUBSET File : Request(t, S)) \/ AcquireMutex(t) \/ AcquireFlock(t) \/ Inspect(t)
    <3>1. missing' = missing /\ part' = part /\ pc'[t] \notin {"fetch", "write"}
          /\ pc[t] \notin Inside
      BY <2>1 DEF Request, AcquireMutex, AcquireFlock, Inspect, Goto, TypeOK, call, Inside
    <3> QED
      BY <1>3, <3>1 DEF Downloading, Inside
  <2>2. CASE MutexTimeout(t) \/ FlockTimeout(t) \/ (Raise(t) /\ UNCHANGED files) \/ Grant(t)
    BY <2>2 DEF MutexTimeout, FlockTimeout, Raise, Grant, EndCall, Goto, TypeOK
  <2>3. CASE EndLease(t)
    BY <1>3, <2>3 DEF EndLease, Downloading, Inside, call
  <2> QED
    BY <2>1, <2>2, <2>3
<1> QED
  BY <1>1, <1>2, <1>4 DEF Downloading

(* From its verification to its last publication a call has what it misses  *)
(* absent and unleased, and once it downloads, room for all of it.          *)
LEMMA DownloadSteps ==
  ASSUME TypeOK, LockInv, DownloadInv, NEW t \in Thread,
         \/ \E f \in File : VerifyIntact(t, f) \/ VerifyMissing(t, f)
         \/ AllVerified(t) \/ ReserveFits(t) \/ EvictOldest(t)
         \/ \E f \in File : StartPart(t, f)
         \/ \E good \in BOOLEAN : ReceiveChunk(t, good)
         \/ Publish(t)
  PROVE  /\ Downloading(t)' /\ Holding(t)
         /\ \A u \in Thread : u # t => /\ pc'[u] = pc[u] /\ missing'[u] = missing[u]
                                      /\ part'[u] = part[u]
<1>1. pc[t] \in Inside /\ Holding(t) /\ Downloading(t) /\ leased' = leased
  BY DEF VerifyIntact, VerifyMissing, AllVerified, ReserveFits, EvictOldest, StartPart,
         ReceiveChunk, Publish, Holding, Critical, Inside, DownloadInv, locks
<1>2. \A u \in Thread : u # t => /\ pc'[u] = pc[u] /\ missing'[u] = missing[u]
                                 /\ part'[u] = part[u]
  BY DEF VerifyIntact, VerifyMissing, AllVerified, ReserveFits, EvictOldest, StartPart,
         ReceiveChunk, Publish, Goto, TypeOK, call
<1>3. Proc(t)' = Proc(t)
  BY DEF Proc
<1>4. ASSUME NEW f \in File, VerifyIntact(t, f)
      PROVE  Downloading(t)'
  BY <1>1, <1>3, <1>4 DEF VerifyIntact, Downloading, Inside, files
<1>5. ASSUME NEW f \in File, VerifyMissing(t, f)
      PROVE  Downloading(t)'
  <2>1. pc[t] = "verify" /\ pc' = pc /\ part' = part /\ missing'[t] = missing[t] \cup {f}
        /\ leased[Proc(t)][f] = 0
    BY <1>5 DEF VerifyMissing, TypeOK
  <2>2. disk'[f] = "absent" /\ \A g \in File : g # f => disk'[g] = disk[g]
    BY <1>5 DEF VerifyMissing, Drop, TypeOK, DiskState, files
  <2>3. missing[t] \subseteq File
    BY DEF TypeOK
  <2>4. \A g \in missing'[t] : leased'[Proc(t)][g] = 0 /\ disk'[g] = "absent"
    BY <1>1, <2>1, <2>2, <2>3 DEF Downloading
  <2> QED
    BY <1>1, <1>3, <2>1, <2>4 DEF Downloading, Inside
<1>6. ASSUME AllVerified(t)
     PROVE  Downloading(t)'
  BY <1>1, <1>3, <1>6 DEF AllVerified, Goto, Downloading, Inside, files, call, TypeOK
<1>7. ASSUME ReserveFits(t)
     PROVE  Downloading(t)'
  <2>1. pc[t] = "reserve" /\ Fits(t) /\ pc'[t] = "fetch" /\ UNCHANGED <<disk, unknown, missing, part>>
    BY <1>7 DEF ReserveFits, Goto, files, call, TypeOK
  <2>2. Parts = {}
    BY <1>1, <2>1, PartsAre DEF Downloading
  <2>3. PartBytes = 0 /\ Cardinality(Parts) = 0
    BY <2>2, PartsFacts
  <2>4. /\ SizeOf(Present) \in Nat /\ Cardinality(Present) \in Nat
        /\ SizeOf(missing[t]) \in Nat /\ Cardinality(missing[t]) \in Nat
        /\ unknown.bytes \in Nat /\ unknown.files \in Nat
    BY SizeFacts DEF Present, TypeOK
  <2>5. Room(t)
    BY <2>1, <2>3, <2>4, ConstantsAssumption DEF Room, Fits, Bytes, FileCount
  <2>6. Room(t)'
    BY <2>1, <2>5 DEF Room, Present
  <2>7. /\ missing'[t] = missing[t] /\ part'[t] = {} /\ pc'[t] \in Inside /\ pc'[t] # "write"
        /\ \A g \in missing'[t] : leased'[Proc(t)][g] = 0 /\ disk'[g] = "absent"
    BY <1>1, <2>1 DEF Downloading, Inside
  <2> QED
    BY <1>3, <2>6, <2>7 DEF Downloading, Inside
<1>8. ASSUME EvictOldest(t)
     PROVE  Downloading(t)'
  <2>1. PICK f \in Evictable(t) : Drop(f)
    BY <1>8 DEF EvictOldest
  <2>2. \A g \in File : disk[g] = "absent" => disk'[g] = "absent"
    BY <2>1 DEF Drop, TypeOK
  <2>3. pc[t] = "reserve" /\ pc' = pc /\ missing' = missing /\ part' = part
    BY <1>8 DEF EvictOldest, call
  <2>4. missing[t] \subseteq File
    BY DEF TypeOK
  <2> QED
    BY <1>1, <1>3, <2>2, <2>3, <2>4 DEF Downloading, Inside
<1>9. ASSUME NEW f \in File, StartPart(t, f)
      PROVE  Downloading(t)'
  <2> DEFINE w == [by |-> t, file |-> f, bytes |-> 0, good |-> TRUE]
  <2>1. /\ pc[t] = "fetch" /\ pc'[t] = "write" /\ f \in missing[t] /\ part'[t] = {w}
        /\ UNCHANGED <<disk, unknown, missing>>
    BY <1>9 DEF StartPart, Goto, files, TypeOK
  <2>2. w.file = f /\ w.bytes = 0 /\ Size[f] \in Nat
    BY ConstantsAssumption
  <2> HIDE DEF w
  <2>3. \E x \in part'[t] : part'[t] = {x} /\ x.file \in missing'[t] /\ x.bytes <= Size[x.file]
    BY <2>1, <2>2
  <2>4. Room(t)'
    BY <1>1, <2>1 DEF Downloading, Room, Present
  <2> QED
    BY <1>1, <1>3, <2>1, <2>3, <2>4 DEF Downloading, Inside
<1>10. ASSUME NEW good \in BOOLEAN, ReceiveChunk(t, good)
       PROVE  Downloading(t)'
  <2>1. PICK w \in part[t] :
          /\ w.bytes < Size[w.file]
          /\ part' = [part EXCEPT ![t] = {[w EXCEPT !.bytes = @ + 1, !.good = @ /\ good]}]
    BY <1>10 DEF ReceiveChunk
  <2>2. pc[t] = "write" /\ pc' = pc /\ UNCHANGED <<disk, unknown, missing>>
    BY <1>10 DEF ReceiveChunk, files
  <2>3. w.file \in missing[t] /\ w \in [by : Thread, file : File, bytes : Nat, good : BOOLEAN]
    BY <1>1, <2>2 DEF Downloading, TypeOK
  <2> DEFINE v == [w EXCEPT !.bytes = @ + 1, !.good = @ /\ good]
  <2>4. part'[t] = {v} /\ v.file = w.file /\ v.bytes = w.bytes + 1
    BY <2>1, <2>3 DEF TypeOK
  <2> HIDE DEF v
  <2>5. v.bytes <= Size[v.file]
    BY <2>1, <2>3, <2>4, ConstantsAssumption
  <2>6. \E x \in part'[t] : part'[t] = {x} /\ x.file \in missing'[t] /\ x.bytes <= Size[x.file]
    BY <2>2, <2>3, <2>4, <2>5
  <2>7. Room(t)'
    BY <1>1, <2>2 DEF Downloading, Room, Present
  <2> QED
    BY <1>1, <1>3, <2>2, <2>6, <2>7 DEF Downloading, Inside
<1>11. ASSUME Publish(t)
      PROVE  Downloading(t)'
  <2>1. PICK w \in part[t] :
          /\ Complete(w)
          /\ disk' = [disk EXCEPT ![w.file] = IF w.good THEN "intact" ELSE "damaged"]
          /\ missing' = [missing EXCEPT ![t] = @ \ {w.file}]
    BY <1>11 DEF Publish
  <2>2. pc[t] = "write" /\ pc'[t] = "fetch" /\ part'[t] = {} /\ unknown' = unknown
    BY <1>11 DEF Publish, Goto, TypeOK
  <2>3. w.file \in missing[t] /\ w.file \in File /\ missing[t] \subseteq File
    BY <1>1, <2>2 DEF Downloading, TypeOK
  <2> DEFINE f == w.file
  <2>4. /\ missing'[t] = missing[t] \ {f} /\ disk'[f] = "intact" /\ disk[f] = "absent"
        /\ \A g \in File : g # f => disk'[g] = disk[g]
    BY <1>1, <2>1, <2>3 DEF Complete, TypeOK, Downloading
  <2> HIDE DEF f
  <2>5. f \in File /\ f \in missing[t]
    BY <2>3 DEF f
  <2>6. Present' = Present \cup {f} /\ f \notin Present /\ Present \subseteq File
    BY <2>4, <2>5 DEF Present
  <2>7. /\ SizeOf(Present') = Size[f] + SizeOf(Present)
        /\ Cardinality(Present') = 1 + Cardinality(Present)
        /\ SizeOf(Present) \in Nat /\ Cardinality(Present) \in Nat
    <3>1. Present' \in SUBSET File /\ Present' \ {f} = Present /\ f \in Present'
      BY <2>5, <2>6
    <3> QED
      BY <2>6, <3>1, SizeFacts
  <2>8. /\ SizeOf(missing[t]) = Size[f] + SizeOf(missing'[t])
        /\ Cardinality(missing[t]) = 1 + Cardinality(missing'[t])
        /\ SizeOf(missing'[t]) \in Nat /\ Cardinality(missing'[t]) \in Nat
    <3>1. missing'[t] \in SUBSET File
      BY <2>3, <2>4
    <3> QED
      BY <2>3, <2>4, <2>5, <3>1, SizeFacts
  <2>9. Room(t)
    BY <1>1, <2>2 DEF Downloading
  <2>10. Room(t)'
    <3>1. Size[f] \in Nat /\ unknown.bytes \in Nat /\ unknown.files \in Nat
      BY <2>5, ConstantsAssumption DEF TypeOK
    <3> QED
      BY <2>2, <2>7, <2>8, <2>9, <3>1, ConstantsAssumption DEF Room
  <2>11. \A g \in missing'[t] : leased'[Proc(t)][g] = 0 /\ disk'[g] = "absent"
    BY <1>1, <2>3, <2>4 DEF Downloading
  <2>12. pc'[t] \in Inside /\ pc'[t] # "write"
    BY <2>2 DEF Inside
  <2> QED
    BY <1>3, <2>2, <2>10, <2>11, <2>12 DEF Downloading, Inside
<1> QED
  BY <1>1, <1>2, <1>4, <1>5, <1>6, <1>7, <1>8, <1>9, <1>10, <1>11

(* A crash ends the downloads of one process and touches no target.         *)
LEMMA CrashDownloads ==
  ASSUME TypeOK, LockInv, DownloadInv, NEW p \in Process, NEW r \in Release, Crash(p, r)
  PROVE  DownloadInv'
<1>1. ASSUME NEW u \in Thread, Proc(u) = p
      PROVE  Downloading(u)'
  BY <1>1 DEF Crash, Downloading
<1>2. ASSUME NEW u \in Thread, Proc(u) # p
      PROVE  Downloading(u)'
  <2>1. /\ pc'[u] = pc[u] /\ missing'[u] = missing[u] /\ part'[u] = part[u] /\ disk' = disk
        /\ leased'[Proc(u)] = leased[Proc(u)] /\ Proc(u)' = Proc(u)
    BY <1>2, Local DEF Crash, Proc, TypeOK
  <2>2. Downloading(u)
    BY DEF DownloadInv
  <2>3. ASSUME pc[u] \in {"fetch", "write"}
        PROVE  unknown' = unknown
    <3>1. Holding(u)
      BY <2>3 DEF Holding, Critical
    <3>2. \A t \in Thread : t # u => part[t] = {}
      BY <3>1, Local, Owner, PartsAre
    <3>3. UNION {part[t] : t \in {t \in Thread : Proc(t) = p}} = {}
      BY <1>2, <3>2
    <3> QED
      BY <3>3 DEF Crash
  <2>4. pc'[u] \in {"fetch", "write"} => Room(u)'
    BY <2>1, <2>2, <2>3 DEF Downloading, Room, Present
  <2> QED
    BY <2>1, <2>2, <2>4 DEF Downloading
<1> QED
  BY <1>1, <1>2 DEF DownloadInv

(* What is downloaded stays absent, unleased and provided for.              *)
LEMMA NextDownloadInv ==
  ASSUME TypeOK, LockInv, DownloadInv, [Next]_vars
  PROVE  DownloadInv'
<1>1. ASSUME NEW t \in Thread,
             (\E S \in SUBSET File : Request(t, S)) \/ Step(t) \/ EndLease(t)
      PROVE  DownloadInv'
  <2>1. CASE \/ \E S \in SUBSET File : Request(t, S)
             \/ AcquireMutex(t) \/ MutexTimeout(t) \/ AcquireFlock(t) \/ FlockTimeout(t)
    <3>1. UNCHANGED <<disk, unknown, leased>>
      BY <2>1 DEF Request, AcquireMutex, MutexTimeout, AcquireFlock, FlockTimeout, files
    <3> QED
      BY <2>1, <3>1, NothingToDownload, DownloadStep
  <2>2. CASE InspectFails(t) \/ (\E f \in File : VerifyLost(t, f))
             \/ ReserveFails(t) \/ MaterializeFails(t)
    <3>1. Raise(t) /\ UNCHANGED files /\ Holding(t)
      BY <2>2 DEF InspectFails, VerifyLost, ReserveFails, MaterializeFails, Holding, Critical
    <3> QED
      BY <3>1, NothingToDownload, DownloadStep
  <2>3. CASE Inspect(t) \/ Grant(t) \/ EndLease(t)
    <3>1. Holding(t)
      BY <2>3 DEF Inspect, Grant, EndLease, Holding, Critical
    <3> QED
      BY <2>3, <3>1, NothingToDownload, DownloadStep
  <2>4. CASE \/ \E f \in File : VerifyIntact(t, f) \/ VerifyMissing(t, f)
             \/ AllVerified(t) \/ ReserveFits(t) \/ EvictOldest(t)
             \/ \E f \in File : StartPart(t, f)
             \/ \E good \in BOOLEAN : ReceiveChunk(t, good)
             \/ Publish(t)
    BY <2>4, DownloadSteps, DownloadStep
  <2> QED
    BY <1>1, <2>1, <2>2, <2>3, <2>4 DEF Step
<1>2. ASSUME NEW p \in Process, NEW r \in Release, Crash(p, r)
      PROVE  DownloadInv'
  BY <1>2, CrashDownloads
<1>3. ASSUME NEW f \in File, Damage(f)
      PROVE  DownloadInv'
  <2>1. /\ UNCHANGED <<unknown, leased, pc, missing, part>>
        /\ \A g \in File : disk'[g] = "absent" <=> disk[g] = "absent"
    BY <1>3 DEF Damage, locks, call, TypeOK
  <2>2. Present' = Present
    BY <2>1 DEF Present
  <2>3. ASSUME NEW t \in Thread
        PROVE  Downloading(t)'
    <3>1. Downloading(t) /\ (Room(t)' <=> Room(t)) /\ Proc(t)' = Proc(t) /\ missing[t] \subseteq File
      BY <2>1, <2>2 DEF DownloadInv, Room, Proc, TypeOK
    <3> QED
      BY <2>1, <3>1 DEF Downloading
  <2> QED
    BY <2>3 DEF DownloadInv
<1>4. CASE UNCHANGED vars
  BY <1>4 DEF vars, files, locks, call, DownloadInv, Downloading, Room, Present, Proc
<1> QED
  BY <1>1, <1>2, <1>3, <1>4 DEF Next

(* One step's part in OnlyCheckedBytes: the only step that puts a file in   *)
(* place publishes checked bytes of one that was absent and unleased.       *)
LEMMA BytesChecked ==
  ASSUME TypeOK, LockInv, DownloadInv, [Next]_vars, NEW f \in File
  PROVE  /\ disk[f] = "absent" => disk'[f] # "damaged"
         /\ disk[f] # "intact" /\ disk'[f] = "intact" =>
                \A t \in Thread : \A i \in 1..Len(stack[t]) : f \notin stack[t][i]
<1>1. ASSUME NEW t \in Thread, Publish(t)
      PROVE  /\ disk[f] = "absent" => disk'[f] # "damaged"
             /\ disk[f] # "intact" /\ disk'[f] = "intact" =>
                    \A u \in Thread : \A i \in 1..Len(stack[u]) : f \notin stack[u][i]
  <2>1. PICK w \in part[t] :
          /\ Complete(w)
          /\ disk' = [disk EXCEPT ![w.file] = IF w.good THEN "intact" ELSE "damaged"]
    BY <1>1 DEF Publish
  <2>2. Holding(t) /\ pc[t] = "write"
    BY <1>1 DEF Publish, Holding, Critical
  <2>3. leased[Proc(t)][w.file] = 0 /\ w.file \in File
    BY <2>2 DEF DownloadInv, Downloading, TypeOK
  <2>4. \A u \in Thread : \A i \in 1..Len(stack[u]) : w.file \notin stack[u][i]
    BY <2>2, <2>3, UncountedUnleased
  <2> QED
    BY <2>1, <2>4 DEF Complete, TypeOK
<1> DEFINE Kind == disk'[f] = disk[f] \/ disk'[f] = "absent" \/ (disk[f] = "intact" /\ disk'[f] = "damaged")
<1>2. disk \in [File -> DiskState]
  BY DEF TypeOK
<1>3. ASSUME NEW t \in Thread,
             (\E S \in SUBSET File : Request(t, S)) \/ Step(t) \/ EndLease(t), ~ Publish(t)
      PROVE  Kind
  <2>1. disk' = disk \/ \E g : disk' = [disk EXCEPT ![g] = "absent"]
    BY <1>3, Zenon DEF Step, Request, EndLease, AcquireMutex, MutexTimeout, AcquireFlock, FlockTimeout,
        Inspect, InspectFails, VerifyIntact, VerifyMissing, VerifyLost, AllVerified, ReserveFits,
        EvictOldest, ReserveFails, StartPart, ReceiveChunk, MaterializeFails, Grant, Drop, files
  <2> QED
    BY <1>2, <2>1
<1>4. ASSUME NEW g \in File, Damage(g)
      PROVE  Kind
  BY <1>2, <1>4 DEF Damage
<1>5. ASSUME NEW p \in Process, NEW r \in Release, Crash(p, r)
      PROVE  Kind
  BY <1>5 DEF Crash
<1>6. CASE UNCHANGED vars
  BY <1>6 DEF vars, files
<1>7. Kind => /\ disk[f] = "absent" => disk'[f] # "damaged"
              /\ ~ (disk[f] # "intact" /\ disk'[f] = "intact")
  OBVIOUS
<1> HIDE DEF Kind
<1> QED
  BY <1>1, <1>3, <1>4, <1>5, <1>6, <1>7 DEF Next

-----------------------------------------------------------------------------
(* What a step of WritesWithinLimits may do. *)
Growth ==
  /\ Bytes' > Bytes => Bytes' <= MaxBytes
  /\ FileCount' > FileCount => FileCount' <= MaxFiles

(* The sizes that make up what the root holds, before and after a step.     *)
LEMMA Usage ==
  ASSUME TypeOK, LockInv, DownloadInv, [Next]_vars
  PROVE  /\ \E P \in Nat : PartBytes = P /\ Bytes = SizeOf(Present) + P + unknown.bytes
         /\ FileCount = Cardinality(Present) + Cardinality(Parts) + unknown.files
         /\ Bytes' = SizeOf(Present') + ByteSum(Parts') + unknown'.bytes
         /\ FileCount' = Cardinality(Present') + Cardinality(Parts') + unknown'.files
         /\ Cardinality(Parts) \in Nat
         /\ SizeOf(Present) \in Nat /\ Cardinality(Present) \in Nat
         /\ SizeOf(Present') \in Nat /\ Cardinality(Present') \in Nat
         /\ unknown.bytes \in Nat /\ unknown.files \in Nat
         /\ MaxBytes \in Nat /\ MaxFiles \in Nat
<1>1. Present \in SUBSET File /\ Present' \in SUBSET File
  BY DEF Present
<1>2. PartBytes \in Nat /\ Cardinality(Parts) \in Nat
  BY PartsFacts
<1>3. /\ SizeOf(Present) \in Nat /\ Cardinality(Present) \in Nat
      /\ SizeOf(Present') \in Nat /\ Cardinality(Present') \in Nat
  BY <1>1, SizeFacts
<1>4. /\ Bytes' = SizeOf(Present') + ByteSum(Parts') + unknown'.bytes
      /\ FileCount' = Cardinality(Present') + Cardinality(Parts') + unknown'.files
  <2>1. PartBytes' = ByteSum(Parts')
    BY DEF PartBytes, ByteSum, MapThenSumSet, MapThenFoldSet
  <2>2. Bytes' = SizeOf(Present') + PartBytes' + unknown'.bytes
    BY DEF Bytes
  <2>3. FileCount' = Cardinality(Present') + Cardinality(Parts') + unknown'.files
    BY DEF FileCount
  <2> QED
    BY <2>1, <2>2, <2>3
<1> QED
  BY <1>2, <1>3, <1>4, ConstantsAssumption DEF Bytes, FileCount, TypeOK

(* A step that adds neither a target nor bytes of a .part adds nothing.     *)
LEMMA NoGrowth ==
  ASSUME TypeOK, LockInv, DownloadInv, [Next]_vars,
         unknown' = unknown,
         Present' = Present \/ \E f \in Present : Present' = Present \ {f},
         Parts' = Parts \/ Parts' = {}
  PROVE  Growth
<1>1. SizeOf(Present') <= SizeOf(Present) /\ Cardinality(Present') <= Cardinality(Present)
  <2>1. CASE Present' = Present
    BY <2>1, Usage
  <2>2. ASSUME NEW f \in Present, Present' = Present \ {f}
        PROVE  SizeOf(Present') <= SizeOf(Present) /\ Cardinality(Present') <= Cardinality(Present)
    <3>1. Present \in SUBSET File /\ Size[f] \in Nat
      BY ConstantsAssumption DEF Present
    <3>2. SizeOf(Present) = Size[f] + SizeOf(Present') /\ Cardinality(Present) = 1 + Cardinality(Present')
      BY <2>2, <3>1, SizeFacts
    <3> QED
      BY <3>1, <3>2, Usage
  <2> QED
    BY <2>1, <2>2
<1>2. ByteSum(Parts') <= PartBytes /\ Cardinality(Parts') <= Cardinality(Parts)
      /\ ByteSum(Parts') \in Nat /\ Cardinality(Parts') \in Nat
  <2>1. PartBytes = ByteSum(Parts) /\ PartBytes \in Nat /\ Cardinality(Parts) \in Nat
    BY PartsFacts DEF PartBytes, ByteSum
  <2>2. ByteSum({}) = 0 /\ Cardinality({}) = 0
    BY ByteSumSmall, FS_EmptySet
  <2> QED
    BY <2>1, <2>2
<1>3. Bytes' <= Bytes /\ FileCount' <= FileCount
  BY <1>1, <1>2, Usage
<1>4. Bytes \in Nat /\ Bytes' \in Nat /\ FileCount \in Nat /\ FileCount' \in Nat
  BY <1>2, Usage
<1> QED
  BY <1>3, <1>4 DEF Growth

(* A new or longer .part stays within what was reserved; publishing it and  *)
(* leaving it behind in a crash only rename it.                             *)
LEMMA PartGrowth ==
  ASSUME TypeOK, LockInv, DownloadInv, [Next]_vars, NEW t \in Thread,
         \/ \E f \in File : StartPart(t, f)
         \/ \E good \in BOOLEAN : ReceiveChunk(t, good)
         \/ Publish(t)
  PROVE  Growth
<1>1. Holding(t) /\ Downloading(t) /\ pc[t] \in {"fetch", "write"} /\ Room(t) /\ unknown' = unknown
  BY DEF StartPart, ReceiveChunk, Publish, Holding, Critical, DownloadInv, Downloading, files
<1>2. Parts = part[t] /\ \A u \in Thread : u # t => part[u] = {}
  BY <1>1, Local, Owner, PartsAre
<1>3. missing[t] \in SUBSET File
  BY DEF TypeOK
<1>4. ASSUME NEW f \in missing[t]
      PROVE  /\ Size[f] <= SizeOf(missing[t]) /\ 1 <= Cardinality(missing[t])
             /\ Size[f] \in Nat /\ SizeOf(missing[t]) \in Nat /\ Cardinality(missing[t]) \in Nat
  <2>1. /\ SizeOf(missing[t]) = Size[f] + SizeOf(missing[t] \ {f})
        /\ Cardinality(missing[t]) = 1 + Cardinality(missing[t] \ {f})
        /\ SizeOf(missing[t] \ {f}) \in Nat /\ Cardinality(missing[t] \ {f}) \in Nat
    <3>1. missing[t] \ {f} \in SUBSET File
      BY <1>3
    <3> QED
      BY <1>3, <3>1, SizeFacts
  <2>2. Size[f] \in Nat
    BY <1>3, ConstantsAssumption
  <2> QED
    BY <2>1, <2>2
<1>5. ASSUME NEW f \in File, StartPart(t, f)
      PROVE  Growth
  <2> DEFINE w == [by |-> t, file |-> f, bytes |-> 0, good |-> TRUE]
  <2>1. pc[t] = "fetch" /\ f \in missing[t] /\ part' = [part EXCEPT ![t] = {w}] /\ disk' = disk
    BY <1>5 DEF StartPart, files
  <2>2. w.bytes = 0
    OBVIOUS
  <2> HIDE DEF w
  <2>3. Parts = {} /\ Parts' = {w} /\ Present' = Present
    <3>1. part[t] = {}
      BY <1>1, <2>1 DEF Downloading
    <3>2. part'[t] = {w} /\ \A u \in Thread : u # t => part'[u] = {}
      BY <1>2, <2>1 DEF TypeOK
    <3> QED
      BY <1>2, <2>1, <3>1, <3>2 DEF Parts, Present
  <2>4. ByteSum(Parts') = 0 /\ Cardinality(Parts') = 1 /\ PartBytes = 0 /\ Cardinality(Parts) = 0
    BY <2>2, <2>3, OnePart, PartsFacts
  <2>5. Bytes' = Bytes /\ FileCount' = FileCount + 1 /\ FileCount' <= MaxFiles
        /\ Bytes \in Nat /\ FileCount \in Nat
    BY <1>1, <1>4, <2>1, <2>3, <2>4, Usage DEF Room
  <2> QED
    BY <2>5 DEF Growth
<1>6. ASSUME NEW good \in BOOLEAN, ReceiveChunk(t, good)
      PROVE  Growth
  <2>1. PICK w \in part[t] :
          /\ w.bytes < Size[w.file]
          /\ part' = [part EXCEPT ![t] = {[w EXCEPT !.bytes = @ + 1, !.good = @ /\ good]}]
    BY <1>6 DEF ReceiveChunk
  <2>2. pc[t] = "write" /\ disk' = disk
    BY <1>6 DEF ReceiveChunk, files
  <2>3. part[t] = {w} /\ w.file \in missing[t] /\ w \in [by : Thread, file : File, bytes : Nat, good : BOOLEAN]
    BY <1>1, <2>1, <2>2 DEF Downloading, TypeOK
  <2> DEFINE v == [w EXCEPT !.bytes = @ + 1, !.good = @ /\ good]
  <2>4. v.bytes = w.bytes + 1 /\ part' = [part EXCEPT ![t] = {v}]
    BY <2>1, <2>3
  <2> HIDE DEF v
  <2>5. Parts = {w} /\ Parts' = {v} /\ Present' = Present
    BY <1>2, <2>2, <2>3, <2>4 DEF Parts, Present, TypeOK
  <2>6. /\ ByteSum(Parts') = w.bytes + 1 /\ Cardinality(Parts') = 1
        /\ PartBytes = w.bytes /\ Cardinality(Parts) = 1 /\ w.bytes \in Nat
    <3>1. w.bytes \in Nat /\ v.bytes \in Nat
      BY <2>3, <2>4
    <3> QED
      BY <2>4, <2>5, <3>1, OnePart, PartsFacts
  <2>7. w.bytes + 1 <= Size[w.file] /\ Size[w.file] <= SizeOf(missing[t])
        /\ Size[w.file] \in Nat /\ SizeOf(missing[t]) \in Nat
    BY <1>4, <2>1, <2>3
  <2>8. /\ Bytes' <= MaxBytes /\ FileCount' = FileCount /\ FileCount \in Nat
    BY <1>1, <2>5, <2>6, <2>7, Usage DEF Room
  <2> QED
    BY <2>8 DEF Growth
<1>7. ASSUME Publish(t)
      PROVE  Growth
  <2>1. PICK w \in part[t] :
          /\ Complete(w)
          /\ disk' = [disk EXCEPT ![w.file] = IF w.good THEN "intact" ELSE "damaged"]
    BY <1>7 DEF Publish
  <2>2. pc[t] = "write" /\ part' = [part EXCEPT ![t] = {}]
    BY <1>7 DEF Publish
  <2> DEFINE f == w.file
  <2>3. part[t] = {w} /\ f \in missing[t] /\ w.bytes = Size[f] /\ disk[f] = "absent" /\ disk'[f] = "intact"
        /\ \A g \in File : g # f => disk'[g] = disk[g]
    BY <1>1, <1>3, <2>1, <2>2 DEF Downloading, Complete, TypeOK
  <2>4. Parts = {w} /\ Parts' = {}
    BY <1>2, <2>2, <2>3 DEF Parts, TypeOK
  <2> HIDE DEF f
  <2>5. Present' \in SUBSET File /\ f \in Present' /\ Present' \ {f} = Present
    BY <1>3, <2>3 DEF Present
  <2>6. SizeOf(Present') = Size[f] + SizeOf(Present) /\ Cardinality(Present') = 1 + Cardinality(Present)
    BY <2>5, SizeFacts
  <2>7. /\ ByteSum(Parts') = 0 /\ Cardinality(Parts') = 0
        /\ PartBytes = Size[f] /\ Cardinality(Parts) = 1 /\ Size[f] \in Nat
    BY <2>3, <2>4, ByteSumSmall, FS_EmptySet, PartsFacts
  <2>8. Bytes' = Bytes /\ FileCount' = FileCount /\ Bytes \in Nat /\ FileCount \in Nat
    BY <1>1, <2>6, <2>7, Usage
  <2> QED
    BY <2>8 DEF Growth
<1> QED
  BY <1>5, <1>6, <1>7

(* A half-written .part becomes an unknown file of the same bytes.          *)
LEMMA CrashGrowth ==
  ASSUME TypeOK, LockInv, DownloadInv, [Next]_vars,
         NEW p \in Process, NEW r \in Release, Crash(p, r)
  PROVE  Growth
<1> DEFINE left == UNION {part[t] : t \in {t \in Thread : Proc(t) = p}}
<1>1. /\ disk' = disk
      /\ \/ left = {} /\ unknown' = unknown
         \/ \E w \in left : unknown' = [files |-> unknown.files + 1, bytes |-> unknown.bytes + w.bytes]
      /\ part' = [t \in Thread |-> IF Proc(t) = p THEN {} ELSE part[t]]
  BY DEF Crash
<1>2. Present' = Present
  BY <1>1 DEF Present
<1>3. Parts' \subseteq Parts /\ left \subseteq Parts
  BY <1>1 DEF Parts
<1>4. CASE left = {}
  <2>1. Parts' = Parts /\ unknown' = unknown
    BY <1>1, <1>4 DEF Parts
  <2> QED
    BY <1>2, <2>1, NoGrowth
<1>5. CASE left # {}
  <2>1. PICK t \in Thread : \E w \in part[t] : Parts = {w} /\ part[t] = {w} /\ pc[t] = "write"
    BY <1>3, <1>5, PartsFacts
  <2>10. PICK w \in part[t] : Parts = {w} /\ part[t] = {w} /\ pc[t] = "write"
    BY <2>1
  <2>2. w \in left /\ left = {w}
    BY <1>3, <1>5, <2>10
  <2>3. \A u \in Thread : u # t => part[u] = {}
    BY <2>10, PartsAre, Local, Owner DEF Holding, Critical
  <2>4. Proc(t) = p
    BY <1>5, <2>3
  <2>5. Parts' = {}
    BY <1>1, <2>3, <2>4 DEF Parts
  <2>6. /\ ByteSum(Parts') = 0 /\ Cardinality(Parts') = 0
        /\ PartBytes = w.bytes /\ Cardinality(Parts) = 1 /\ w.bytes \in Nat
    BY <2>10, <2>5, ByteSumSmall, FS_EmptySet, PartsFacts
  <2>7. unknown' = [files |-> unknown.files + 1, bytes |-> unknown.bytes + w.bytes]
    BY <1>1, <1>5, <2>2
  <2>8. unknown'.files = unknown.files + 1 /\ unknown'.bytes = unknown.bytes + w.bytes
    BY <2>7
  <2>9. Bytes' = Bytes /\ FileCount' = FileCount /\ Bytes \in Nat /\ FileCount \in Nat
    BY <1>2, <2>6, <2>8, Usage
  <2> QED
    BY <2>9 DEF Growth
<1> QED
  BY <1>4, <1>5

(* Every step grows the root only within its limits.                        *)
LEMMA NextGrowth ==
  ASSUME TypeOK, LockInv, DownloadInv, [Next]_vars
  PROVE  Growth
<1> disk \in [File -> DiskState]
  BY DEF TypeOK
<1>1. ASSUME NEW t \in Thread,
             (\E S \in SUBSET File : Request(t, S)) \/ Step(t) \/ EndLease(t)
      PROVE  Growth
  <2>1. CASE \/ \E S \in SUBSET File : Request(t, S)
             \/ AcquireMutex(t) \/ MutexTimeout(t) \/ AcquireFlock(t) \/ FlockTimeout(t)
             \/ Inspect(t) \/ (Raise(t) /\ UNCHANGED files) \/ Grant(t) \/ EndLease(t)
    <3>1. /\ part'[t] = {} /\ UNCHANGED <<disk, unknown>>
          /\ \A u \in Thread : u # t => part'[u] = part[u]
      BY <2>1, NothingToDownload
    <3>2. Parts' = Parts \/ Parts' = {}
      <4>1. CASE Holding(t)
        <5>1. \A u \in Thread : part'[u] = {}
          BY <3>1, <4>1, Local, Owner, PartsAre
        <5> QED
          BY <5>1 DEF Parts
      <4>2. CASE ~ Holding(t)
        <5>1. \A u \in Thread : part'[u] = part[u]
          BY <3>1, <4>2, PartsAre
        <5> QED
          BY <5>1 DEF Parts
      <4> QED
        BY <4>1, <4>2
    <3>3. Present' = Present
      BY <3>1 DEF Present
    <3> QED
      BY <3>1, <3>2, <3>3, NoGrowth
  <2>2. CASE InspectFails(t) \/ (\E f \in File : VerifyLost(t, f))
             \/ ReserveFails(t) \/ MaterializeFails(t)
    <3>1. Raise(t) /\ UNCHANGED files
      BY <2>2 DEF InspectFails, VerifyLost, ReserveFails, MaterializeFails
    <3> QED
      BY <2>1, <3>1
  <2>3. CASE \/ \E f \in File : VerifyIntact(t, f) \/ VerifyMissing(t, f)
             \/ AllVerified(t) \/ ReserveFits(t) \/ EvictOldest(t)
    <3>1. part' = part /\ unknown' = unknown /\ (disk' = disk \/ \E f : Drop(f))
      BY <2>3 DEF VerifyIntact, VerifyMissing, AllVerified, ReserveFits, EvictOldest, files, call, Drop
    <3>2. Parts' = Parts
      BY <3>1 DEF Parts
    <3>3. CASE disk' = disk
      <4>1. Present' = Present
        BY <3>3 DEF Present
      <4> QED
        BY <3>1, <3>2, <4>1, NoGrowth
    <3>4. ASSUME NEW f, Drop(f)
          PROVE  Growth
      <4>1. Present' = Present \/ (f \in Present /\ Present' = Present \ {f})
        BY <3>4 DEF Drop, Present
      <4> QED
        BY <3>1, <3>2, <4>1, NoGrowth
    <3> QED
      BY <3>1, <3>3, <3>4
  <2>4. CASE \/ \E f \in File : StartPart(t, f)
             \/ \E good \in BOOLEAN : ReceiveChunk(t, good)
             \/ Publish(t)
    BY <2>4, PartGrowth
  <2> QED
    BY <1>1, <2>1, <2>2, <2>3, <2>4 DEF Step
<1>2. ASSUME NEW p \in Process, NEW r \in Release, Crash(p, r)
      PROVE  Growth
  BY <1>2, CrashGrowth
<1>3. CASE (\E f \in File : Damage(f)) \/ UNCHANGED vars
  <2>1. part' = part /\ unknown' = unknown /\ \A g \in File : disk'[g] = "absent" <=> disk[g] = "absent"
    BY <1>3 DEF Damage, call, vars, files
  <2>2. Present' = Present /\ Parts' = Parts
    BY <2>1 DEF Present, Parts
  <2> QED
    BY <2>1, <2>2, NoGrowth
<1> QED
  BY <1>1, <1>2, <1>3 DEF Next

(* The invariant of the downloads, with what it rests on. *)
LEMMA DownloadsAccounted == Spec => [](TypeOK /\ LockInv /\ DownloadInv)
<1>1. Init => TypeOK /\ LockInv /\ DownloadInv
  <2>1. Init => DownloadInv
    BY DEF Init, DownloadInv, Downloading
  <2> QED
    BY <2>1, InitTypeOK, InitLockInv
<1>2. TypeOK /\ LockInv /\ DownloadInv /\ [Next]_vars => (TypeOK /\ LockInv /\ DownloadInv)'
  BY NextType, NextLockInv, NextDownloadInv
<1> QED
  BY <1>1, <1>2, PTL DEF Spec

(* Whatever threads and processes do, only checked bytes come into place,   *)
(* and never where a reader is: the cache publishes no damaged file and     *)
(* swaps no leased one.                                                     *)
THEOREM PublishedBytesAreChecked == Spec => OnlyCheckedBytes
<1> DEFINE Checked ==
      \A f \in File :
        /\ disk[f] = "absent" => disk'[f] # "damaged"
        /\ disk[f] # "intact" /\ disk'[f] = "intact" =>
            \A t \in Thread : \A i \in 1..Len(stack[t]) : f \notin stack[t][i]
<1>1. TypeOK /\ LockInv /\ DownloadInv /\ [Next]_vars => Checked
  BY BytesChecked
<1>2. Spec => [][Checked]_vars
  <2> HIDE DEF Checked
  <2> QED
    BY <1>1, DownloadsAccounted, PTL DEF Spec
<1> QED
  BY <1>2 DEF OnlyCheckedBytes

(* However many calls, crashes and unknown files there are, no write of the *)
(* cache, temporary files included, takes the root past a limit.            *)
THEOREM WritesStayWithinLimits == Spec => WritesWithinLimits
<1>1. TypeOK /\ LockInv /\ DownloadInv /\ [Next]_vars => Growth
  BY NextGrowth
<1>2. Spec => [][Growth]_vars
  BY <1>1, DownloadsAccounted, PTL DEF Spec
<1> QED
  BY <1>2 DEF WritesWithinLimits, Growth
=============================================================================
