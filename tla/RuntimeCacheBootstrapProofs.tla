--------------------- MODULE RuntimeCacheBootstrapProofs ---------------------
(***************************************************************************)
(* Proofs about RuntimeCacheBootstrap for every set of processes and every *)
(* number of crashes.  What a process found out under the file lock stays  *)
(* true until it acts on it, as only the holder of the lock creates or     *)
(* writes the marker or leaves files in the root; and a marker, once       *)
(* whole, stays whole.                                                     *)
(***************************************************************************)
EXTENDS RuntimeCacheBootstrap, TLAPS

Inside == {"byte", "again", "content", "create", "write", "check", "held"}
Outside == {"idle", "probe", "list", "size", "open", "flock"}
Outcome == {"none", "ok", "not owned", "invalid marker", "timed out", "write error"}

TypeInv ==
    /\ lock \in LockFile /\ marker \in Marker /\ others \in BOOLEAN
    /\ holder \in Process \cup {NoOne}
    /\ pc \in [Process -> Inside \cup Outside]
    /\ mode \in [Process -> {"init", "lease"}]
    /\ ready \in [Process -> BOOLEAN]
    /\ outcome \in [Process -> Outcome]

(* Who is past the lock holds it. *)
HolderInv == \A p \in Process : pc[p] \in Inside => holder = p

(* What a process knows of the root at each place. *)
Knows(p) ==
    /\ pc[p] = "content" => marker = "absent" /\ ~ others /\ lock # "big"
    /\ pc[p] = "create" => marker = "absent" /\ ~ others /\ lock = "0"
    /\ pc[p] = "write" => marker = "partial"
    /\ pc[p] = "check" => marker # "absent"
    /\ pc[p] = "held" => marker = "whole"
    /\ ready[p] => marker = "whole"
    /\ mode[p] = "lease" /\ pc[p] # "idle" => marker = "whole"
RootInv == \A p \in Process : Knows(p)

Inv == TypeInv /\ HolderInv /\ RootInv /\ HalfWrittenNeverSeen

-----------------------------------------------------------------------------
(* No step of one process takes another past the lock, or the lock from it. *)
LEMMA NextHolder ==
  ASSUME TypeInv, HolderInv, [Next]_vars
  PROVE  TypeInv' /\ HolderInv'
<1> USE DEF TypeInv, HolderInv, Inside, Outside, Outcome, LockFile, Marker, root
<1>1. ASSUME NEW p \in Process, NEW m \in {"init", "lease"}, Call(p, m)
      PROVE  TypeInv' /\ HolderInv'
  BY <1>1 DEF Call, Goto
<1>2. ASSUME NEW p \in Process,
             Probe(p) \/ List(p) \/ SizeOfLock(p) \/ OpenLock(p) \/ LockTimeout(p)
      PROVE  TypeInv' /\ HolderInv'
  <2>1. CASE Probe(p)
    BY <2>1 DEF Probe, Goto, Finish
  <2>2. CASE List(p)
    BY <2>2 DEF List, Goto, Finish
  <2>3. CASE SizeOfLock(p)
    BY <2>3 DEF SizeOfLock, Goto, Finish
  <2>4. CASE OpenLock(p)
    BY <2>4 DEF OpenLock, Goto, Finish
  <2>5. CASE LockTimeout(p)
    BY <2>5 DEF LockTimeout, Goto, Finish
  <2> QED
    BY <1>2, <2>1, <2>2, <2>3, <2>4, <2>5
<1>3. ASSUME NEW p \in Process, TakeLock(p)
      PROVE  TypeInv' /\ HolderInv'
  BY <1>3, BootAssumption DEF TakeLock, Goto
<1>4. ASSUME NEW p \in Process, WriteByte(p) \/ PreflightAgain(p) \/ ReadContent(p)
      PROVE  TypeInv' /\ HolderInv'
  <2>1. CASE WriteByte(p)
    BY <2>1 DEF WriteByte, Goto, Finish
  <2>2. CASE PreflightAgain(p)
    BY <2>2 DEF PreflightAgain, Goto, Finish
  <2>3. CASE ReadContent(p)
    BY <2>3 DEF ReadContent, Goto, Finish
  <2> QED
    BY <1>4, <2>1, <2>2, <2>3
<1>5. ASSUME NEW p \in Process, CreateMarker(p) \/ WriteMarker(p) \/ WriteMarkerFails(p)
      PROVE  TypeInv' /\ HolderInv'
  <2>1. CASE CreateMarker(p)
    BY <2>1 DEF CreateMarker, Goto, Finish
  <2>2. CASE WriteMarker(p)
    BY <2>2 DEF WriteMarker, Goto, Finish
  <2>3. CASE WriteMarkerFails(p)
    BY <2>3 DEF WriteMarkerFails, Goto, Finish
  <2> QED
    BY <1>5, <2>1, <2>2, <2>3
<1>6. ASSUME NEW p \in Process, CheckMarker(p) \/ Leave(p) \/ Crash(p)
      PROVE  TypeInv' /\ HolderInv'
  <2>1. others' \in BOOLEAN
    BY <1>6 DEF CheckMarker, Leave, Crash
  <2>2. CASE CheckMarker(p)
    BY <2>1, <2>2 DEF CheckMarker, Goto, Finish
  <2>3. CASE Leave(p)
    BY <2>1, <2>3 DEF Leave, Goto, Finish
  <2>4. CASE Crash(p)
    BY <2>1, <2>4 DEF Crash, Goto, Finish
  <2> QED
    BY <1>6, <2>2, <2>3, <2>4
<1>7. CASE UNCHANGED vars
  BY <1>7 DEF vars
<1> QED
  BY <1>1, <1>2, <1>3, <1>4, <1>5, <1>6, <1>7 DEF Next, Step

(* What each process knows of the root survives the steps of all. *)
LEMMA NextRoot ==
  ASSUME TypeInv, HolderInv, RootInv, [Next]_vars
  PROVE  RootInv'
<1> USE DEF TypeInv, HolderInv, RootInv, Knows, Inside, Outside, LockFile, Marker, root
<1>1. ASSUME NEW p \in Process, NEW m \in {"init", "lease"}, Call(p, m)
      PROVE  RootInv'
  BY <1>1 DEF Call, Goto
<1>2. ASSUME NEW p \in Process,
             Probe(p) \/ List(p) \/ SizeOfLock(p) \/ OpenLock(p) \/ LockTimeout(p)
      PROVE  RootInv'
  <2>1. CASE Probe(p)
    BY <2>1 DEF Probe, Goto
  <2>2. CASE OpenLock(p)
    BY <2>2 DEF OpenLock, Goto
  <2>3. CASE List(p)
    BY <2>3 DEF List, Goto, Finish
  <2>4. CASE SizeOfLock(p)
    BY <2>4 DEF SizeOfLock, Goto, Finish
  <2>5. CASE LockTimeout(p)
    BY <2>5 DEF LockTimeout, Goto, Finish
  <2> QED
    BY <1>2, <2>1, <2>2, <2>3, <2>4, <2>5
<1>3. ASSUME NEW p \in Process, TakeLock(p)
      PROVE  RootInv'
  BY <1>3 DEF TakeLock, Goto
<1>4. ASSUME NEW p \in Process, WriteByte(p) \/ PreflightAgain(p) \/ ReadContent(p)
      PROVE  RootInv'
  <2>1. CASE WriteByte(p)
    BY <2>1 DEF WriteByte, Goto
  <2>2. CASE PreflightAgain(p)
    BY <2>2 DEF PreflightAgain, Goto, Finish
  <2>3. CASE ReadContent(p)
    BY <2>3 DEF ReadContent, Goto, Finish
  <2> QED
    BY <1>4, <2>1, <2>2, <2>3
<1>5. ASSUME NEW p \in Process, CreateMarker(p) \/ WriteMarker(p) \/ WriteMarkerFails(p)
      PROVE  RootInv'
  BY <1>5 DEF CreateMarker, WriteMarker, WriteMarkerFails, Goto, Finish
<1>6. ASSUME NEW p \in Process, CheckMarker(p) \/ Leave(p) \/ Crash(p)
      PROVE  RootInv'
  BY <1>6 DEF CheckMarker, Leave, Crash, Goto, Finish
<1>7. CASE UNCHANGED vars
  BY <1>7 DEF vars
<1> QED
  BY <1>1, <1>2, <1>3, <1>4, <1>5, <1>6, <1>7 DEF Next, Step

-----------------------------------------------------------------------------
(* After a refusal nobody can be about to complete the marker, nor begin to. *)
LEMMA NextHalfWritten ==
  ASSUME TypeInv, HolderInv, RootInv, HalfWrittenNeverSeen, [Next]_vars
  PROVE  HalfWrittenNeverSeen'
<1> USE DEF TypeInv, HolderInv, HalfWrittenNeverSeen, Inside, Outside, Outcome, root
<1>1. ASSUME NEW p \in Process, NEW m \in {"init", "lease"}, Call(p, m)
      PROVE  HalfWrittenNeverSeen'
  BY <1>1 DEF Call, Goto
<1>2. ASSUME NEW p \in Process,
             Probe(p) \/ List(p) \/ SizeOfLock(p) \/ OpenLock(p) \/ LockTimeout(p) \/ TakeLock(p)
      PROVE  HalfWrittenNeverSeen'
  <2>1. CASE Probe(p)
    BY <2>1 DEF Probe, Goto, Finish
  <2>2. CASE List(p)
    BY <2>2 DEF List, Goto, Finish
  <2>3. CASE SizeOfLock(p)
    BY <2>3 DEF SizeOfLock, Goto, Finish
  <2>4. CASE OpenLock(p)
    BY <2>4 DEF OpenLock, Goto, Finish
  <2>5. CASE LockTimeout(p)
    BY <2>5 DEF LockTimeout, Goto, Finish
  <2>6. CASE TakeLock(p)
    BY <2>6 DEF TakeLock, Goto, Finish
  <2> QED
    BY <1>2, <2>1, <2>2, <2>3, <2>4, <2>5, <2>6
<1>3. ASSUME NEW p \in Process, WriteByte(p) \/ PreflightAgain(p) \/ ReadContent(p)
      PROVE  HalfWrittenNeverSeen'
  <2>1. CASE WriteByte(p)
    BY <2>1 DEF WriteByte, Goto, Finish
  <2>2. CASE PreflightAgain(p)
    BY <2>2 DEF PreflightAgain, Goto, Finish
  <2>3. CASE ReadContent(p)
    BY <2>3 DEF ReadContent, Goto, Finish
  <2> QED
    BY <1>3, <2>1, <2>2, <2>3
<1>4. ASSUME NEW p \in Process, CreateMarker(p) \/ WriteMarker(p) \/ WriteMarkerFails(p)
      PROVE  HalfWrittenNeverSeen'
  <2>1. CASE CreateMarker(p)
    BY <2>1 DEF CreateMarker, Goto, Finish
  <2>2. CASE WriteMarker(p)
    BY <2>2 DEF WriteMarker, Goto
  <2>3. CASE WriteMarkerFails(p)
    BY <2>3 DEF WriteMarkerFails, Finish
  <2> QED
    BY <1>4, <2>1, <2>2, <2>3
<1>5. ASSUME NEW p \in Process, CheckMarker(p)
      PROVE  HalfWrittenNeverSeen'
  <2>1. \A q \in Process : pc[q] # "write"
    BY <1>5 DEF CheckMarker
  <2>2. marker # "whole" => marker = "partial"
    BY <1>5 DEF CheckMarker, RootInv, Knows, Marker
  <2>3. \A q \in Process : pc'[q] # "write"
    BY <1>5, <2>1 DEF CheckMarker, Goto, Finish
  <2>4. marker = "whole" => UNCHANGED outcome
    BY <1>5 DEF CheckMarker
  <2>5. marker' = marker
    BY <1>5 DEF CheckMarker
  <2> QED
    BY <2>2, <2>3, <2>4, <2>5
<1>6. ASSUME NEW p \in Process, Leave(p) \/ Crash(p)
      PROVE  HalfWrittenNeverSeen'
  BY <1>6 DEF Leave, Crash, Goto, Finish
<1>7. CASE UNCHANGED vars
  BY <1>7 DEF vars
<1> QED
  BY <1>1, <1>2, <1>3, <1>4, <1>5, <1>6, <1>7 DEF Next, Step

LEMMA InvHolds == Spec => []Inv
<1>1. Init => Inv
  BY DEF Init, Inv, TypeInv, HolderInv, RootInv, Knows, HalfWrittenNeverSeen,
         Inside, Outside, Outcome, LockFile, Marker
<1>2. Inv /\ [Next]_vars => Inv'
  BY NextHolder, NextRoot, NextHalfWritten DEF Inv
<1> QED
  BY <1>1, <1>2, PTL DEF Spec

(* However many processes construct caches and take leases, a marker that   *)
(* is refused as invalid was left by a crash or a failed write: nobody is   *)
(* in the middle of writing it.                                             *)
THEOREM RefusedMarkersAreLeftovers == Spec => []HalfWrittenNeverSeen
<1>1. Inv => HalfWrittenNeverSeen
  BY DEF Inv
<1> QED
  BY <1>1, InvHolds, PTL

(* A root with other files, or with a lock file that is not ours, is never  *)
(* adopted by any number of processes, nor is its lock file written.        *)
THEOREM ForeignRootsUntouched == Spec => NeverAdoptsForeign
<1> DEFINE Adopts ==
      (others \/ lock \in {"alien", "big"}) /\ marker = "absent" =>
        /\ marker' = "absent"
        /\ lock \in {"alien", "big"} => lock' = lock
<1>1. Inv /\ [Next]_vars => [Adopts]_vars
  <2> SUFFICES ASSUME Inv, Next PROVE Adopts
    BY DEF Adopts
  <2> USE DEF Inv, TypeInv, RootInv, Knows, root
  <2>1. ASSUME NEW p \in Process, CreateMarker(p) \/ WriteMarker(p)
        PROVE  Adopts
    BY <2>1 DEF CreateMarker, WriteMarker, Goto, Finish
  <2>2. ASSUME NEW p \in Process, OpenLock(p) \/ WriteByte(p)
        PROVE  Adopts
    BY <2>2 DEF OpenLock, WriteByte
  <2>3. ASSUME NEW p \in Process,
               \/ \E m \in {"init", "lease"} : Call(p, m)
               \/ Probe(p) \/ List(p) \/ SizeOfLock(p) \/ TakeLock(p) \/ LockTimeout(p)
               \/ PreflightAgain(p) \/ ReadContent(p) \/ WriteMarkerFails(p)
               \/ CheckMarker(p) \/ Leave(p) \/ Crash(p)
        PROVE  Adopts
    <3>1. UNCHANGED <<lock, marker>>
      BY <2>3 DEF Call, Probe, List, SizeOfLock, TakeLock, LockTimeout, PreflightAgain,
                  ReadContent, WriteMarkerFails, CheckMarker, Leave, Crash
    <3> QED
      BY <3>1
  <2> QED
    BY <2>1, <2>2, <2>3 DEF Next, Step
<1>2. Spec => [][Adopts]_vars
  BY <1>1, InvHolds, PTL DEF Spec
<1> QED
  BY <1>2 DEF NeverAdoptsForeign
=============================================================================
