----------------------- MODULE RuntimeCacheBootstrap ------------------------
(***************************************************************************)
(* How processes come to own one cache root (runtime_blob/cache.py).  The  *)
(* constructor looks at the root before it has any lock, takes the file    *)
(* lock, initializes the lock's byte, looks again, and writes the          *)
(* ownership marker; later leases only check the marker.  The threads of a *)
(* process take its mutex around all of this, so a process is one actor.   *)
(***************************************************************************)
EXTENDS Naturals

CONSTANTS
    Process,
    NoOne,          \* nobody holds the file lock
    MaxCrashes      \* bound of the checked instance

ASSUME BootAssumption == NoOne \notin Process /\ MaxCrashes \in Nat

VARIABLES
    lock,      \* .runtime-cache-lock: its bytes as far as the code tells them apart
    marker,    \* .runtime-cache-owner
    others,    \* the root has entries besides these two
    holder,    \* who holds the file lock
    pc,        \* where each process is in _locked
    mode,      \* "init" from the constructor, "lease" from lease()
    ready,     \* the constructor succeeded in this process
    outcome,   \* how the last call of each process ended: none yet, ok, not owned,
               \* invalid marker, timed out or write error
    crashes

vars == <<lock, marker, others, holder, pc, mode, ready, outcome, crashes>>
root == <<lock, marker, others>>

\* "0" is our byte; "alien" one other byte; "big" more than one byte.
LockFile == {"absent", "empty", "0", "alien", "big"}
Marker == {"absent", "partial", "whole"}

(* The root as configured: new, left by an earlier run, or somebody else's. *)
Init ==
    /\ lock \in LockFile
    /\ marker \in Marker
    /\ others \in BOOLEAN
    /\ marker = "whole" => lock = "0"
    /\ holder = NoOne
    /\ pc = [p \in Process |-> "idle"]
    /\ mode = [p \in Process |-> "init"]
    /\ ready = [p \in Process |-> FALSE]
    /\ outcome = [p \in Process |-> "none"]
    /\ crashes = 0

Goto(p, place) == pc' = [pc EXCEPT ![p] = place]

(* Leave _locked with an outcome, dropping the file lock if it was taken. *)
Finish(p, result) ==
    /\ Goto(p, "idle")
    /\ outcome' = [outcome EXCEPT ![p] = result]
    /\ holder' = IF holder = p THEN NoOne ELSE holder

(* A new cache object, or a lease on one that was constructed. *)
Call(p, m) ==
    /\ pc[p] = "idle"
    /\ m = "lease" => ready[p]
    /\ mode' = [mode EXCEPT ![p] = m]
    /\ outcome' = [outcome EXCEPT ![p] = "none"]
    /\ Goto(p, IF m = "init" THEN "probe" ELSE "open")
    /\ UNCHANGED <<root, holder, ready, crashes>>

(* _preflight_bootstrap before the lock: marker.exists(), then the listing, *)
(* then the size of the lock file, with other processes in between.         *)
Probe(p) ==
    /\ pc[p] = "probe"
    /\ Goto(p, IF marker = "absent" THEN "list" ELSE "open")
    /\ UNCHANGED <<root, holder, mode, ready, outcome, crashes>>

List(p) ==
    /\ pc[p] = "list"
    /\ IF others \/ marker # "absent"
       THEN Finish(p, "not owned")
       ELSE Goto(p, "size") /\ UNCHANGED <<outcome, holder>>
    /\ UNCHANGED <<root, mode, ready, crashes>>

SizeOfLock(p) ==
    /\ pc[p] = "size"
    /\ IF lock = "big"
       THEN Finish(p, "not owned")
       ELSE Goto(p, "open") /\ UNCHANGED <<outcome, holder>>
    /\ UNCHANGED <<root, mode, ready, crashes>>

OpenLock(p) ==
    /\ pc[p] = "open"
    /\ lock' = IF lock = "absent" THEN "empty" ELSE lock
    /\ Goto(p, "flock")
    /\ UNCHANGED <<marker, others, holder, mode, ready, outcome, crashes>>

MutTakeLockUnchecked(p) ==
    /\ pc[p] = "flock"
    /\ holder' = p
    /\ Goto(p, "byte")
    /\ UNCHANGED <<root, mode, ready, outcome, crashes>>

TakeLock(p) ==
    /\ pc[p] = "flock"
    /\ holder = NoOne
    /\ holder' = p
    /\ Goto(p, "byte")
    /\ UNCHANGED <<root, mode, ready, outcome, crashes>>

LockTimeout(p) ==
    /\ pc[p] = "flock"
    /\ holder # NoOne
    /\ Finish(p, "timed out")
    /\ UNCHANGED <<root, mode, ready, crashes>>

(* An empty lock file gets its byte only once it is locked. *)
WriteByte(p) ==
    /\ pc[p] = "byte"
    /\ lock' = IF lock = "empty" THEN "0" ELSE lock
    /\ Goto(p, IF mode[p] = "init" THEN "again" ELSE "check")
    /\ UNCHANGED <<marker, others, holder, mode, ready, outcome, crashes>>

(* _initialize_marker: the same preflight, now under the lock. *)
PreflightAgain(p) ==
    /\ pc[p] = "again"
    /\ IF marker # "absent" THEN Goto(p, "check") /\ UNCHANGED <<outcome, holder>>
       ELSE IF others \/ lock = "big" THEN Finish(p, "not owned")
       ELSE Goto(p, "content") /\ UNCHANGED <<outcome, holder>>
    /\ UNCHANGED <<root, mode, ready, crashes>>

MutContentUnread(p) ==
    /\ pc[p] = "content"
    /\ Goto(p, "create")
    /\ UNCHANGED <<root, holder, mode, ready, outcome, crashes>>

ReadContent(p) ==
    /\ pc[p] = "content"
    /\ IF lock # "0"
       THEN Finish(p, "not owned")
       ELSE Goto(p, "create") /\ UNCHANGED <<outcome, holder>>
    /\ UNCHANGED <<root, mode, ready, crashes>>

(* O_EXCL: the file exists, still empty, before its bytes do. *)
CreateMarker(p) ==
    /\ pc[p] = "create"
    /\ IF marker = "absent"
       THEN marker' = "partial" /\ Goto(p, "write") /\ UNCHANGED <<outcome, holder>>
       ELSE Finish(p, "write error") /\ UNCHANGED marker
    /\ UNCHANGED <<lock, others, mode, ready, crashes>>

WriteMarker(p) ==
    /\ pc[p] = "write"
    /\ marker' = "whole"
    /\ Goto(p, "check")
    /\ UNCHANGED <<lock, others, holder, mode, ready, outcome, crashes>>

(* write, flush or fsync fails: the marker stays as it is. *)
WriteMarkerFails(p) ==
    /\ pc[p] = "write"
    /\ Finish(p, "write error")
    /\ UNCHANGED <<root, mode, ready, crashes>>

(* _check_marker, on every entry: only the exact bytes pass. *)
CheckMarker(p) ==
    /\ pc[p] = "check"
    /\ IF marker = "whole"
       THEN Goto(p, "held") /\ UNCHANGED <<outcome, holder>>
       ELSE Finish(p, "invalid marker")
    /\ UNCHANGED <<root, mode, ready, crashes>>

(* The body under the lock: a lease leaves files in the root. *)
Leave(p) ==
    /\ pc[p] = "held"
    /\ others' = (others \/ mode[p] = "lease")
    /\ ready' = [ready EXCEPT ![p] = TRUE]
    /\ Finish(p, "ok")
    /\ UNCHANGED <<lock, marker, mode, crashes>>

(* A process dies at any point; the system drops its file lock. *)
Crash(p) ==
    /\ crashes < MaxCrashes
    /\ crashes' = crashes + 1
    /\ ready' = [ready EXCEPT ![p] = FALSE]
    /\ Finish(p, "none")
    /\ UNCHANGED <<root, mode>>

Step(p) ==
    \/ Probe(p) \/ List(p) \/ SizeOfLock(p) \/ OpenLock(p) \/ TakeLock(p) \/ LockTimeout(p)
    \/ WriteByte(p) \/ PreflightAgain(p) \/ ReadContent(p) \/ CreateMarker(p)
    \/ WriteMarker(p) \/ WriteMarkerFails(p) \/ CheckMarker(p) \/ Leave(p)

Next == \E p \in Process :
    \/ \E m \in {"init", "lease"} : Call(p, m)
    \/ Step(p)
    \/ Crash(p)

Spec == Init /\ [][Next]_vars

-----------------------------------------------------------------------------
(* "Only an owned root or our exact bootstrap lock may precede              *)
(* initialization": a root with other files, or with a lock file that is    *)
(* not ours, is never adopted and its lock file never written.              *)
NeverAdoptsForeign ==
    [][(others \/ lock \in {"alien", "big"}) /\ marker = "absent" =>
        /\ marker' = "absent"
        /\ lock \in {"alien", "big"} => lock' = lock]_vars

(* Initializers wait for the marker to be written: a marker refused as      *)
(* invalid is one that nobody is about to complete.                         *)
HalfWrittenNeverSeen ==
    (\E p \in Process : outcome[p] = "invalid marker") =>
        marker = "partial" /\ \A q \in Process : pc[q] # "write"

(* "Competing threads/processes wait": a root refused as populated and not  *)
(* owned has no ownership marker, neither before the refusal nor after it.  *)
CompetitorsWait ==
    \A p \in Process : outcome[p] = "not owned" => marker = "absent"
=============================================================================
