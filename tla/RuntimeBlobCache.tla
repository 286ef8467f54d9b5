-------------------------- MODULE RuntimeBlobCache --------------------------
(***************************************************************************)
(* The disk cache of runtime blobs (runtime_blob/cache.py): threads of     *)
(* several processes lease sets of project files from one cache root.      *)
(* A lease holds two locks for its whole life, the process-wide re-entrant *)
(* mutex and the file lock `.runtime-cache-lock`, so only the holder may   *)
(* verify, evict, download or read.  Processes may run different releases  *)
(* over the same root, crash at any step, and find files damaged.          *)
(***************************************************************************)
EXTENDS Integers, FiniteSets, Sequences, FiniteSetsExt

CONSTANTS
    Thread, Process, ProcOf,   \* threads, and the process each belongs to
    Release, File, Index,      \* files indexed by each release's manifest
    Size,                      \* size_bytes of a file's manifest entry
    MaxBytes, MaxFiles,        \* max_disk_bytes and max_cache_files
    Unknown,                   \* unindexed files there may be at the start
    NoOne,                     \* nobody holds the lock
    MaxNest, MaxCrashes, MaxDamage   \* bounds of the checked instance

ASSUME ConstantsAssumption ==
    /\ ProcOf \in [Thread -> Process]
    /\ Index \in [Release -> SUBSET File]
    /\ Size \in [File -> Nat]
    /\ IsFiniteSet(File)
    /\ NoOne \notin Thread \cup Process
    /\ Unknown \subseteq [files : Nat, bytes : Nat]
    /\ MaxBytes \in Nat /\ MaxFiles \in Nat
    /\ MaxNest \in Nat /\ MaxCrashes \in Nat /\ MaxDamage \in Nat

VARIABLES
    release,   \* the release each process was started with
    disk,      \* each indexed target: absent, intact or damaged
    older,     \* pairs <<f, g>> of targets, f with the smaller mtime
    unknown,   \* count and bytes of the unindexed files, orphaned .part included
    mutex,     \* holder of each process's RLock
    depth,     \* _LockState.depth of each process
    flock,     \* the process holding the file lock
    leased,    \* _LockState.leased: live leases of each file
    stack,     \* the leases each thread holds, innermost last
    pc,        \* where each thread is
    req,       \* the files a running lease() call asks for
    todo,      \* those of req not yet verified
    missing,   \* those of req to download
    part,      \* the .part file a thread is writing, as a set of at most one
    crashes, damages   \* how often a process died and a file went bad

locks == <<mutex, depth, flock>>
call  == <<req, todo, missing, part>>
files == <<disk, older, unknown>>
bounds == <<crashes, damages>>
vars == <<release, files, locks, leased, stack, pc, call, bounds>>

DiskState == {"absent", "intact", "damaged"}
Place == {"body", "mutex", "flock", "inspect", "verify", "reserve", "fetch", "write"}

\* Places inside `with self._locked()`, before the lease is yielded.
Critical == {"inspect", "verify", "reserve", "fetch", "write"}

Proc(t) == ProcOf[t]
Indexed(p) == Index[release[p]]
Holding(t) == stack[t] # <<>> \/ pc[t] \in Critical

-----------------------------------------------------------------------------
(* What _inventory counts: every file under the root. *)

Present == {f \in File : disk[f] # "absent"}
Parts == UNION {part[t] : t \in Thread}
SizeOf(S) == MapThenSumSet(LAMBDA f : Size[f], S)
PartBytes == MapThenSumSet(LAMBDA w : w.bytes, Parts)

Bytes == SizeOf(Present) + PartBytes + unknown.bytes
FileCount == Cardinality(Present) + Cardinality(Parts) + unknown.files

-----------------------------------------------------------------------------
Init ==
    /\ release \in [Process -> Release]
    /\ disk = [f \in File |-> "absent"]
    /\ older = {}
    /\ unknown \in Unknown
    /\ mutex = [p \in Process |-> NoOne]
    /\ depth = [p \in Process |-> 0]
    /\ flock = NoOne
    /\ leased = [p \in Process |-> [f \in File |-> 0]]
    /\ stack = [t \in Thread |-> <<>>]
    /\ pc = [t \in Thread |-> "body"]
    /\ req = [t \in Thread |-> {}]
    /\ todo = [t \in Thread |-> {}]
    /\ missing = [t \in Thread |-> {}]
    /\ part = [t \in Thread |-> {}]
    /\ crashes = 0
    /\ damages = 0

Goto(t, place) == pc' = [pc EXCEPT ![t] = place]

(* The end of a lease() call, granted or not: its local state is gone. *)
EndCall(t) ==
    /\ Goto(t, "body")
    /\ req' = [req EXCEPT ![t] = {}]
    /\ todo' = [todo EXCEPT ![t] = {}]
    /\ missing' = [missing EXCEPT ![t] = {}]
    /\ part' = [part EXCEPT ![t] = {}]

MutLeaveLockAlwaysUnlocks(p) ==
    /\ depth' = [depth EXCEPT ![p] = @ - 1]
    /\ flock' = NoOne
    /\ mutex' = IF depth[p] = 1 THEN [mutex EXCEPT ![p] = NoOne] ELSE mutex

(* The two `finally` clauses of _locked.  The file lock is dropped before   *)
(* the mutex; in between no thread of the process can enter, so one step.   *)
LeaveLock(p) ==
    /\ depth' = [depth EXCEPT ![p] = @ - 1]
    /\ flock' = IF depth[p] = 1 THEN NoOne ELSE flock
    /\ mutex' = IF depth[p] = 1 THEN [mutex EXCEPT ![p] = NoOne] ELSE mutex

(* An exception inside the locked region of lease(): an unfinished .part is *)
(* unlinked, the lock level is left, an enclosing lease stays live.         *)
Raise(t) ==
    /\ LeaveLock(Proc(t))
    /\ EndCall(t)
    /\ UNCHANGED <<release, leased, stack, bounds>>

-----------------------------------------------------------------------------
(* lease(paths) is called, possibly from inside the body of another lease. *)
Request(t, S) ==
    /\ pc[t] = "body"
    /\ Len(stack[t]) < MaxNest
    /\ S # {} /\ S \subseteq Indexed(Proc(t))
    /\ req' = [req EXCEPT ![t] = S]
    /\ Goto(t, "mutex")
    /\ UNCHANGED <<release, files, locks, leased, stack, todo, missing, part, bounds>>

(* mutex.acquire: re-entrant; only the outermost level takes the file lock. *)
AcquireMutex(t) ==
    LET p == Proc(t) IN
    /\ pc[t] = "mutex"
    /\ mutex[p] \in {NoOne, t}
    /\ mutex' = [mutex EXCEPT ![p] = t]
    /\ IF depth[p] = 0
       THEN Goto(t, "flock") /\ UNCHANGED depth
       ELSE Goto(t, "inspect") /\ depth' = [depth EXCEPT ![p] = @ + 1]
    /\ UNCHANGED <<release, files, flock, leased, stack, call, bounds>>

MutNoMutexTimeout(t) == FALSE /\ UNCHANGED vars

MutexTimeout(t) ==
    /\ pc[t] = "mutex"
    /\ mutex[Proc(t)] \notin {NoOne, t}
    /\ EndCall(t)
    /\ UNCHANGED <<release, files, locks, leased, stack, bounds>>

MutAcquireFlockUnchecked(t) ==
    LET p == Proc(t) IN
    /\ pc[t] = "flock"
    /\ flock' = p
    /\ depth' = [depth EXCEPT ![p] = @ + 1]
    /\ Goto(t, "inspect")
    /\ UNCHANGED <<release, files, mutex, leased, stack, call, bounds>>

(* The non-blocking flock is polled until it is granted or time is up. *)
AcquireFlock(t) ==
    LET p == Proc(t) IN
    /\ pc[t] = "flock"
    /\ flock = NoOne
    /\ flock' = p
    /\ depth' = [depth EXCEPT ![p] = @ + 1]
    /\ Goto(t, "inspect")
    /\ UNCHANGED <<release, files, mutex, leased, stack, call, bounds>>

FlockTimeout(t) ==
    /\ pc[t] = "flock"
    /\ flock # NoOne
    /\ mutex' = [mutex EXCEPT ![Proc(t)] = NoOne]
    /\ EndCall(t)
    /\ UNCHANGED <<release, files, depth, flock, leased, stack, bounds>>

(* _inventory: too many files is an error before anything is touched. *)
Inspect(t) ==
    /\ pc[t] = "inspect"
    /\ FileCount <= MaxFiles
    /\ todo' = [todo EXCEPT ![t] = req[t]]
    /\ Goto(t, "verify")
    /\ UNCHANGED <<release, files, locks, leased, stack, req, missing, part, bounds>>

(* The other reasons to fail there, a linked path, a traversal error or the *)
(* directory limit, are not tracked and may happen on any call.             *)
InspectFails(t) ==
    /\ pc[t] = "inspect"
    /\ Raise(t)
    /\ UNCHANGED files

Drop(f) ==
    /\ disk' = [disk EXCEPT ![f] = "absent"]
    /\ older' = {pair \in older : pair[1] # f /\ pair[2] # f}
    /\ UNCHANGED unknown

VerifyIntact(t, f) ==
    /\ pc[t] = "verify" /\ f \in todo[t]
    /\ disk[f] = "intact"
    /\ todo' = [todo EXCEPT ![t] = @ \ {f}]
    /\ UNCHANGED <<release, files, locks, leased, stack, pc, req, missing, part, bounds>>

(* A bad or absent target that nobody leases is removed, then downloaded. *)
VerifyMissing(t, f) ==
    /\ pc[t] = "verify" /\ f \in todo[t]
    /\ disk[f] # "intact"
    /\ leased[Proc(t)][f] = 0
    /\ IF disk[f] = "damaged" THEN Drop(f) ELSE UNCHANGED files
    /\ todo' = [todo EXCEPT ![t] = @ \ {f}]
    /\ missing' = [missing EXCEPT ![t] = @ \cup {f}]
    /\ UNCHANGED <<release, locks, leased, stack, pc, req, part, bounds>>

(* A leased target is never repaired under its reader. *)
VerifyLost(t, f) ==
    /\ pc[t] = "verify" /\ f \in todo[t]
    /\ disk[f] # "intact"
    /\ leased[Proc(t)][f] # 0
    /\ Raise(t)
    /\ UNCHANGED files

AllVerified(t) ==
    /\ pc[t] = "verify" /\ todo[t] = {}
    /\ Goto(t, "reserve")
    /\ UNCHANGED <<release, files, locks, leased, stack, call, bounds>>

-----------------------------------------------------------------------------
(* _reserve: room for the whole request before the first download. *)

MutFitsOneFileOver(t) ==
    /\ Bytes + SizeOf(missing[t]) <= MaxBytes
    /\ FileCount <= MaxFiles

Fits(t) ==
    /\ Bytes + SizeOf(missing[t]) <= MaxBytes
    /\ FileCount + Cardinality(missing[t]) <= MaxFiles

MutEvictableLeased(t) ==
    {f \in Indexed(Proc(t)) : disk[f] # "absent" /\ f \notin req[t]}

Evictable(t) ==
    {f \in Indexed(Proc(t)) :
        disk[f] # "absent" /\ f \notin req[t] /\ leased[Proc(t)][f] = 0}

ReserveFits(t) ==
    /\ pc[t] = "reserve"
    /\ Fits(t)
    /\ Goto(t, "fetch")
    /\ UNCHANGED <<release, files, locks, leased, stack, call, bounds>>

EvictOldest(t) ==
    /\ pc[t] = "reserve"
    /\ ~ Fits(t)
    /\ \E f \in Evictable(t) :
        /\ \A g \in Evictable(t) \ {f} : <<f, g>> \in older
        /\ Drop(f)
    /\ UNCHANGED <<release, locks, leased, stack, pc, call, bounds>>

(* Files evicted before the shortage is certain stay evicted. *)
ReserveFails(t) ==
    /\ pc[t] = "reserve"
    /\ ~ Fits(t)
    /\ Evictable(t) = {}
    /\ Raise(t)
    /\ UNCHANGED files

-----------------------------------------------------------------------------
(* _materialize: stream into a .part file, check it, replace the target. *)
StartPart(t, f) ==
    /\ pc[t] = "fetch" /\ f \in missing[t]
    /\ part' = [part EXCEPT ![t] = {[by |-> t, file |-> f, bytes |-> 0, good |-> TRUE]}]
    /\ Goto(t, "write")
    /\ UNCHANGED <<release, files, locks, leased, stack, req, todo, missing, bounds>>

(* A unit of the stream, right or wrong, that still fits the entry's size. *)
ReceiveChunk(t, good) ==
    /\ pc[t] = "write"
    /\ \E w \in part[t] :
        /\ w.bytes < Size[w.file]
        /\ part' = [part EXCEPT ![t] = {[w EXCEPT !.bytes = @ + 1, !.good = @ /\ good]}]
    /\ UNCHANGED <<release, files, locks, leased, stack, pc, req, todo, missing, bounds>>

MutCompleteUnhashed(w) == w.bytes = Size[w.file]

Complete(w) == w.bytes = Size[w.file] /\ w.good

(* End of stream, size and digest right: os.replace publishes the bytes. *)
Publish(t) ==
    /\ pc[t] = "write"
    /\ \E w \in part[t] :
        /\ Complete(w)
        /\ disk' = [disk EXCEPT ![w.file] = IF w.good THEN "intact" ELSE "damaged"]
        /\ older' = {pair \in older : w.file \notin {pair[1], pair[2]}}
                        \cup (Present \ {w.file}) \X {w.file}
        /\ missing' = [missing EXCEPT ![t] = @ \ {w.file}]
    /\ part' = [part EXCEPT ![t] = {}]
    /\ Goto(t, "fetch")
    /\ UNCHANGED <<release, unknown, locks, leased, stack, req, todo, bounds>>

(* The reader fails, the stream is short, long or wrong, or a file call     *)
(* fails: the .part is unlinked; objects already published stay.            *)
MaterializeFails(t) ==
    /\ pc[t] \in {"fetch", "write"} /\ missing[t] # {}
    /\ Raise(t)
    /\ UNCHANGED files

-----------------------------------------------------------------------------
(* Everything requested is on disk: count the lease and run the body. *)
Grant(t) ==
    /\ pc[t] = "fetch" /\ missing[t] = {}
    /\ leased' = [leased EXCEPT ![Proc(t)] =
                    [f \in File |-> @[f] + (IF f \in req[t] THEN 1 ELSE 0)]]
    /\ stack' = [stack EXCEPT ![t] = Append(@, req[t])]
    /\ EndCall(t)
    /\ UNCHANGED <<release, files, locks, bounds>>

(* The body of the innermost lease ends, normally or by an exception. *)
EndLease(t) ==
    /\ pc[t] = "body" /\ stack[t] # <<>>
    /\ leased' = [leased EXCEPT ![Proc(t)] =
                    [f \in File |->
                        @[f] - (IF f \in stack[t][Len(stack[t])] THEN 1 ELSE 0)]]
    /\ stack' = [stack EXCEPT ![t] = SubSeq(@, 1, Len(@) - 1)]
    /\ LeaveLock(Proc(t))
    /\ UNCHANGED <<release, files, pc, call, bounds>>

-----------------------------------------------------------------------------
(* The environment. *)

(* A process dies, the system drops its file lock, a half-written .part is  *)
(* left behind as an unknown file (the lock holder's, so at most one), and  *)
(* the process starts again, perhaps with another release.                  *)
Crash(p, r) ==
    LET mine == {t \in Thread : Proc(t) = p}
        left == UNION {part[t] : t \in mine}
        clear(fn) == [t \in Thread |-> IF t \in mine THEN {} ELSE fn[t]] IN
    /\ crashes < MaxCrashes
    /\ crashes' = crashes + 1
    /\ release' = [release EXCEPT ![p] = r]
    /\ \/ left = {} /\ UNCHANGED unknown
       \/ \E w \in left : unknown' = [files |-> unknown.files + 1,
                                     bytes |-> unknown.bytes + w.bytes]
    /\ mutex' = [mutex EXCEPT ![p] = NoOne]
    /\ depth' = [depth EXCEPT ![p] = 0]
    /\ flock' = IF flock = p THEN NoOne ELSE flock
    /\ leased' = [leased EXCEPT ![p] = [f \in File |-> 0]]
    /\ stack' = [t \in Thread |-> IF t \in mine THEN <<>> ELSE stack[t]]
    /\ pc' = [t \in Thread |-> IF t \in mine THEN "body" ELSE pc[t]]
    /\ req' = clear(req) /\ todo' = clear(todo)
    /\ missing' = clear(missing) /\ part' = clear(part)
    /\ UNCHANGED <<disk, older, damages>>

(* A published file loses its bytes at any time, keeping size and mtime. *)
Damage(f) ==
    /\ damages < MaxDamage
    /\ damages' = damages + 1
    /\ disk[f] = "intact"
    /\ disk' = [disk EXCEPT ![f] = "damaged"]
    /\ UNCHANGED <<release, older, unknown, locks, leased, stack, pc, call, crashes>>

-----------------------------------------------------------------------------
(* The steps of a lease() call once made; the scheduler runs them. *)
Step(t) ==
    \/ AcquireMutex(t) \/ MutexTimeout(t) \/ AcquireFlock(t) \/ FlockTimeout(t)
    \/ Inspect(t) \/ InspectFails(t)
    \/ \E f \in File : VerifyIntact(t, f) \/ VerifyMissing(t, f) \/ VerifyLost(t, f)
    \/ AllVerified(t)
    \/ ReserveFits(t) \/ EvictOldest(t) \/ ReserveFails(t)
    \/ \E f \in File : StartPart(t, f)
    \/ \E good \in BOOLEAN : ReceiveChunk(t, good)
    \/ Publish(t) \/ MaterializeFails(t) \/ Grant(t)

Next ==
    \/ \E t \in Thread :
        \/ \E S \in SUBSET File : Request(t, S)
        \/ Step(t)
        \/ EndLease(t)
    \/ \E p \in Process, r \in Release : Crash(p, r)
    \/ \E f \in File : Damage(f)

Spec == Init /\ [][Next]_vars

(* Every call in progress is scheduled; a lease body need never end. *)
FairSpec == Spec /\ \A t \in Thread : WF_vars(Step(t))

-----------------------------------------------------------------------------
TypeOK ==
    /\ release \in [Process -> Release]
    /\ disk \in [File -> DiskState]
    /\ older \subseteq File \X File
    /\ unknown \in [files : Nat, bytes : Nat]
    /\ mutex \in [Process -> Thread \cup {NoOne}]
    /\ depth \in [Process -> Nat]
    /\ flock \in Process \cup {NoOne}
    /\ leased \in [Process -> [File -> Nat]]
    /\ stack \in [Thread -> Seq(SUBSET File)]
    /\ pc \in [Thread -> Place]
    /\ req \in [Thread -> SUBSET File]
    /\ todo \in [Thread -> SUBSET File]
    /\ missing \in [Thread -> SUBSET File]
    /\ part \in [Thread -> SUBSET [by : Thread, file : File, bytes : Nat, good : BOOLEAN]]
    /\ crashes \in Nat
    /\ damages \in Nat

(* Lock bookkeeping over every success, error, timeout and crash path: a    *)
(* thread inside a lease or a locked region owns both locks, depth counts   *)
(* its nested levels, and a lock nobody uses is free.                       *)
LocksAccounted ==
    /\ \A t \in Thread : Holding(t) => flock = Proc(t)
    /\ \A t \in Thread : (Holding(t) \/ pc[t] = "flock") <=> mutex[Proc(t)] = t
    /\ \A t \in Thread : mutex[Proc(t)] = t =>
        depth[Proc(t)] =
            IF pc[t] \in Critical THEN Len(stack[t]) + 1 ELSE Len(stack[t])
    /\ \A p \in Process : flock = p <=> depth[p] > 0
    /\ \A p \in Process : mutex[p] = NoOne => depth[p] = 0
    /\ \A p \in Process : mutex[p] # NoOne => Proc(mutex[p]) = p
    /\ \A t \in Thread : pc[t] = "flock" => depth[Proc(t)] = 0

Frames(s, f) == {i \in 1..Len(s) : f \in s[i]}

(* The leased counters that protect files from eviction are exactly the     *)
(* number of live leases on each file, nested ones included.                *)
LeaseCounts ==
    \A p \in Process, f \in File :
        leased[p][f] = IF mutex[p] = NoOne THEN 0
                       ELSE Cardinality(Frames(stack[mutex[p]], f))

(* No two threads, of one process or of two, are ever inside the cache at   *)
(* the same time ("competing threads/processes wait").                      *)
MutualExclusion ==
    \A t, u \in Thread : Holding(t) /\ Holding(u) => t = u

(* What a call has verified or downloaded is still there when the lease is  *)
(* granted: making room for the rest of the request does not evict it.      *)
RequestKept ==
    \A t \in Thread :
        /\ pc[t] \in {"verify", "reserve", "fetch", "write"} =>
            \A f \in req[t] \ (todo[t] \cup missing[t]) : disk[f] # "absent"
        /\ pc[t] \in {"reserve", "fetch", "write"} => todo[t] = {}

(* A file handed to a reader stays in place until the reader is done: no    *)
(* eviction, repair or failed nested call takes it away.                    *)
LeasedPresent ==
    \A t \in Thread : \A i \in 1..Len(stack[t]) : \A f \in stack[t][i] :
        disk[f] # "absent"

(* Bytes reach a target only whole and checked, and never under a reader:   *)
(* the cache itself publishes no damaged file and swaps no leased one.      *)
OnlyCheckedBytes ==
    [][\A f \in File :
        /\ disk[f] = "absent" => disk'[f] # "damaged"
        /\ disk[f] # "intact" /\ disk'[f] = "intact" =>
            \A t \in Thread : \A i \in 1..Len(stack[t]) : f \notin stack[t][i]]_vars

(* No write of the cache, temporary files included, takes the root past its *)
(* byte or file limit.                                                      *)
WritesWithinLimits ==
    [][/\ Bytes' > Bytes => Bytes' <= MaxBytes
       /\ FileCount' > FileCount => FileCount' <= MaxFiles]_vars

(* Every lease() call ends, granted or refused, even if the holder of the   *)
(* locks never lets go.                                                     *)
CallsEnd == \A t \in Thread : pc[t] # "body" ~> pc[t] = "body"
=============================================================================
