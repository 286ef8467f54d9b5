----------------------------- MODULE ArchiveStore -----------------------------
(***************************************************************************)
(* The historical archive on disk (archive/storage.py): immutable          *)
(* revisions of a session's tables, named by what they contain, and a      *)
(* pointer per session.  A writer holds the session's lock; readers hold   *)
(* nothing.  A file written under a temporary name and moved into place is *)
(* absent or whole; a revision is moved in as a directory; a damaged one   *)
(* is first moved aside.                                                   *)
(***************************************************************************)
EXTENDS Naturals, FiniteSets

CONSTANTS Session, Process, Reader, None, Garbled

\* What a revision's name is computed from: where the results came from (the
\* number of a dump, or 0 for the race's own pages) and whether the session
\* has detailed data, which changes its capabilities.
Revision == [source : Nat, detailed : BOOLEAN]

VARIABLES
    revisions,   \* the revisions of a session that are there: whole, or with a bad
                 \* table or manifest
    active,      \* active.json
    slock,       \* the lock of one session
    pc,          \* where a process of the command line is
    write,       \* its write_session: the session, the revision, the copy moved aside
    reader,      \* a request that reads a table
    damages, faults

store == <<revisions, active>>
storeVars == <<store, slock, pc, write, reader, damages, faults>>

There(s) == {r.rev : r \in revisions[s]}
StateOf(s, v) == (CHOOSE r \in revisions[s] : r.rev = v).is
Valid(s, v) == v \in There(s) /\ StateOf(s, v) = "whole"
ManifestReads(s, v) == v \in There(s) /\ StateOf(s, v) # "manifest"
Without(s, v) == {r \in revisions[s] : r.rev # v}
Put(s, v, is) == revisions' = [revisions EXCEPT ![s] = Without(s, v) \cup {[rev |-> v, is |-> is]}]

NoWrite == [on |-> None, rev |-> None, aside |-> None]
NoRead == [at |-> "idle", on |-> None, pointer |-> None]

StoreInit ==
    /\ revisions = [s \in Session |-> {}]
    /\ active = [s \in Session |-> None]
    /\ slock = [s \in Session |-> None]
    /\ write = [p \in Process |-> NoWrite]
    /\ reader = [r \in Reader |-> NoRead]
    /\ damages = 0 /\ faults = 0

-----------------------------------------------------------------------------
(* write_session, from its call to its return. *)
WriteGoes(p, from, to) ==
    /\ pc[p] = from
    /\ pc' = [pc EXCEPT ![p] = to]
    /\ UNCHANGED <<reader, damages, faults>>

MutLockSession(p) ==
    LET s == write[p].on IN
    /\ WriteGoes(p, "lock session", "publish")
    /\ slock[s] = None
    /\ slock' = [slock EXCEPT ![s] = p]
    /\ active' = [active EXCEPT ![s] = write[p].rev]
    /\ UNCHANGED <<revisions, write>>

LockSession(p) ==
    LET s == write[p].on IN
    /\ WriteGoes(p, "lock session", "publish")
    /\ slock[s] = None
    /\ slock' = [slock EXCEPT ![s] = p]
    /\ UNCHANGED <<store, write>>

(* The staged revision is complete; it is moved in, or dropped when the same *)
(* revision is there and valid.                                              *)
Publish(p) ==
    LET s == write[p].on  v == write[p].rev IN
    /\ WriteGoes(p, "publish", "point")
    /\ \/ v \notin There(s) /\ Put(s, v, "whole")
       \/ Valid(s, v) /\ UNCHANGED revisions
    /\ UNCHANGED <<active, slock, write>>

MutMoveAside(p) ==
    LET s == write[p].on  v == write[p].rev IN
    /\ WriteGoes(p, "publish", "point")
    /\ v \in There(s) /\ ~ Valid(s, v)
    /\ UNCHANGED <<store, slock, write>>

(* The revision is there, but damaged: two renames. *)
MoveAside(p) ==
    LET s == write[p].on  v == write[p].rev IN
    /\ WriteGoes(p, "publish", "move in")
    /\ v \in There(s) /\ ~ Valid(s, v)
    /\ write' = [write EXCEPT ![p].aside = StateOf(s, v)]
    /\ revisions' = [revisions EXCEPT ![s] = Without(s, v)]
    /\ UNCHANGED <<active, slock>>

MoveIn(p) ==
    /\ WriteGoes(p, "move in", "point")
    /\ Put(write[p].on, write[p].rev, "whole")
    /\ write' = [write EXCEPT ![p].aside = None]
    /\ UNCHANGED <<active, slock>>

(* Only a pointer that names something else, or cannot be read, is replaced. *)
Point(p) ==
    LET s == write[p].on IN
    /\ WriteGoes(p, "point", "read back")
    /\ active' = [active EXCEPT ![s] = write[p].rev]
    /\ slock' = [slock EXCEPT ![s] = None]
    /\ UNCHANGED <<revisions, write>>

(* Anything raises: what was moved aside goes back, the staging directory is *)
(* removed, the lock is released.                                            *)
WriteFails(p) ==
    LET s == write[p].on IN
    /\ pc[p] \in {"lock session", "publish", "move in", "point"}
    /\ pc' = [pc EXCEPT ![p] = "failed"]
    /\ IF write[p].aside = None
       THEN UNCHANGED revisions
       ELSE Put(s, write[p].rev, write[p].aside)
    /\ write' = [write EXCEPT ![p].aside = None]
    /\ slock' = [slock EXCEPT ![s] = IF @ = p THEN None ELSE @]
    /\ faults' = faults + 1
    /\ UNCHANGED <<active, reader, damages>>

-----------------------------------------------------------------------------
(* load_table: the pointer, the manifest, the table, each read for itself. *)
ReadGoes(r, from, to) ==
    /\ reader[r].at = from
    /\ reader' = [reader EXCEPT ![r] = to]
    /\ UNCHANGED <<store, slock, pc, write, damages, faults>>

Unreadable(r) == [reader[r] EXCEPT !.at = "unreadable"]

ReadPointer(r) ==
    LET v == active[reader[r].on] IN
    ReadGoes(r, "pointer", IF v \in {None, Garbled} THEN Unreadable(r)
                           ELSE [reader[r] EXCEPT !.at = "manifest", !.pointer = v])

ReadManifest(r) ==
    ReadGoes(r, "manifest", IF ManifestReads(reader[r].on, reader[r].pointer)
                            THEN [reader[r] EXCEPT !.at = "table"] ELSE Unreadable(r))

ReadTable(r) ==
    ReadGoes(r, "table", IF Valid(reader[r].on, reader[r].pointer)
                         THEN NoRead ELSE Unreadable(r))

(* The failure is reported. *)
Answered(r) ==
    ReadGoes(r, "unreadable", NoRead)

-----------------------------------------------------------------------------
(* A stored file goes bad: a table, a manifest or the pointer. *)
Damage(s) ==
    /\ damages' = damages + 1
    /\ \/ \E r \in revisions[s], is \in {"tables", "manifest"} :
              r.is = "whole" /\ Put(s, r.rev, is) /\ UNCHANGED active
       \/ active[s] \notin {None, Garbled} /\ active' = [active EXCEPT ![s] = Garbled]
                                         /\ UNCHANGED revisions
    /\ UNCHANGED <<slock, pc, write, reader, faults>>

=============================================================================
