--------------------------- MODULE AnalyticsEngine ----------------------------
(***************************************************************************)
(* The analytics engine's snapshot of the archive and its cache of answers *)
(* (analytics/engine.py), and the derived store it may load the snapshot   *)
(* from (analytics/storage.py).                                            *)
(*                                                                         *)
(* The API's threads share one engine.  A snapshot is recognized as current*)
(* by the catalog's modification time, or else by its source revision.  It *)
(* is built from the tables race by race, or taken from what the command   *)
(* `analytics rebuild' has published.  A page reads the snapshot several   *)
(* times, and the time and the catalog are read outside the lock, while    *)
(* the archive may be synchronized.                                        *)
(***************************************************************************)
EXTENDS Naturals, Sequences

CONSTANTS
    Races,       \* how many races the catalog lists
    Question,    \* the pages that may be asked for
    Lookups,     \* how often the builder of a page reads the snapshot
    CacheLimit,  \* 64
    Client,      \* the API's worker threads
    Absent,
    MaxSaves, MaxPublished, MaxRebuilds   \* bounds of the instance

ASSUME AnalyticsAssumption ==
    /\ Races \in Nat \ {0} /\ Lookups \in Nat \ {0} /\ CacheLimit \in Nat \ {0}
    /\ Absent \notin Client \cup (Question \X Nat)
    /\ MaxSaves \in Nat /\ MaxPublished \in Nat /\ MaxRebuilds \in Nat

VARIABLES
    tables,      \* of each race, how often its tables were published
    index,       \* historical-catalog.json: its source revision, and its mtime
    derived,     \* .downforce/analytics: the manifest's revision, the tables it was built from
    snapshot,    \* _snapshot
    stamp,       \* _catalog_mtime_ns
    answers,     \* _cache, the least recently used first
    held,        \* the holder of _lock during a build
    call,        \* a request
    command,     \* the command `analytics rebuild'
    pending,     \* tables were published since the catalog was saved,
    kept,        \*   a save that followed kept the revision,
    returned,    \*   or brought an earlier one back (none of them in the code)
    rebuilds

archiveSide == <<tables, index, pending, kept, returned>>
engineSide == <<snapshot, stamp, answers, held>>
commandSide == <<derived, command, rebuilds>>
analyticsVars == <<archiveSide, engineSide, commandSide, call>>

NoCall == [at |-> "idle", page |-> Absent, key |-> Absent, stat |-> 0, rev |-> 0,
           manifest |-> Absent, seen |-> <<>>, parts |-> <<>>, calm |-> FALSE]
NoCommand == [at |-> "off", rev |-> 0, seen |-> <<>>, aside |-> Absent]
Built(rev, seen) == [rev |-> rev, seen |-> seen]

AnalyticsInit ==
    /\ tables = [i \in 1..Races |-> 0]
    /\ index = [rev |-> 1, no |-> 1]
    /\ derived = Absent
    /\ snapshot = Absent /\ stamp = 0 /\ answers = <<>> /\ held = Absent
    /\ call = [c \in Client |-> NoCall]
    /\ command = NoCommand
    /\ pending = FALSE /\ kept = FALSE /\ returned = FALSE
    /\ rebuilds = 0

-----------------------------------------------------------------------------
(* The archive: a synchronization publishes tables, and saves the catalog,   *)
(* whose revision is that of the provider's dump and pages: a new one, the   *)
(* same one, or, after a repair of one race, one that was there before.      *)
Disturbed == call' = [c \in Client |-> [call[c] EXCEPT !.calm = FALSE]]

PublishTables(i) ==
    /\ tables[i] < MaxPublished
    /\ tables' = [tables EXCEPT ![i] = @ + 1]
    /\ pending' = TRUE
    /\ Disturbed
    /\ UNCHANGED <<index, kept, returned, engineSide, commandSide>>

SaveCatalog(rev) ==
    /\ index.no < MaxSaves
    /\ index' = [rev |-> rev, no |-> index.no + 1]
    /\ pending' = FALSE
    /\ kept' = (kept \/ (pending /\ rev = index.rev))
    /\ returned' = (returned \/ rev < index.rev)
    /\ Disturbed
    /\ UNCHANGED <<tables, engineSide, commandSide>>

-----------------------------------------------------------------------------
(* A request, at each of its reads of the snapshot. *)
Moves(c, from, to) ==
    /\ call[c].at = from
    /\ call' = [call EXCEPT ![c].at = to]

\* A thread takes the next request when it has answered the last.
Request(c) ==
    /\ call[c].at \in {"idle", "answered"}
    /\ \E p \in Question :
         call' = [call EXCEPT ![c] = [NoCall EXCEPT !.at = "stat", !.page = p, !.calm = ~ pending]]
    /\ UNCHANGED <<archiveSide, engineSide, commandSide>>

Stat(c) ==
    /\ call[c].at = "stat"
    /\ call' = [call EXCEPT ![c].at = "check", ![c].stat = index.no]
    /\ UNCHANGED <<archiveSide, engineSide, commandSide>>

\* The first snapshot of a request names its answer, the others are parts of it.
Returns(c, s) ==
    LET r == [call[c] EXCEPT !.stat = 0, !.rev = 0, !.manifest = Absent, !.seen = <<>>]
        last == Len(r.parts) + 1 = Lookups
    IN call' = [call EXCEPT ![c] =
         IF r.key = Absent
         THEN [r EXCEPT !.at = "lookup", !.key = <<r.page, s.rev>>]
         ELSE [r EXCEPT !.at = IF last THEN "put" ELSE "stat", !.parts = Append(@, s)]]

Check(c) ==
    /\ held = Absent
    /\ IF snapshot # Absent /\ stamp = call[c].stat
       THEN call[c].at = "check" /\ Returns(c, snapshot)
       ELSE Moves(c, "check", "load")
    /\ UNCHANGED <<archiveSide, engineSide, commandSide>>

LoadCatalog(c) ==
    /\ call[c].at = "load"
    /\ call' = [call EXCEPT ![c].at = "enter", ![c].rev = index.rev]
    /\ UNCHANGED <<archiveSide, engineSide, commandSide>>

Enter(c) ==
    /\ call[c].at = "enter"
    /\ held = Absent
    /\ IF snapshot # Absent /\ snapshot.rev = call[c].rev
       THEN stamp' = call[c].stat /\ Returns(c, snapshot) /\ UNCHANGED held
       ELSE held' = c /\ Moves(c, "enter", "manifest") /\ UNCHANGED stamp
    /\ UNCHANGED <<archiveSide, snapshot, answers, commandSide>>

\* AnalyticsDerivedStore.load: the manifest, and then the file it describes.
ReadManifest(c) ==
    /\ call[c].at = "manifest"
    /\ call' = [call EXCEPT ![c].at =
                  IF derived # Absent /\ derived.rev = call[c].rev THEN "file" ELSE "build",
                            ![c].manifest = derived]
    /\ UNCHANGED <<archiveSide, engineSide, commandSide>>

MutInstall(c, seen) ==
    LET s == Built(call[c].rev, seen)
    IN /\ snapshot' = s
       /\ stamp' = index.no
       /\ answers' = <<>>
       /\ held' = Absent
       /\ Returns(c, s)
Install(c, seen) ==
    LET s == Built(call[c].rev, seen)
    IN /\ snapshot' = s
       /\ stamp' = call[c].stat
       /\ answers' = <<>>
       /\ held' = Absent
       /\ Returns(c, s)

\* A file that is not the manifest's, or is not there, is no snapshot.
ReadFile(c) ==
    /\ call[c].at = "file"
    /\ IF derived # Absent /\ derived.seen = call[c].manifest.seen
       THEN Install(c, derived.seen)
       ELSE Moves(c, "file", "build") /\ UNCHANGED engineSide
    /\ UNCHANGED <<archiveSide, commandSide>>

BuildRace(c) ==
    LET seen == Append(call[c].seen, tables[Len(call[c].seen) + 1])
    IN /\ call[c].at = "build"
       /\ IF Len(seen) = Races
          THEN Install(c, seen)
          ELSE call' = [call EXCEPT ![c].seen = seen] /\ UNCHANGED engineSide
       /\ UNCHANGED <<archiveSide, commandSide>>

(* Tables that cannot be read, as while a revision is replaced, are an error. *)
BuildFails(c) ==
    /\ call[c].at = "build"
    /\ call' = [call EXCEPT ![c] = NoCall]
    /\ held' = Absent
    /\ UNCHANGED <<archiveSide, snapshot, stamp, answers, commandSide>>

-----------------------------------------------------------------------------
(* The cache. *)
At(key) == {i \in 1..Len(answers) : answers[i].key = key}
Without(i) == SubSeq(answers, 1, i - 1) \o SubSeq(answers, i + 1, Len(answers))
Others(key) == IF At(key) = {} THEN answers ELSE Without(CHOOSE i \in At(key) : TRUE)
MostRecent(key, parts) == Append(Others(key), [key |-> key, parts |-> parts])
Trimmed(q) == IF Len(q) > CacheLimit THEN SubSeq(q, Len(q) - CacheLimit + 1, Len(q)) ELSE q

Answered(c, parts) == [NoCall EXCEPT !.at = "answered", !.parts = parts, !.calm = call[c].calm]

Lookup(c) ==
    /\ call[c].at = "lookup"
    /\ held = Absent
    /\ IF At(call[c].key) = {}
       THEN Moves(c, "lookup", "stat") /\ UNCHANGED answers
       ELSE \E i \in At(call[c].key) :
              /\ answers' = MostRecent(call[c].key, answers[i].parts)
              /\ call' = [call EXCEPT ![c] = Answered(c, answers[i].parts)]
    /\ UNCHANGED <<archiveSide, snapshot, stamp, held, commandSide>>

PutAnswer(c) ==
    /\ held = Absent
    /\ call[c].at = "put"
    /\ call' = [call EXCEPT ![c] = Answered(c, call[c].parts)]
    /\ answers' = Trimmed(MostRecent(call[c].key, call[c].parts))
    /\ UNCHANGED <<archiveSide, snapshot, stamp, held, commandSide>>

(* The API is stopped, and started again. *)
RestartAPI ==
    /\ snapshot # Absent
    /\ snapshot' = Absent /\ stamp' = 0 /\ answers' = <<>> /\ held' = Absent
    /\ call' = [c \in Client |-> NoCall]
    /\ UNCHANGED <<archiveSide, commandSide>>

-----------------------------------------------------------------------------
(* `analytics rebuild', a process of its own: it builds a snapshot whatever  *)
(* there is, and puts it in the place of the published one in two renames.   *)
Commands(to) ==
    /\ command' = to
    /\ UNCHANGED <<archiveSide, engineSide, call>>

Rebuild ==
    /\ command.at = "off"
    /\ rebuilds < MaxRebuilds
    /\ rebuilds' = rebuilds + 1
    /\ Commands([NoCommand EXCEPT !.at = "read", !.rev = index.rev])
    /\ UNCHANGED derived

RebuildRace ==
    LET seen == Append(command.seen, tables[Len(command.seen) + 1])
    IN /\ command.at = "read"
       /\ Commands([command EXCEPT !.seen = seen, !.at = IF Len(seen) = Races THEN "publish" ELSE "read"])
       /\ UNCHANGED <<derived, rebuilds>>

MoveAside ==
    /\ command.at = "publish" /\ derived # Absent
    /\ derived' = Absent
    /\ Commands([command EXCEPT !.at = "move", !.aside = derived])
    /\ UNCHANGED rebuilds

MoveIn ==
    /\ \/ command.at = "publish" /\ derived = Absent
       \/ command.at = "move"
    /\ derived' = Built(command.rev, command.seen)
    /\ Commands(NoCommand)
    /\ UNCHANGED rebuilds

(* The second rename fails: what was moved aside is put back. *)
MoveInFails ==
    /\ command.at = "move"
    /\ derived' = command.aside
    /\ Commands(NoCommand)
    /\ UNCHANGED rebuilds

RebuildDies ==
    /\ command.at # "off"
    /\ Commands(NoCommand)
    /\ UNCHANGED <<derived, rebuilds>>

-----------------------------------------------------------------------------
ClientStep(c) ==
    \/ Request(c) \/ Stat(c) \/ Check(c) \/ LoadCatalog(c) \/ Enter(c)
    \/ ReadManifest(c) \/ ReadFile(c) \/ BuildRace(c) \/ BuildFails(c)
    \/ Lookup(c) \/ PutAnswer(c)

AnalyticsNext ==
    \/ \E i \in 1..Races : PublishTables(i)
    \/ \E rev \in 1..(index.no + 1) : SaveCatalog(rev)
    \/ \E c \in Client : ClientStep(c)
    \/ RestartAPI
    \/ Rebuild \/ RebuildRace \/ MoveAside \/ MoveIn \/ MoveInFails \/ RebuildDies

AnalyticsSpec == AnalyticsInit /\ [][AnalyticsNext]_analyticsVars

-----------------------------------------------------------------------------
(* A request that no publication and no save of the catalog overlaps is      *)
(* answered from one snapshot throughout, that of the catalog and the tables *)
(* that are there, whoever filled the cache, built the snapshot or published *)
(* it, and from whatever they had read before.  The revision must stand for  *)
(* the tables: it was neither kept while they changed nor has it come back.  *)
FreshAnswers ==
    \A c \in Client :
      (call[c].at = "answered" /\ call[c].calm /\ ~ kept /\ ~ returned) =>
        \A i \in DOMAIN call[c].parts : call[c].parts[i] = Built(index.rev, tables)
===============================================================================
