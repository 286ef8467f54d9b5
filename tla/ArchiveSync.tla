------------------------------ MODULE ArchiveSync -----------------------------
(***************************************************************************)
(* Synchronizing the historical archive with its provider                  *)
(* (archive/sync.py, archive/jolpica.py), rebuilding its catalog from what *)
(* is on disk.                                                             *)
(*                                                                         *)
(* Several processes may be started; the lock "archive-sync" lets one work.*)
(* It fetches a dump, completes it with the current season's pages, writes *)
(* every race session by session, a failed one not stopping the others,    *)
(* and then replaces the catalog, the quality report and the sync state.   *)
(***************************************************************************)
EXTENDS ArchiveStore, Sequences, FiniteSetsExt

CONSTANTS
    Order,       \* the sessions by season and round
    Current,     \* the sessions of the current season
    Command,     \* what may be asked for: the years, a session of them, upcoming races too
    Every,       \* the sync state is written after so many races (25)
    MaxRuns, MaxMoves, MaxDamage, MaxTrouble   \* bounds of the instance

ASSUME ArchiveAssumption ==
    /\ IsFiniteSet(Session)
    /\ Current \subseteq Session /\ Every \in Nat \ {0}
    /\ Command \subseteq [range : SUBSET Session, target : Session \cup {None}, upcoming : BOOLEAN]
    /\ \A c \in Command : c.target # None => c.target \in c.range
    /\ Order \in [1..Cardinality(Session) -> Session]
    /\ \A s \in Session : \E i \in DOMAIN Order : Order[i] = s
    /\ \A i, j \in DOMAIN Order : Order[i] = Order[j] => i = j
    /\ None \notin Session \cup Process \cup Revision \cup {"whole", "tables", "manifest"}
    /\ Garbled \notin Revision \cup {None}

VARIABLES
    truth,       \* what has become of each race
    dump,        \* the provider's dump: its number and what it says
    detailed,    \* the sessions that have detailed data here
    slotted,     \* the holder of "archive-sync"
    run,         \* the running command of a process
    catalog,     \* historical-catalog.json, and whether there is one
    report,      \* quality-report.json: the failures it counts
    state,       \* sync-state.json
    runs, crashes

vars == <<storeVars, truth, dump, detailed, slotted, run, catalog, report, state, runs, crashes>>
world == <<truth, dump, detailed>>
files == <<catalog, report, state>>
storeRest == <<store, slock, reader, damages, world, runs, crashes>>

\* What is said of a race: by the provider, or in the catalog.
Status == {"unknown", "scheduled", "cancelled", "raced"}
Event == [status : {"completed", "upcoming", "cancelled"}, sync : {"complete", "failed", "discovered", "skipped"},
          rev : Revision \cup {None}]
Shown(status, sync) == [status |-> status, sync |-> sync, rev |-> None]
Published(v) == [status |-> "completed", sync |-> "complete", rev |-> v]

NoCatalog == [built |-> FALSE, events |-> [s \in {} |-> None]]

\* The locals of _sync.  `src' is what was fetched of a race; `events' what the
\* catalog will say; `since' are the damages suffered before the run.
NoRun == [target |-> None, range |-> {}, upcoming |-> FALSE, rebuild |-> FALSE,
          src |-> [s \in {} |-> None], detailed |-> {}, base |-> NoCatalog, next |-> 1,
          events |-> [s \in {} |-> None], failed |-> {}, since |-> 0]

Init ==
    /\ StoreInit
    /\ pc = [p \in Process |-> "off"]
    /\ truth = [s \in Session |-> IF s \in Current THEN "unknown" ELSE "raced"]
    /\ dump = [no |-> 1, says |-> truth]
    /\ detailed = {}
    /\ slotted = None
    /\ run = [p \in Process |-> NoRun]
    /\ catalog = NoCatalog /\ report = 0 /\ state = "none"
    /\ runs = 0 /\ crashes = 0

Trouble == damages + faults + crashes

Goes(p, from, to) ==
    /\ pc[p] = from
    /\ pc' = [pc EXCEPT ![p] = to]
    /\ UNCHANGED storeRest

-----------------------------------------------------------------------------
(* A command is started, and waits for the lock. *)
Start(p) ==
    /\ pc[p] = "off"
    /\ runs < MaxRuns
    /\ pc' = [pc EXCEPT ![p] = "waiting"]
    /\ runs' = runs + 1
    /\ UNCHANGED <<store, slock, write, reader, damages, faults, world, slotted, run, files, crashes>>

(* What it was started for: a range of years, to repair one session of it, *)
(* or to rebuild the catalog.                                               *)
Begin(p) ==
    \/ /\ pc' = [pc EXCEPT ![p] = "fetching"]
       /\ \E c \in Command :
            run' = [run EXCEPT ![p] = [NoRun EXCEPT !.target = c.target, !.range = c.range,
                                                    !.upcoming = c.upcoming, !.since = damages]]
    \/ /\ pc' = [pc EXCEPT ![p] = "rebuild"]
       /\ run' = [run EXCEPT ![p] = [NoRun EXCEPT !.rebuild = TRUE]]

Take(p) ==
    /\ pc[p] = "waiting"
    /\ slotted = None
    /\ slotted' = p
    /\ Begin(p)
    /\ UNCHANGED <<storeRest, write, faults, files>>

(* Sixty seconds have passed. *)
GiveUp(p) ==
    /\ Goes(p, "waiting", "off")
    /\ slotted # None
    /\ UNCHANGED <<run, write, faults, files, slotted>>

WriteFetching(p) ==
    /\ Goes(p, "fetching", "dump")
    /\ state' = "fetching"
    /\ UNCHANGED <<run, write, faults, catalog, report, slotted>>

-----------------------------------------------------------------------------
(* A race fetched: from the dump, from its own pages, from the schedule. *)
Raced(source) == [is |-> "raced", source |-> source]
Fetched(is) == [is |-> is, source |-> 0]

\* The race sessions of the years asked for, each with its results if it has any.
DumpRaces(range) ==
    [s \in {x \in range : dump.says[x] # "unknown"} |->
        IF dump.says[s] = "raced" THEN Raced(dump.no) ELSE Fetched(dump.says[s])]

FetchDump(p) ==
    /\ Goes(p, "dump", "schedule")
    /\ run' = [run EXCEPT ![p].src = DumpRaces(run[p].range)]
    /\ UNCHANGED <<write, faults, files, slotted>>

\* A race of the current season the dump has no results of is looked up.
Patched(s, said) ==
    IF said.is = "raced" THEN said
    ELSE IF truth[s] = "raced" THEN Raced(0) ELSE said

SeasonSchedule == {s \in Current : truth[s] # "unknown"}
CurrentScheduleRace(s) == Fetched(IF truth[s] = "cancelled" THEN "cancelled" ELSE "scheduled")

FetchSchedule(p) ==
    /\ Goes(p, "schedule", "select")
    /\ LET src == run[p].src
           listed == SeasonSchedule \cap run[p].range
           said(s) == IF s \in DOMAIN src THEN src[s] ELSE CurrentScheduleRace(s)
       IN run' = [run EXCEPT ![p].src =
                    [s \in DOMAIN src \cup listed |-> IF s \in listed THEN Patched(s, said(s)) ELSE src[s]]]
    /\ UNCHANGED <<write, faults, files, slotted>>

DetailedSessions == detailed

(* A repair keeps its race only, over the catalog there is; then it is noted *)
(* which sessions have detailed data.                                        *)
Select(p) ==
    /\ Goes(p, "select", "races")
    /\ run[p].target # None => run[p].target \in DOMAIN run[p].src /\ catalog.built
    /\ LET t == run[p].target IN
       run' = [run EXCEPT ![p].detailed = DetailedSessions,
                          ![p].base = IF t = None THEN NoCatalog ELSE catalog,
                          ![p].src = IF t = None THEN @ ELSE [s \in {t} |-> @[t]]]
    /\ state' = "normalizing"
    /\ UNCHANGED <<write, faults, catalog, report, slotted>>

-----------------------------------------------------------------------------
Here(p) == Order[run[p].next]
More(p) == run[p].next <= Len(Order)

(* Past a race.  After one with results the sync state may say how far the *)
(* run is.                                                                 *)
Passed(p, r) ==
    /\ run' = [run EXCEPT ![p] = [r EXCEPT !.next = @ + 1]]
    /\ UNCHANGED <<faults, catalog, report, slotted>>

Progress(p) ==
    LET index == Cardinality({i \in 1..run[p].next : Order[i] \in DOMAIN run[p].src}) IN
    state' = IF index % Every = 0 THEN "writing" ELSE state

With(r, s, event) ==
    [r EXCEPT !.events = [x \in DOMAIN r.events \cup {s} |-> IF x = s THEN event ELSE r.events[x]]]

(* Not discovered, or upcoming and not asked for. *)
PassOver(p) ==
    /\ Goes(p, "races", "races")
    /\ More(p)
    /\ ~ (Here(p) \in DOMAIN run[p].src /\ (run[p].src[Here(p)].is = "scheduled" => run[p].upcoming))
    /\ Passed(p, run[p])
    /\ UNCHANGED <<write, state>>

ListUnraced(p) ==
    /\ Goes(p, "races", "races")
    /\ More(p) /\ Here(p) \in DOMAIN run[p].src
    /\ LET is == run[p].src[Here(p)].is IN
       \/ is = "cancelled" /\ Passed(p, With(run[p], Here(p), Shown("cancelled", "skipped")))
       \/ is = "scheduled" /\ run[p].upcoming
                           /\ Passed(p, With(run[p], Here(p), Shown("upcoming", "discovered")))
    /\ UNCHANGED <<write, state>>

(* A race with results is evaluated, and handed to write_session. *)
BeginWrite(p) ==
    /\ Goes(p, "races", "lock session")
    /\ More(p) /\ Here(p) \in DOMAIN run[p].src
    /\ LET s == Here(p) IN
       /\ run[p].src[s].is = "raced"
       /\ write' = [write EXCEPT ![p] = [on |-> s, aside |-> None,
                        rev |-> [source |-> run[p].src[s].source, detailed |-> s \in run[p].detailed]]]
    /\ UNCHANGED <<run, faults, files, slotted>>

StoreSteps(p) ==
    /\ LockSession(p) \/ Publish(p) \/ MoveAside(p) \/ MoveIn(p) \/ Point(p)
       \/ (Trouble < MaxTrouble /\ WriteFails(p))
    /\ UNCHANGED <<world, slotted, run, files, runs, crashes>>

(* What was written is read back by its manifest. *)
ReadBack(p) ==
    LET s == write[p].on  v == active[s] IN
    /\ Goes(p, "read back", "races")
    /\ v \notin {None, Garbled} /\ ManifestReads(s, v)
    /\ Passed(p, With(run[p], s, Published(v))) /\ Progress(p)
    /\ write' = [write EXCEPT ![p] = NoWrite]

(* A failure of one race is an event of the catalog, not of the run. *)
FailRace(p) ==
    LET s == write[p].on  v == active[s] IN
    /\ \/ Goes(p, "failed", "races")
       \/ Goes(p, "read back", "races") /\ (v \in {None, Garbled} \/ ~ ManifestReads(s, v))
    /\ Passed(p, [With(run[p], s, Shown("completed", "failed")) EXCEPT !.failed = @ \cup {s}]) /\ Progress(p)
    /\ write' = [write EXCEPT ![p] = NoWrite]

-----------------------------------------------------------------------------
MutMerged(r) == r.events

(* The catalog is replaced: a repair changes its race in the one it read. *)
Merged(r) ==
    IF r.target = None THEN r.events
    ELSE [s \in (DOMAIN r.base.events \ {r.target}) \cup DOMAIN r.events |->
             IF s \in DOMAIN r.events THEN r.events[s] ELSE r.base.events[s]]

SaveCatalog(p) ==
    /\ Goes(p, "races", "report")
    /\ ~ More(p)
    /\ catalog' = [built |-> TRUE, events |-> Merged(run[p])]
    /\ UNCHANGED <<run, write, faults, report, state, slotted>>

SaveReport(p) ==
    /\ Goes(p, "report", IF run[p].rebuild THEN "unlock" ELSE "final")
    /\ report' = Cardinality({s \in DOMAIN catalog.events : catalog.events[s].sync = "failed"})
    /\ UNCHANGED <<run, write, faults, catalog, state, slotted>>

Final(p) ==
    /\ Goes(p, "final", "unlock")
    /\ state' = IF run[p].failed # {} THEN "partial" ELSE "complete"
    /\ UNCHANGED <<run, write, faults, catalog, report, slotted>>

Unlock(p) ==
    /\ Goes(p, "unlock", "off")
    /\ slotted' = None
    /\ run' = [run EXCEPT ![p] = NoRun]
    /\ UNCHANGED <<write, faults, files>>

(* Whatever raises outside write_session ends the run where it stands. *)
Abort(p) ==
    /\ \/ pc[p] \in {"fetching", "dump", "schedule", "select", "report", "final"}
       \/ pc[p] = "races" /\ ~ More(p)
       \/ pc[p] = "rebuild"
    /\ Goes(p, pc[p], "off")
    /\ Trouble < MaxTrouble
    /\ faults' = faults + 1
    /\ slotted' = None
    /\ run' = [run EXCEPT ![p] = NoRun]
    /\ UNCHANGED <<write, files>>

(* A repair of a race nobody knows, or without a catalog, is refused. *)
Refuse(p) ==
    LET t == run[p].target IN
    /\ Goes(p, "select", "off")
    /\ t # None /\ (t \notin DOMAIN run[p].src \/ ~ catalog.built)
    /\ slotted' = None
    /\ run' = [run EXCEPT ![p] = NoRun]
    /\ UNCHANGED <<write, faults, files>>

-----------------------------------------------------------------------------
(* rebuild_catalog: the active manifests, and what was not completed before. *)
Active == {s \in Session : active[s] # None}
Rebuilt ==
    [s \in Active \cup {x \in DOMAIN catalog.events : catalog.events[x].status # "completed"} |->
        IF s \in Active THEN Published(active[s]) ELSE catalog.events[s]]

Rebuild(p) ==
    /\ Goes(p, "rebuild", "report")
    /\ \A s \in Active : active[s] # Garbled /\ ManifestReads(s, active[s])
    /\ catalog' = [built |-> TRUE, events |-> Rebuilt]
    /\ UNCHANGED <<run, write, faults, report, state, slotted>>

RebuildRefused(p) ==
    /\ Goes(p, "rebuild", "off")
    /\ \E s \in Active : active[s] = Garbled \/ ~ ManifestReads(s, active[s])
    /\ slotted' = None
    /\ run' = [run EXCEPT ![p] = NoRun]
    /\ UNCHANGED <<write, faults, files>>

-----------------------------------------------------------------------------
(* The API is asked for a table of a session the catalog lists, and reads it *)
(* through the pointer, whichever revision that names by then.               *)
Open(r) ==
    /\ reader[r].at = "idle"
    /\ \E s \in DOMAIN catalog.events :
         /\ catalog.events[s].rev # None
         /\ reader' = [reader EXCEPT ![r] = [NoRead EXCEPT !.at = "pointer", !.on = s]]
    /\ UNCHANGED <<store, slock, pc, write, damages, faults>>

Request(r) ==
    /\ Open(r) \/ ReadPointer(r) \/ ReadManifest(r) \/ ReadTable(r) \/ Answered(r)
    /\ UNCHANGED <<world, slotted, run, files, runs, crashes>>

-----------------------------------------------------------------------------
(* A process dies anywhere; its locks go with it. *)
Crash(p) ==
    /\ pc[p] # "off"
    /\ Trouble < MaxTrouble
    /\ crashes' = crashes + 1
    /\ pc' = [pc EXCEPT ![p] = "off"]
    /\ slock' = [s \in Session |-> IF slock[s] = p THEN None ELSE slock[s]]
    /\ slotted' = IF slotted = p THEN None ELSE slotted
    /\ write' = [write EXCEPT ![p] = NoWrite]
    /\ run' = [run EXCEPT ![p] = NoRun]
    /\ UNCHANGED <<store, reader, damages, faults, world, files, runs>>

Moves ==
    LET far(is) == CASE is = "unknown" -> 0 [] is = "scheduled" -> 1 [] OTHER -> 2 IN
    Cardinality(detailed) + (dump.no - 1) + FoldSet(LAMBDA s, n : far(truth[s]) + n, 0, Current)

(* A race is announced, run or called off; the provider uploads a new dump; *)
(* detailed data of a session appears.  Nobody sees it before a run fetches, *)
(* so it happens then.                                                       *)
WorldMoves ==
    /\ \E p \in Process : pc[p] \in {"dump", "schedule", "select"}
    /\ Moves < MaxMoves
    /\ UNCHANGED <<storeVars, slotted, run, files, runs, crashes>>
    /\ \/ \E s \in Session, is \in Status :
            /\ <<truth[s], is>> \in {<<"unknown", "scheduled">>, <<"scheduled", "raced">>,
                                     <<"scheduled", "cancelled">>}
            /\ truth' = [truth EXCEPT ![s] = is]
            /\ UNCHANGED <<dump, detailed>>
       \/ /\ dump' = [no |-> dump.no + 1, says |-> truth]
          /\ UNCHANGED <<truth, detailed>>
       \/ \E s \in Session \ detailed :
            /\ truth[s] = "raced"
            /\ detailed' = detailed \cup {s}
            /\ UNCHANGED <<truth, dump>>

Work(p) ==
    \/ Start(p) \/ Take(p) \/ GiveUp(p) \/ WriteFetching(p) \/ FetchDump(p) \/ FetchSchedule(p)
    \/ Select(p) \/ Refuse(p) \/ PassOver(p) \/ ListUnraced(p) \/ BeginWrite(p) \/ StoreSteps(p)
    \/ ReadBack(p) \/ FailRace(p) \/ SaveCatalog(p) \/ SaveReport(p) \/ Final(p) \/ Unlock(p)
    \/ Rebuild(p) \/ RebuildRefused(p) \/ Abort(p) \/ Crash(p)

Next ==
    \/ \E p \in Process : Work(p)
    \/ \E r \in Reader : Request(r)
    \/ \E s \in Session : /\ damages < MaxDamage /\ Trouble < MaxTrouble /\ Damage(s)
                          /\ UNCHANGED <<world, slotted, run, files, runs, crashes>>
    \/ WorldMoves

Spec == Init /\ [][Next]_vars

-----------------------------------------------------------------------------
(* Readers take no lock: while revisions are published, replaced and pointed *)
(* at under them, and writers die in between, a table the catalog lists can  *)
(* always be read, unless a stored file went bad (storage.py:282, 367-388).  *)
ReadersUndisturbed ==
    \A r \in Reader : reader[r].at = "unreadable" => damages > 0

(* A repair of one session leaves every other entry of the catalog as it is, *)
(* whatever other runs do meanwhile (sync.py:469, 664).                      *)
TargetedKeepsOthers ==
    [][\A p \in Process :
         (pc[p] = "races" /\ pc'[p] = "report" /\ run[p].target # None) =>
             /\ DOMAIN catalog.events \ {run[p].target} = DOMAIN catalog'.events \ {run[p].target}
             /\ \A s \in DOMAIN catalog.events \ {run[p].target} :
                   catalog'.events[s] = catalog.events[s]]_vars

(* The state "complete" is the truth: the catalog has every race of the run  *)
(* with the revision of what was fetched, the pointer names it and, unless a *)
(* file went bad during the run, it is whole on disk: earlier damage, and a  *)
(* replacement a crash cut in two, are repaired (sync.py:737).               *)
CompleteIsTrue ==
    [][\A p \in Process :
         (pc[p] = "final" /\ pc'[p] = "unlock" /\ state' = "complete") =>
            \A s \in DOMAIN run[p].src : run[p].src[s].is = "raced" =>
                LET v == catalog.events[s].rev IN
                /\ s \in DOMAIN catalog.events /\ v.source = run[p].src[s].source
                /\ active[s] \in {v, Garbled}
                /\ damages = run[p].since => active[s] = v /\ Valid(s, v)]_vars

=============================================================================
