------------------------------ MODULE Acquisition ------------------------------
(***************************************************************************)
(* Acquiring the frozen sample of the storage study (run_study of          *)
(* detailed/study_runner.py) and measuring it (detailed/measurement.py,    *)
(* detailed/proofs.py).  A run freezes or reviews the plan, reads the      *)
(* journal, takes the network worker's lock, and for every selected        *)
(* session that has no measurement loads it from FastF1 into an attempt's  *)
(* directory, captures its tables, and publishes the measurement twice: in *)
(* the attempt and as the session's.                                       *)
(*                                                                         *)
(* The journal is read before the lock is taken, so a run may work from    *)
(* one that another run has replaced meanwhile: such a run is stale.  A    *)
(* measurement holds the time its capture took, so no two are equal; it is *)
(* modelled by the number of the capture.                                  *)
(***************************************************************************)
EXTENDS Naturals, Sequences, FiniteSets

CONSTANTS
    Runner,       \* processes that may run the command
    Selected,     \* the selected sessions, in the plan's order
    Tables,       \* native tables of a session
    Missing,         \* no file, no owner
    MaxRuns, MaxTroubles   \* bounds of the checked instance

VARIABLES
    valid,        \* the catalog is ready and the frozen plan agrees with it
    plan,         \* the frozen plan, by its digest; 0 when there is none
    journal,      \* acquisition-journal.json
    attempts,     \* directories, in the order they were made
    preflight,    \* the published measurement of each session
    reports,      \* its session-measurements report
    lock,         \* owner of the network worker lock
    run,          \* what each process remembers
    captures,     \* captures so far
    starts, troubles,
    upset         \* history: what went wrong, by kind

files == <<plan, journal, attempts, preflight, reports>>
acquisitionVars ==
    <<valid, files, lock, run, captures, starts, troubles, upset>>

Chosen == {Selected[i] : i \in DOMAIN Selected}
Entry ==
    [attempt : Nat, measurement : Nat \cup {Missing},
     state : {"created", "loading", "capturing", "captured", "complete", "failed",
              "rate-limited", "permission-denied"}]
Journal == [plan : Nat, of : [Chosen -> Entry \cup {Missing}]]

ASSUME AcquisitionAssumption ==
    /\ Selected \in Seq(Chosen) /\ Tables \in Nat
    /\ Missing \notin Nat \cup Runner \cup Entry \cup Journal

Blank == [s \in Chosen |-> Missing]
Idle == [place |-> "off", at |-> 1, journal |-> Missing, existing |-> {}]

AcquisitionInit ==
    /\ valid = TRUE /\ plan = 0 /\ journal = Missing
    /\ attempts = <<>> /\ preflight = Blank /\ reports = Blank
    /\ lock = Missing /\ run = [r \in Runner |-> Idle]
    /\ captures = 0 /\ starts = 0 /\ troubles = 0
    /\ upset = {}

At(r, place) == run[r].place = place
Here(r) == Selected[run[r].at]
Record(r) == run[r].journal.of[Here(r)]
AttemptOf(r) == Record(r).attempt

Goes(r, place) == run' = [run EXCEPT ![r].place = place]
Quiet == UNCHANGED <<valid, starts, troubles, upset>>
Leaves(r) ==
    /\ run' = [run EXCEPT ![r] = Idle]
    /\ lock' = IF lock = r THEN Missing ELSE lock

-----------------------------------------------------------------------------
(* Before the lock. *)

Begin(r) ==
    /\ At(r, "off") /\ valid /\ starts < MaxRuns
    /\ starts' = starts + 1
    /\ Goes(r, IF plan = 0 THEN "freeze" ELSE "review")
    /\ UNCHANGED <<valid, files, lock, captures, troubles, upset>>

(* publish_sample_plan: the plan names the time it was selected, so the     *)
(* plans of two runs that both found none differ.                           *)
Freeze(r) ==
    /\ At(r, "freeze") /\ valid
    /\ plan' = plan + 1
    /\ upset' = IF plan = 0 THEN upset ELSE upset \cup {"two plans"}
    /\ Goes(r, "review")
    /\ UNCHANGED <<valid, journal, attempts, preflight, reports, lock, captures, starts, troubles>>

(* validated_frozen_plan *)
PlanHolds == valid /\ (journal # Missing => journal.plan = plan)

Fresh == [plan |-> plan, of |-> Blank]

(* The journal, or a new one that is not yet on disk.  To prepare only, a   *)
(* run ends here.                                                           *)
ReadJournal(r) ==
    /\ At(r, "review") /\ PlanHolds
    /\ run' = [run EXCEPT ![r].place = "survey", ![r].journal = IF journal = Missing THEN Fresh ELSE journal]
    /\ Quiet /\ UNCHANGED <<files, lock, captures>>

PrepareOnly(r) ==
    /\ At(r, "review") /\ PlanHolds
    /\ Leaves(r) /\ Quiet /\ UNCHANGED <<files, captures>>

Measured == {s \in Chosen : preflight[s] # Missing}
Sources(m) == {a \in DOMAIN attempts : attempts[a].published = m}

(* _existing: measured sessions, each with its one attempt; then the saved  *)
(* attempts, and the captures among them.                                   *)
Survey(r) ==
    /\ At(r, "survey") /\ PlanHolds
    /\ \A s \in Measured : Cardinality(Sources(preflight[s])) = 1
    /\ run' = [run EXCEPT ![r].place = "lock", ![r].existing = Measured]
    /\ Quiet /\ UNCHANGED <<files, lock, captures>>

Refuse(r) ==
    /\ \/ run[r].place = "freeze" /\ ~ valid
       \/ run[r].place \in {"review", "survey"} /\ ~ PlanHolds
       \/ run[r].place = "survey"
          /\ \E s \in Measured : Cardinality(Sources(preflight[s])) # 1
    /\ Leaves(r) /\ Quiet /\ UNCHANGED <<files, captures>>

(* What the run has read is no longer what is on disk.                      *)
Outdated(r) ==
    \/ run[r].journal # (IF journal = Missing THEN Fresh ELSE journal)
    \/ run[r].existing # Measured

(* network_worker: the lock is not waited for. *)
TakeLock(r) ==
    /\ At(r, "lock") /\ lock = Missing
    /\ lock' = r
    /\ Goes(r, "visit")
    /\ upset' = IF Outdated(r) THEN upset \cup {"overlap"} ELSE upset
    /\ UNCHANGED <<valid, files, captures, starts, troubles>>

LockHeld(r) ==
    /\ At(r, "lock") /\ lock # Missing
    /\ Leaves(r) /\ Quiet /\ UNCHANGED <<files, captures>>

-----------------------------------------------------------------------------
(* Under the lock: one selected session after the other. *)

(* The record of the session the run is at, in its journal and on disk.     *)
Notes(r, place, record) ==
    LET memory == [run[r].journal EXCEPT !.of[Here(r)] = record] IN
    /\ run' = [run EXCEPT ![r].journal = memory, ![r].place = place]
    /\ journal' = memory

Reuse(r) ==
    /\ At(r, "visit") /\ run[r].at <= Len(Selected)
    /\ Here(r) \in run[r].existing
    /\ run' = [run EXCEPT ![r].at = @ + 1]
    /\ Quiet /\ UNCHANGED <<files, lock, captures>>

Open(r) == At(r, "visit") /\ run[r].at <= Len(Selected) /\ Here(r) \notin run[r].existing

MakeAttempt(r) ==
    /\ Open(r) /\ Record(r) = Missing
    /\ attempts' = Append(attempts, [of |-> Here(r), cached |-> FALSE, tables |-> 0, published |-> Missing])
    /\ Goes(r, "name")
    /\ Quiet /\ UNCHANGED <<plan, journal, preflight, reports, lock, captures>>

NameAttempt(r) ==
    /\ At(r, "name")
    /\ Notes(r, "work", [attempt |-> Len(attempts), state |-> "created", measurement |-> Missing])
    /\ Quiet /\ UNCHANGED <<plan, attempts, preflight, reports, lock, captures>>

Continue(r) ==
    /\ Open(r) /\ Record(r) # Missing
    /\ Goes(r, "work")
    /\ Quiet /\ UNCHANGED <<files, lock, captures>>

(* A capture that was journaled is validated again, not loaded again.       *)
ResumeCapture(r) ==
    /\ At(r, "work") /\ Record(r).state = "captured" /\ PlanHolds
    /\ Goes(r, "publish")
    /\ Quiet /\ UNCHANGED <<files, lock, captures>>

MarkLoading(r) ==
    /\ At(r, "work") /\ Record(r).state # "captured"
    /\ Notes(r, "load", [Record(r) EXCEPT !.state = "loading"])
    /\ Quiet /\ UNCHANGED <<plan, attempts, preflight, reports, lock, captures>>

(* The provider's answers go to the attempt's own cache; then the plan, the *)
(* catalog and the session's completion are checked against what was loaded.*)
Load(r) ==
    /\ At(r, "load") /\ PlanHolds
    /\ attempts' = [attempts EXCEPT ![AttemptOf(r)].cached = TRUE]
    /\ Notes(r, "capture", [Record(r) EXCEPT !.state = "capturing"])
    /\ Quiet /\ UNCHANGED <<plan, preflight, reports, lock, captures>>

(* capture_native_tables: a table already there is compared, a new one      *)
(* linked into place whole.                                                 *)
WriteTable(r) ==
    /\ At(r, "capture") /\ attempts[AttemptOf(r)].tables < Tables
    /\ attempts' = [attempts EXCEPT ![AttemptOf(r)].tables = @ + 1]
    /\ Quiet /\ UNCHANGED <<plan, journal, preflight, reports, lock, run, captures>>

MutCaptured(r) ==
    /\ At(r, "capture") /\ attempts[AttemptOf(r)].tables = Tables
    /\ captures' = captures + 1
    /\ run' = [run EXCEPT ![r].place = "publish",
                  ![r].journal.of[Here(r)] =
                      [Record(r) EXCEPT !.state = "captured", !.measurement = captures + 1]]
    /\ Quiet /\ UNCHANGED <<files, lock>>

Captured(r) ==
    /\ At(r, "capture") /\ attempts[AttemptOf(r)].tables = Tables
    /\ captures' = captures + 1
    /\ Notes(r, "publish", [Record(r) EXCEPT !.state = "captured", !.measurement = captures'])
    /\ Quiet /\ UNCHANGED <<plan, attempts, preflight, reports, lock>>

(* _publish_once *)
MutMayPublish(old, new) == TRUE
MayPublish(old, new) == old \in {Missing, new}

PublishAttempt(r) ==
    /\ At(r, "publish") /\ MayPublish(attempts[AttemptOf(r)].published, Record(r).measurement)
    /\ attempts' = [attempts EXCEPT ![AttemptOf(r)].published = Record(r).measurement]
    /\ Goes(r, "release")
    /\ Quiet /\ UNCHANGED <<plan, journal, preflight, reports, lock, captures>>

PublishMeasurement(r) ==
    /\ At(r, "release") /\ MayPublish(preflight[Here(r)], Record(r).measurement)
    /\ preflight' = [preflight EXCEPT ![Here(r)] = Record(r).measurement]
    /\ Goes(r, "complete")
    /\ Quiet /\ UNCHANGED <<plan, journal, attempts, reports, lock, captures>>

(* ... and on to the next session. *)
Passes(r, record) ==
    LET memory == [run[r].journal EXCEPT !.of[Here(r)] = record] IN
    /\ run' = [run EXCEPT ![r].journal = memory, ![r].place = "visit", ![r].at = @ + 1]
    /\ journal' = memory

MarkComplete(r) ==
    /\ At(r, "complete")
    /\ Passes(r, [Record(r) EXCEPT !.state = "complete"])
    /\ Quiet /\ UNCHANGED <<plan, attempts, preflight, reports, lock, captures>>

(* What an existing file or the authority refuses fails this session, and   *)
(* the run goes on to the next.                                             *)
Fails(r) ==
    /\ \/ run[r].place = "load" /\ ~ PlanHolds
       \/ run[r].place = "work" /\ Record(r).state = "captured" /\ ~ PlanHolds
       \/ run[r].place = "publish" /\ ~ MayPublish(attempts[AttemptOf(r)].published, Record(r).measurement)
       \/ run[r].place = "release" /\ ~ MayPublish(preflight[Here(r)], Record(r).measurement)
    /\ Passes(r, [Record(r) EXCEPT !.state = "failed"])
    /\ Quiet /\ UNCHANGED <<plan, attempts, preflight, reports, lock, captures>>

Finish(r) ==
    /\ At(r, "visit") /\ run[r].at > Len(Selected)
    /\ Leaves(r) /\ Quiet /\ UNCHANGED <<files, captures>>

-----------------------------------------------------------------------------
(* Measuring: the report of a session, from its authoritative attempt.      *)
Measure(s) ==
    /\ preflight[s] # Missing /\ reports[s] = Missing
    /\ Cardinality(Sources(preflight[s])) = 1
    /\ reports' = [reports EXCEPT ![s] = preflight[s]]
    /\ Quiet /\ UNCHANGED <<plan, journal, attempts, preflight, lock, run, captures>>

-----------------------------------------------------------------------------
(* What goes wrong. *)

Working == {"work", "load", "capture", "publish", "release", "complete"}

Trouble(kind) ==
    /\ troubles < MaxTroubles /\ troubles' = troubles + 1
    /\ upset' = upset \cup {kind}
    /\ UNCHANGED starts

(* A load, a getter, a serialization or a write fails. *)
Error(r) ==
    /\ run[r].place \in Working /\ Trouble("error")
    /\ Passes(r, [Record(r) EXCEPT !.state = "failed"])
    /\ UNCHANGED <<valid, plan, attempts, preflight, reports, lock, captures>>

(* The rate limit or a denial ends the run with a note in the journal; too  *)
(* little space ends it without one.                                        *)
Stop(r, state) ==
    /\ run[r].place \in Working /\ Trouble("error")
    /\ Leaves(r)
    /\ journal' = [run[r].journal EXCEPT !.of[Here(r)].state = state]
    /\ UNCHANGED <<valid, plan, attempts, preflight, reports, captures>>

CapacityStop(r) ==
    /\ lock = r /\ Trouble("stop")
    /\ Leaves(r)
    /\ UNCHANGED <<valid, files, captures>>

Die(r) ==
    /\ run[r].place # "off" /\ Trouble("death")
    /\ Leaves(r)
    /\ UNCHANGED <<valid, files, captures>>

(* Another command replaces evidence or the catalog, or puts it right.      *)
Change ==
    /\ Trouble("change")
    /\ valid' = ~ valid
    /\ UNCHANGED <<files, lock, run, captures>>

AcquisitionNext ==
    \/ \E r \in Runner :
        \/ Begin(r) \/ Freeze(r) \/ ReadJournal(r) \/ PrepareOnly(r) \/ Survey(r) \/ Refuse(r)
        \/ TakeLock(r) \/ LockHeld(r)
        \/ Reuse(r) \/ MakeAttempt(r) \/ NameAttempt(r) \/ Continue(r) \/ ResumeCapture(r)
        \/ MarkLoading(r) \/ Load(r) \/ WriteTable(r) \/ Captured(r)
        \/ PublishAttempt(r) \/ PublishMeasurement(r) \/ MarkComplete(r) \/ Fails(r) \/ Finish(r)
        \/ Error(r) \/ CapacityStop(r) \/ Die(r)
        \/ \E state \in {"rate-limited", "permission-denied"} : Stop(r, state)
    \/ \E s \in Chosen : Measure(s)
    \/ Change

-----------------------------------------------------------------------------
(* The measurement of a session is that of exactly one attempt, one made    *)
(* for that session with every table in it, however many runs overlapped,   *)
(* died or failed; and a report rests on the measurement that stands.       *)
Authoritative ==
    \A s \in Chosen :
        /\ preflight[s] # Missing =>
            \E a \in DOMAIN attempts :
                /\ Sources(preflight[s]) = {a}
                /\ attempts[a].of = s /\ attempts[a].tables = Tables
        /\ reports[s] # Missing => reports[s] = preflight[s]

(* "Interrupts propagate after the owned attempt is persisted, making the   *)
(* next run resumable": an attempt whose measurement was published, in a    *)
(* session that has none yet, is journaled as captured with it, so that the *)
(* next run publishes it and does not load again.  Nothing but an error, a  *)
(* change of the authority or an overlapping run can bring about otherwise. *)
Resumable ==
    upset \subseteq {"death", "stop"} =>
        \A a \in DOMAIN attempts :
            LET s == attempts[a].of IN
            attempts[a].published # Missing /\ preflight[s] = Missing =>
                /\ journal.of[s].state = "captured"
                /\ journal.of[s].attempt = a /\ journal.of[s].measurement = attempts[a].published
===============================================================================
