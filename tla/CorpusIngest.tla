---------------------------- MODULE CorpusIngest -----------------------------
(***************************************************************************)
(* The ingestion of one session into the production corpus                 *)
(* (detailed/corpus_ingest.py, corpus_publication.py, corpus_cleanup.py):  *)
(* capture, archive the raw source, prove the archive restorable, publish  *)
(* and activate a canonical revision and, when asked, release the copies   *)
(* that have become redundant.  One worker at a time holds the worker      *)
(* lock; it may die at any step and another run takes over from the disk.  *)
(*                                                                         *)
(* Files written under a temporary name and renamed into place are absent  *)
(* or whole.  An attempt, or an offline copy, that no saved record names   *)
(* is read by nobody and is not tracked.                                   *)
(***************************************************************************)
EXTENDS Lifecycle

CONSTANTS
    Entry,       \* versions of the session's inventory entry
    Absent,      \* no native record yet
    MaxCrashes, MaxFaults, MaxDamage, MaxChanges   \* bounds of the checked instance

ASSUME CorpusAssumption ==
    /\ Absent \notin Entry
    /\ MaxCrashes \in Nat /\ MaxFaults \in Nat /\ MaxDamage \in Nat /\ MaxChanges \in Nat

VARIABLES
    frozen,     \* the session was captured by the frozen study
    catalog,    \* its entry in the current inventory
    job,        \* the lifecycle checkpoint
    record,     \* native.json: the entry it was captured for
    dup,        \* the copies the ingest owns, and a frozen study's source
    copy,       \* the .copy file of a frozen bundle being copied
    bundle,     \* the raw bundle in the production store: absent, whole or damaged
    owner, proof,   \* offline ownership and provider restoration receipts
    revision,   \* the canonical revision in the production store
    active,     \* the production pointer names it
    release,    \* release.json
    pc, gate, releasing,   \* the running worker: where, its gate's entry, its flag
    crashes, faults, damages, changes

receipts == <<owner, proof>>
archive == <<copy, bundle, revision>>
durable == <<job, record, dup, archive, receipts, active, release>>
run == <<gate, releasing>>
bounds == <<crashes, faults, damages, changes>>
vars == <<frozen, catalog, durable, pc, run, bounds>>

Targets == <<"source", "restored", "offline", "candidate">>
Copy == {Targets[i] : i \in 1..Len(Targets)}

\* Places inside the try block of _session.
Session == {"open", "download", "loading", "save", "captured", "checked", "pack", "copying", "copied",
            "packed", "raw", "restored", "receipt", "proved", "normalize", "promote",
            "published", "canonical", "validated", "activate", "finish"}

Init ==
    /\ frozen \in BOOLEAN
    /\ catalog \in Entry
    /\ job = NewJob
    /\ record = Absent
    /\ dup = [d \in Copy |-> IF frozen /\ d = "source" THEN "whole" ELSE "absent"]
    /\ copy = "absent" /\ bundle = "absent"
    /\ owner = FALSE /\ proof = FALSE
    /\ revision = "absent"
    /\ active = FALSE
    /\ release = "none"
    /\ pc = "off" /\ gate = catalog /\ releasing = FALSE
    /\ crashes = 0 /\ faults = 0 /\ damages = 0 /\ changes = 0

Authorized == gate = catalog

\* The step of the worker from one place to another.
Go(from, to) == pc = from /\ pc' = to /\ UNCHANGED <<frozen, catalog, run, bounds>>

Advance(checkpoint) == MayAdvance(job, checkpoint) /\ job' = Advanced(job, checkpoint)

AdvanceFrom(before, after) ==
    IF job.checkpoint = before THEN Advance(after) ELSE UNCHANGED job

-----------------------------------------------------------------------------
(* run_corpus: a gate over the current inventory, then lifecycle.resume. *)
Start(flag) ==
    /\ pc = "off"
    /\ pc' = "open"
    /\ gate' = catalog
    /\ releasing' = flag
    /\ job' = Resumed(job)
    /\ UNCHANGED <<frozen, catalog, record, dup, archive, receipts, active, release, bounds>>

(* Nothing captured yet. *)
Download ==
    /\ Go("open", "download")
    /\ record = Absent /\ ~ frozen
    /\ AdvanceFrom("DISCOVERED", "DOWNLOADING")
    /\ UNCHANGED <<record, dup, archive, receipts, active, release>>

(* A new attempt directory, and the request to the provider. *)
Load ==
    /\ Go("download", "loading")
    /\ Authorized
    /\ UNCHANGED durable

(* The provider answered; the record names the attempt once it is complete, *)
(* and for the entry it was asked for, whatever the inventory says by now.  *)
Capture ==
    /\ Go("loading", "captured")
    /\ dup' = [dup EXCEPT !["source"] = "whole"]
    /\ record' = gate
    /\ UNCHANGED <<job, archive, receipts, active, release>>

(* A record saved before, or the frozen study's, that is for this entry. *)
Mine == IF record = Absent THEN frozen ELSE record = gate

MutAdoptUnsaved ==
    /\ Go("open", IF job.checkpoint \in {"DISCOVERED", "DOWNLOADING"} THEN "captured" ELSE "checked")
    /\ Mine
    /\ ~ (job.checkpoint = "COMPLETE" /\ release # "none")
    /\ AdvanceFrom("DISCOVERED", "DOWNLOADING")
    /\ UNCHANGED <<record, dup, archive, receipts, active, release>>

Adopt ==
    /\ Go("open", IF job.checkpoint \in {"DISCOVERED", "DOWNLOADING"} THEN "save" ELSE "checked")
    /\ Mine
    /\ ~ (job.checkpoint = "COMPLETE" /\ release # "none")
    /\ AdvanceFrom("DISCOVERED", "DOWNLOADING")
    /\ UNCHANGED <<record, dup, archive, receipts, active, release>>

SaveRecord ==
    /\ Go("save", "captured")
    /\ record' = gate
    /\ UNCHANGED <<job, dup, archive, receipts, active, release>>

MarkCached ==
    /\ Go("captured", "checked")
    /\ Advance("SOURCE_CACHED")
    /\ UNCHANGED <<record, dup, archive, receipts, active, release>>

(* The captured tables are read back, whatever the checkpoint. *)
ReadTables ==
    /\ Go("checked", IF job.checkpoint = "SOURCE_CACHED" THEN "pack" ELSE "raw")
    /\ dup["source"] = "whole"
    /\ UNCHANGED durable

-----------------------------------------------------------------------------
(* _raw: pack the capture, or copy the frozen study's bundle. *)

Pack ==
    /\ Go("pack", "packed")
    /\ ~ frozen /\ Authorized
    /\ bundle # "damaged"
    /\ bundle' = "whole"
    /\ UNCHANGED <<job, record, dup, copy, revision, receipts, active, release>>

(* The copy grows under a fixed name; a whole one left behind is adopted. *)
StartCopy ==
    /\ Go("pack", "copying")
    /\ frozen /\ Authorized
    /\ bundle = "absent" /\ copy = "absent"
    /\ copy' = "partial"
    /\ UNCHANGED <<job, record, dup, bundle, revision, receipts, active, release>>

FinishCopy ==
    /\ Go("copying", "copied")
    /\ copy' = "whole"
    /\ UNCHANGED <<job, record, dup, bundle, revision, receipts, active, release>>

ReuseCopy ==
    /\ Go("pack", "copied")
    /\ frozen /\ Authorized
    /\ bundle = "absent" /\ copy = "whole"
    /\ UNCHANGED durable

RenameCopy ==
    /\ Go("copied", "packed")
    /\ copy' = "absent" /\ bundle' = "whole"
    /\ UNCHANGED <<job, record, dup, revision, receipts, active, release>>

ReuseBundle ==
    /\ Go("pack", "packed")
    /\ frozen /\ Authorized
    /\ bundle = "whole"
    /\ UNCHANGED durable

MarkPacked ==
    /\ Go("packed", "raw")
    /\ Advance("RAW_EVIDENCE_PUBLISHED")
    /\ UNCHANGED <<record, dup, archive, receipts, active, release>>

-----------------------------------------------------------------------------
(* The archive is validated, restored, and compared with the restoration. *)
Restore ==
    /\ Go("raw", "restored")
    /\ bundle = "whole"
    /\ dup["restored"] = "absent" => Authorized
    /\ dup["restored"] # "torn"
    /\ dup' = [dup EXCEPT !["restored"] = "whole"]
    /\ UNCHANGED <<job, record, archive, receipts, active, release>>

(* A frozen study brings its own proof; otherwise an earlier one is reused. *)
ReuseProof ==
    /\ Go("restored", "proved")
    /\ frozen \/ proof
    /\ UNCHANGED durable

(* An offline working copy is parsed again and registered as owned. *)
RegisterOffline ==
    /\ Go("restored", "receipt")
    /\ ~ frozen /\ ~ proof /\ Authorized
    /\ dup' = [dup EXCEPT !["offline"] = "whole"]
    /\ owner' = TRUE
    /\ UNCHANGED <<job, record, archive, proof, active, release>>

SaveReceipt ==
    /\ Go("receipt", "proved")
    /\ proof' = TRUE
    /\ UNCHANGED <<job, record, dup, archive, owner, active, release>>

StartNormalizing ==
    /\ Go("proved", IF job.checkpoint \in {"RAW_EVIDENCE_PUBLISHED", "NORMALIZING"}
                    THEN "normalize" ELSE "canonical")
    /\ AdvanceFrom("RAW_EVIDENCE_PUBLISHED", "NORMALIZING")
    /\ UNCHANGED <<record, dup, archive, receipts, active, release>>

-----------------------------------------------------------------------------
(* publish_inactive: a candidate of the ingest's own, then a checked copy   *)
(* in production under the same identity.                                   *)
PublishCandidate ==
    /\ Go("normalize", "promote")
    /\ Authorized
    /\ dup' = [dup EXCEPT !["candidate"] = "whole"]
    /\ UNCHANGED <<job, record, archive, receipts, active, release>>

MutPublishActivates ==
    /\ Go("promote", "published")
    /\ Authorized
    /\ revision # "damaged"
    /\ revision' = "whole"
    /\ active' = TRUE
    /\ UNCHANGED <<job, record, dup, copy, bundle, receipts, release>>

PublishRevision ==
    /\ Go("promote", "published")
    /\ Authorized
    /\ revision # "damaged"
    /\ revision' = "whole"
    /\ UNCHANGED <<job, record, dup, copy, bundle, receipts, active, release>>

MarkPublished ==
    /\ Go("published", "canonical")
    /\ Advance("CANONICAL_PUBLISHED")
    /\ UNCHANGED <<record, dup, archive, receipts, active, release>>

ValidateCanonical ==
    /\ Go("canonical", "validated")
    /\ revision = "whole" /\ Authorized
    /\ UNCHANGED durable

MarkValidated ==
    /\ Go("validated", "activate")
    /\ AdvanceFrom("CANONICAL_PUBLISHED", "VALIDATED")
    /\ UNCHANGED <<record, dup, archive, receipts, active, release>>

Activate ==
    /\ Go("activate", "finish")
    /\ active' = TRUE
    /\ UNCHANGED <<job, record, dup, archive, receipts, release>>

MarkComplete ==
    /\ Go("finish", "done")
    /\ AdvanceFrom("VALIDATED", "COMPLETE")
    /\ UNCHANGED <<record, dup, archive, receipts, active, release>>

-----------------------------------------------------------------------------
(* corpus_cleanup: release the copies of a COMPLETE session. *)

Owned == IF frozen THEN {"restored", "candidate"} ELSE Copy
Remaining == {d \in Owned : dup[d] # "absent"}

MutArtifactsCachedCatalog ==
    /\ job.state = "COMPLETE" /\ job.checkpoint = "COMPLETE"
    /\ record = gate
    /\ bundle = "whole" /\ revision = "whole"
    /\ active
    /\ frozen \/ (proof /\ owner)

(* _artifacts: everything a deleted copy could be rebuilt from is there and *)
(* agrees, read again from the disk every time.                             *)
Artifacts ==
    /\ job.state = "COMPLETE" /\ job.checkpoint = "COMPLETE"
    /\ record = catalog
    /\ bundle = "whole" /\ revision = "whole"
    /\ active
    /\ frozen \/ (proof /\ owner)

(* resume_released: a session whose release has begun is not ingested again. *)
ReuseReleased ==
    /\ Go("open", "done")
    /\ record = gate
    /\ job.checkpoint = "COMPLETE" /\ release # "none"
    /\ Artifacts
    /\ release = "RELEASED" => Remaining = {}
    /\ UNCHANGED durable

EndRun == Go("done", "off") /\ ~ releasing /\ UNCHANGED durable

(* release_owned_session: the intent is durable before anything goes. *)
Prepare ==
    /\ Go("done", "discard")
    /\ releasing
    /\ release = "none"
    /\ Artifacts
    /\ \A d \in Owned \cup {"source"} : dup[d] = "whole"
    /\ release' = "PREPARED"
    /\ UNCHANGED <<job, record, dup, archive, receipts, active>>

ResumeRelease ==
    /\ Go("done", "discard")
    /\ releasing
    /\ release # "none"
    /\ Artifacts
    /\ release = "RELEASED" => Remaining = {}
    /\ UNCHANGED durable

\* The position of the next target in the receipt's order.
IsNext(i) ==
    /\ Targets[i] \in Remaining
    /\ \A j \in 1..(i - 1) : Targets[j] \notin Remaining

MutStartDeleteUnchecked ==
    /\ Go("discard", "deleting")
    /\ \E i \in 1..Len(Targets) :
        /\ IsNext(i)
        /\ dup' = [dup EXCEPT ![Targets[i]] = "torn"]
    /\ UNCHANGED <<job, record, archive, receipts, active, release>>

(* The proofs are read again immediately before each removal. *)
StartDelete ==
    /\ Go("discard", "deleting")
    /\ Artifacts
    /\ \E i \in 1..Len(Targets) :
        /\ IsNext(i)
        /\ dup' = [dup EXCEPT ![Targets[i]] = "torn"]
    /\ UNCHANGED <<job, record, archive, receipts, active, release>>

FinishDelete ==
    /\ Go("deleting", "discard")
    /\ \E i \in 1..Len(Targets) :
        /\ IsNext(i)
        /\ dup' = [dup EXCEPT ![Targets[i]] = "absent"]
    /\ UNCHANGED <<job, record, archive, receipts, active, release>>

MarkReleased ==
    /\ Go("discard", "off")
    /\ Artifacts
    /\ Remaining = {}
    /\ release' = "RELEASED"
    /\ UNCHANGED <<job, record, dup, archive, receipts, active>>

-----------------------------------------------------------------------------
(* What stops the worker where a check of the code is not met. *)
Refused ==
    \/ pc = "open" /\ record # Absent /\ record # gate
    \/ pc = "open" /\ job.checkpoint = "COMPLETE" /\ release # "none" /\ ~ Artifacts
    \/ pc \in {"download", "pack", "normalize", "promote", "canonical"} /\ ~ Authorized
    \/ pc = "checked" /\ dup["source"] # "whole"
    \/ pc = "pack" /\ (bundle = "damaged" \/ (bundle = "absent" /\ copy = "partial"))
    \/ pc = "raw" /\ (bundle # "whole" \/ (dup["restored"] = "absent" /\ ~ Authorized))
    \/ pc = "restored" /\ ~ frozen /\ ~ proof /\ ~ Authorized
    \/ pc = "promote" /\ revision = "damaged"
    \/ pc = "canonical" /\ revision # "whole"
    \/ pc = "done" /\ releasing /\ ~ Artifacts
    \/ pc = "discard" /\ ~ Artifacts

(* An exception: inside _session the job is failed unless it is COMPLETE;   *)
(* the release stops as it is.                                              *)
Raise ==
    /\ pc' = "off"
    /\ job' = IF pc \in Session /\ job.state # "COMPLETE" THEN Failed(job) ELSE job
    /\ UNCHANGED <<frozen, catalog, record, dup, archive, receipts, active, release, run,
                   crashes, damages, changes>>

Refuse == pc # "off" /\ Refused /\ Raise /\ UNCHANGED faults

(* The provider, the disk or a guard fails where the code did not choose. *)
Fault ==
    /\ pc # "off"
    /\ faults < MaxFaults
    /\ faults' = faults + 1
    /\ Raise

Crash ==
    /\ pc # "off"
    /\ crashes < MaxCrashes
    /\ crashes' = crashes + 1
    /\ pc' = "off"
    /\ UNCHANGED <<frozen, catalog, durable, run, faults, damages, changes>>

DamageBundle ==
    /\ damages < MaxDamage
    /\ damages' = damages + 1
    /\ bundle = "whole"
    /\ bundle' = "damaged"
    /\ UNCHANGED <<frozen, catalog, job, record, dup, copy, revision, receipts, active, release,
                   pc, run, crashes, faults, changes>>

DamageRevision ==
    /\ damages < MaxDamage
    /\ damages' = damages + 1
    /\ revision = "whole"
    /\ revision' = "damaged"
    /\ UNCHANGED <<frozen, catalog, job, record, dup, copy, bundle, receipts, active, release,
                   pc, run, crashes, faults, changes>>

(* The inventory is reconciled again and the session's entry changes. *)
ChangeCatalog ==
    /\ changes < MaxChanges
    /\ changes' = changes + 1
    /\ catalog' \in Entry \ {catalog}
    /\ UNCHANGED <<frozen, durable, pc, run, crashes, faults, damages>>

-----------------------------------------------------------------------------
Work ==
    \/ Download \/ Load \/ Capture \/ Adopt \/ SaveRecord \/ MarkCached \/ ReadTables
    \/ Pack \/ StartCopy \/ FinishCopy \/ ReuseCopy \/ RenameCopy \/ ReuseBundle \/ MarkPacked
    \/ Restore \/ ReuseProof \/ RegisterOffline \/ SaveReceipt \/ StartNormalizing
    \/ PublishCandidate \/ PublishRevision \/ MarkPublished
    \/ ValidateCanonical \/ MarkValidated \/ Activate \/ MarkComplete
    \/ ReuseReleased \/ EndRun \/ Prepare \/ ResumeRelease
    \/ StartDelete \/ FinishDelete \/ MarkReleased
    \/ Refuse

Next ==
    \/ \E flag \in BOOLEAN : Start(flag)
    \/ Work
    \/ Fault \/ Crash \/ DamageBundle \/ DamageRevision \/ ChangeCatalog

Spec == Init /\ [][Next]_vars

(* The scheduler runs the worker, and the operator keeps running the        *)
(* command, now and then with the release asked for.                        *)
FairSpec == Spec /\ WF_vars(Work) /\ SF_vars(Start(TRUE))

-----------------------------------------------------------------------------
Reached(checkpoint) == Rank(job.checkpoint) >= Rank(checkpoint)

(* A checkpoint promises what the next run takes for granted: whatever      *)
(* crash or failure cut the run short, the files it stands for were         *)
(* published before it; and readers are pointed to a revision only after    *)
(* the job was VALIDATED.                                                   *)
CheckpointBacked ==
    /\ Reached("SOURCE_CACHED") => record # Absent
    /\ Reached("RAW_EVIDENCE_PUBLISHED") => bundle # "absent"
    /\ Reached("NORMALIZING") => frozen \/ (proof /\ owner)
    /\ Reached("CANONICAL_PUBLISHED") => revision # "absent"
    /\ Reached("COMPLETE") => active
    /\ release # "none" => Reached("COMPLETE")
    /\ active => Reached("VALIDATED")

(* A copy is deleted only for the inventory of that moment: an inventory    *)
(* reconciled again, during the very run that deletes, stops the release.   *)
DiscardsOnlyCurrent ==
    [][\A d \in Copy : dup[d] = "whole" /\ dup'[d] = "torn" => record = catalog]_vars

Promise == INSTANCE CorpusPromise WITH
    Copy <- Copy,
    copies <- {d \in Copy : dup[d] = "whole"},
    archive <- IF "absent" \in {bundle, revision} THEN "none"
               ELSE IF "damaged" \in {bundle, revision} THEN "damaged" ELSE "intact",
    served <- active

(* The ingest implements the promise of CorpusPromise: a copy of the        *)
(* session goes only while raw bundle and served revision are both intact.  *)
PromiseKept == Promise!Spec

(* Wherever crashes and faults cut it short, running the command again      *)
(* completes the session and releases its copies; only a half-written copy  *)
(* of a frozen bundle, something damaged, or an entry that has changed      *)
(* needs a person.                                                          *)
Recovers == <>[](release = "RELEASED" \/ copy = "partial" \/ damages + changes > 0)
=============================================================================
