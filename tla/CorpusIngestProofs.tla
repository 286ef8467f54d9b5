-------------------------- MODULE CorpusIngestProofs ---------------------------
(***************************************************************************)
(* Proofs about CorpusIngest: what a checkpoint stands for is on the disk, *)
(* copies go only for the inventory of the moment, and the ingest keeps    *)
(* the promise of CorpusPromise.                                           *)
(***************************************************************************)
EXTENDS CorpusIngest, TLAPS

Places == Session \cup {"off", "done", "discard", "deleting"}
Artifact == {"absent", "whole", "damaged"}

Types ==
    /\ frozen \in BOOLEAN /\ catalog \in Entry /\ gate \in Entry /\ releasing \in BOOLEAN
    /\ job \in Job
    /\ record \in Entry \cup {Absent}
    /\ dup \in [Copy -> {"absent", "whole", "torn"}]
    /\ copy \in {"absent", "partial", "whole"}
    /\ bundle \in Artifact /\ revision \in Artifact
    /\ owner \in BOOLEAN /\ proof \in BOOLEAN /\ active \in BOOLEAN
    /\ release \in {"none", "PREPARED", "RELEASED"}
    /\ pc \in Places

\* The checkpoints from one on.
FromValidated == {"VALIDATED", "CACHE_RELEASED", "COMPLETE"}
FromCanonical == FromValidated \cup {"CANONICAL_PUBLISHED"}
FromNormalizing == FromCanonical \cup {"NORMALIZING"}
FromRaw == FromNormalizing \cup {"RAW_EVIDENCE_PUBLISHED"}
FromCached == FromRaw \cup {"SOURCE_CACHED"}

(* CheckpointBacked, with the ranks resolved. *)
Backed ==
    /\ job.checkpoint \in FromCached => record # Absent
    /\ job.checkpoint \in FromRaw => bundle # "absent"
    /\ job.checkpoint \in FromNormalizing => frozen \/ (proof /\ owner)
    /\ job.checkpoint \in FromCanonical => revision # "absent"
    /\ job.checkpoint = "COMPLETE" => active
    /\ release # "none" => job.checkpoint = "COMPLETE"
    /\ active => job.checkpoint \in FromValidated

(* What the worker relies on at each place, from its earlier steps. *)
Knows ==
    /\ proof => owner
    /\ pc = "captured" => record # Absent
    /\ pc \in {"checked", "pack", "copying", "copied", "packed"} => job.checkpoint \in FromCached
    /\ pc \in {"copying", "copied"} => bundle = "absent"
    /\ pc = "packed" => bundle # "absent"
    /\ pc \in {"raw", "restored", "receipt", "proved"} => job.checkpoint \in FromRaw
    /\ pc = "receipt" => owner
    /\ pc = "proved" => frozen \/ proof
    /\ pc = "published" => revision # "absent"
    /\ pc \in {"canonical", "validated"} => job.checkpoint \in FromCanonical
    /\ pc \in {"activate", "finish"} => job.checkpoint \in FromValidated
    /\ pc = "finish" => active
    /\ pc = "deleting" => \A i \in 1..Len(Targets) : IsNext(i) => dup[Targets[i]] = "torn"

IInv == Types /\ Backed /\ Knows

-----------------------------------------------------------------------------
(* The checkpoints: their ranks are their places in Order. *)
LEMMA RankOf == \A i \in 1..9 : Rank(Order[i]) = i
<1>1. Len(Order) = 9
  BY DEF Order
<1>2. ASSUME NEW i \in 1..9, NEW j \in 1..9, Order[i] = Order[j]
      PROVE  i = j
  BY <1>2 DEF Order
<1>3. ASSUME NEW i \in 1..9
      PROVE  (CHOOSE j \in 1..9 : Order[j] = Order[i]) = i
  BY <1>2
<1> QED BY <1>1, <1>3 DEF Rank

LEMMA Ranks ==
    /\ Rank("DISCOVERED") = 1 /\ Rank("DOWNLOADING") = 2 /\ Rank("SOURCE_CACHED") = 3
    /\ Rank("RAW_EVIDENCE_PUBLISHED") = 4 /\ Rank("NORMALIZING") = 5
    /\ Rank("CANONICAL_PUBLISHED") = 6 /\ Rank("VALIDATED") = 7
    /\ Rank("CACHE_RELEASED") = 8 /\ Rank("COMPLETE") = 9
  BY RankOf DEF Order

LEMMA Checkpoints ==
    Checkpoint = {"DISCOVERED", "DOWNLOADING"} \cup FromCached
<1>1. Len(Order) = 9
  BY DEF Order
<1> QED BY <1>1 DEF Checkpoint, Order, FromCached, FromRaw, FromNormalizing, FromCanonical, FromValidated

(* A checkpoint is reached from the one before it, and from no other. *)
LEMMA OneFurther ==
    ASSUME NEW j \in Job, NEW c, MayAdvance(j, c)
    PROVE  /\ c = "SOURCE_CACHED" => j.checkpoint = "DOWNLOADING"
           /\ c = "RAW_EVIDENCE_PUBLISHED" => j.checkpoint = "SOURCE_CACHED"
           /\ c = "CANONICAL_PUBLISHED" => j.checkpoint = "NORMALIZING"
  BY Ranks, Checkpoints DEF MayAdvance, Job, FromCached, FromRaw, FromNormalizing, FromCanonical, FromValidated

LEMMA AdvanceMoves ==
    ASSUME Types, NEW c \in Checkpoint, Advance(c)
    PROVE  /\ job' \in Job /\ job'.checkpoint = c
           /\ c = "SOURCE_CACHED" => job.checkpoint = "DOWNLOADING"
           /\ c = "RAW_EVIDENCE_PUBLISHED" => job.checkpoint = "SOURCE_CACHED"
           /\ c = "CANONICAL_PUBLISHED" => job.checkpoint = "NORMALIZING"
<1>1. MayAdvance(job, c) /\ job' = Advanced(job, c) /\ job \in Job
  BY DEF Advance, Types
<1>2. job' \in Job /\ job'.checkpoint = c
  BY <1>1 DEF Advanced, Job
<1> QED BY <1>1, <1>2, OneFurther

LEMMA AdvanceFromMoves ==
    ASSUME Types, NEW b, NEW c \in Checkpoint, AdvanceFrom(b, c)
    PROVE  /\ job' \in Job
           /\ job'.checkpoint = IF job.checkpoint = b THEN c ELSE job.checkpoint
<1>1. CASE job.checkpoint = b
  BY <1>1, AdvanceMoves DEF AdvanceFrom
<1>2. CASE job.checkpoint # b
  BY <1>2 DEF AdvanceFrom, Types
<1> QED BY <1>1, <1>2

LEMMA BackedIsCheckpointBacked ==
    ASSUME Types PROVE Backed <=> CheckpointBacked
  BY Ranks, Checkpoints DEF Types, Job, Backed, CheckpointBacked, Reached,
     FromCached, FromRaw, FromNormalizing, FromCanonical, FromValidated

(* The copies: the next one to go is one, and one of Copy. *)
LEMMA FourTargets ==
    /\ Len(Targets) = 4 /\ Copy = {"source", "restored", "offline", "candidate"}
    /\ \A i \in 1..4 : Targets[i] \in Copy
    /\ \A i, j \in 1..4 : Targets[i] = Targets[j] => i = j
<1>1. Len(Targets) = 4
  BY DEF Targets
<1> QED BY <1>1 DEF Copy, Targets

LEMMA OneIsNext ==
    ASSUME NEW i \in 1..4, NEW j \in 1..4, IsNext(i), IsNext(j)
    PROVE  i = j
  BY DEF IsNext

-----------------------------------------------------------------------------
LEMMA InitIInv == Init => IInv
<1> SUFFICES ASSUME Init PROVE IInv
  OBVIOUS
<1>1. job.checkpoint = "DISCOVERED" /\ job \in Job
  BY Checkpoints DEF Init, NewJob, Job
<1>2. Types
  BY <1>1 DEF Init, Types, Artifact, Places
<1>3. Backed
  BY <1>1 DEF Init, Backed, FromCached, FromRaw, FromNormalizing, FromCanonical, FromValidated
<1>4. Knows
  BY DEF Init, Knows
<1> QED BY <1>2, <1>3, <1>4 DEF IInv

(* The steps of a run, first those that leave the job record alone or take  *)
(* it one checkpoint further.                                               *)
LEMMA NextIInv == IInv /\ [Next]_vars => IInv'
<1> SUFFICES ASSUME IInv, [Next]_vars PROVE IInv'
  OBVIOUS
<1> USE CorpusAssumption
    DEF IInv, Types, Artifact, Places, Session, durable, archive, receipts, run, bounds, Go
<1> USE DEF Backed, FromCached, FromRaw, FromNormalizing, FromCanonical, FromValidated
<1>1. CASE Download
  <2>1. AdvanceFrom("DISCOVERED", "DOWNLOADING") /\ "DOWNLOADING" \in Checkpoint
    BY <1>1, Checkpoints DEF Download
  <2>2. /\ job' \in Job
        /\ job'.checkpoint = IF job.checkpoint = "DISCOVERED" THEN "DOWNLOADING" ELSE job.checkpoint
    BY <2>1, AdvanceFromMoves
  <2> QED BY <1>1, <2>2 DEF Download, Knows
<1>2. CASE Load
  BY <1>2 DEF Load, Knows
<1>3. CASE Capture
  BY <1>3, FourTargets DEF Capture, Knows
<1>4. CASE Adopt
  <2>1. AdvanceFrom("DISCOVERED", "DOWNLOADING") /\ "DOWNLOADING" \in Checkpoint
    BY <1>4, Checkpoints DEF Adopt
  <2>2. /\ job' \in Job
        /\ job'.checkpoint = IF job.checkpoint = "DISCOVERED" THEN "DOWNLOADING" ELSE job.checkpoint
    BY <2>1, AdvanceFromMoves
  <2>3. job.checkpoint \in {"DISCOVERED", "DOWNLOADING"} \/ job.checkpoint \in FromCached
    BY Checkpoints DEF Job
  <2>4. Backed'
    BY <1>4, <2>2 DEF Adopt
  <2>5. Types'
    BY <1>4, <2>2 DEF Adopt
  <2>6. Knows'
    BY <1>4, <2>2, <2>3 DEF Adopt, Knows
  <2> QED BY <2>4, <2>5, <2>6
<1>5. CASE SaveRecord
  BY <1>5 DEF SaveRecord, Knows
<1>6. CASE MarkCached
  <2>1. Advance("SOURCE_CACHED") /\ "SOURCE_CACHED" \in Checkpoint
    BY <1>6, Checkpoints DEF MarkCached
  <2>2. job' \in Job /\ job'.checkpoint = "SOURCE_CACHED" /\ job.checkpoint = "DOWNLOADING"
    BY <2>1, AdvanceMoves
  <2> QED BY <1>6, <2>2 DEF MarkCached, Knows
<1>7. CASE ReadTables
  BY <1>7 DEF ReadTables, Knows
<1>8. CASE Pack
  BY <1>8 DEF Pack, Knows
<1>9. CASE StartCopy
  BY <1>9 DEF StartCopy, Knows
<1>10. CASE FinishCopy
  BY <1>10 DEF FinishCopy, Knows
<1>11. CASE ReuseCopy
  BY <1>11 DEF ReuseCopy, Knows
<1>12. CASE RenameCopy
  BY <1>12 DEF RenameCopy, Knows
<1>13. CASE ReuseBundle
  BY <1>13 DEF ReuseBundle, Knows
<1>14. CASE MarkPacked
  <2>1. Advance("RAW_EVIDENCE_PUBLISHED") /\ "RAW_EVIDENCE_PUBLISHED" \in Checkpoint
    BY <1>14, Checkpoints DEF MarkPacked
  <2>2. job' \in Job /\ job'.checkpoint = "RAW_EVIDENCE_PUBLISHED" /\ job.checkpoint = "SOURCE_CACHED"
    BY <2>1, AdvanceMoves
  <2> QED BY <1>14, <2>2 DEF MarkPacked, Knows
<1>15. CASE Restore
  BY <1>15, FourTargets DEF Restore, Knows
<1>16. CASE ReuseProof
  BY <1>16 DEF ReuseProof, Knows
<1>17. CASE RegisterOffline
  BY <1>17, FourTargets DEF RegisterOffline, Knows
<1>18. CASE SaveReceipt
  BY <1>18 DEF SaveReceipt, Knows
<1>19. CASE StartNormalizing
  <2>1. AdvanceFrom("RAW_EVIDENCE_PUBLISHED", "NORMALIZING") /\ "NORMALIZING" \in Checkpoint
    BY <1>19, Checkpoints DEF StartNormalizing
  <2>2. /\ job' \in Job
        /\ job'.checkpoint = IF job.checkpoint = "RAW_EVIDENCE_PUBLISHED" THEN "NORMALIZING" ELSE job.checkpoint
    BY <2>1, AdvanceFromMoves
  <2> QED BY <1>19, <2>2 DEF StartNormalizing, Knows
<1>20. CASE PublishCandidate
  BY <1>20, FourTargets DEF PublishCandidate, Knows
<1>21. CASE PublishRevision
  BY <1>21 DEF PublishRevision, Knows
<1>22. CASE MarkPublished
  <2>1. Advance("CANONICAL_PUBLISHED") /\ "CANONICAL_PUBLISHED" \in Checkpoint
    BY <1>22, Checkpoints DEF MarkPublished
  <2>2. job' \in Job /\ job'.checkpoint = "CANONICAL_PUBLISHED" /\ job.checkpoint = "NORMALIZING"
    BY <2>1, AdvanceMoves
  <2> QED BY <1>22, <2>2 DEF MarkPublished, Knows
<1>23. CASE ValidateCanonical
  BY <1>23 DEF ValidateCanonical, Knows
<1>24. CASE MarkValidated
  <2>1. AdvanceFrom("CANONICAL_PUBLISHED", "VALIDATED") /\ "VALIDATED" \in Checkpoint
    BY <1>24, Checkpoints DEF MarkValidated
  <2>2. /\ job' \in Job
        /\ job'.checkpoint = IF job.checkpoint = "CANONICAL_PUBLISHED" THEN "VALIDATED" ELSE job.checkpoint
    BY <2>1, AdvanceFromMoves
  <2> QED BY <1>24, <2>2 DEF MarkValidated, Knows
<1>25. CASE Activate
  BY <1>25 DEF Activate, Knows
<1>26. CASE MarkComplete
  <2>1. AdvanceFrom("VALIDATED", "COMPLETE") /\ "COMPLETE" \in Checkpoint
    BY <1>26, Checkpoints DEF MarkComplete
  <2>2. /\ job' \in Job
        /\ job'.checkpoint = IF job.checkpoint = "VALIDATED" THEN "COMPLETE" ELSE job.checkpoint
    BY <2>1, AdvanceFromMoves
  <2> QED BY <1>26, <2>2 DEF MarkComplete, Knows
<1>27. CASE ReuseReleased
  BY <1>27 DEF ReuseReleased, Knows, Artifacts
<1>28. CASE EndRun
  BY <1>28 DEF EndRun, Knows
<1>29. CASE Prepare
  BY <1>29 DEF Prepare, Knows, Artifacts
<1>30. CASE ResumeRelease
  BY <1>30 DEF ResumeRelease, Knows, Artifacts
<1>31. CASE StartDelete
  <2>1. PICK i \in 1..4 : IsNext(i) /\ dup' = [dup EXCEPT ![Targets[i]] = "torn"]
    BY <1>31, FourTargets DEF StartDelete
  <2>2. dup' \in [Copy -> {"absent", "whole", "torn"}] /\ dup'[Targets[i]] = "torn"
    BY <2>1, FourTargets
  <2>3. Remaining' = Remaining
    BY <1>31, <2>1, FourTargets DEF StartDelete, Remaining, Owned, IsNext
  <2>4. \A j \in 1..4 : IsNext(j)' => j = i
    BY <2>1, <2>3, OneIsNext DEF IsNext
  <2>5. \A j \in 1..Len(Targets) : IsNext(j)' => dup'[Targets[j]] = "torn"
    BY <2>2, <2>4, FourTargets
  <2> QED BY <1>31, <2>2, <2>5 DEF StartDelete, Knows
<1>32. CASE FinishDelete
  BY <1>32, FourTargets DEF FinishDelete, Knows
<1>33. CASE MarkReleased
  BY <1>33 DEF MarkReleased, Knows, Artifacts
<1>34. CASE \E flag \in BOOLEAN : Start(flag)
  BY <1>34 DEF Start, Resumed, Job, Knows
<1>35. CASE Refuse
  BY <1>35 DEF Refuse, Raise, Failed, Job, Knows
<1>36. CASE Fault
  BY <1>36 DEF Fault, Raise, Failed, Job, Knows
<1>37. CASE Crash
  BY <1>37 DEF Crash, Knows
<1>38. CASE DamageBundle
  BY <1>38 DEF DamageBundle, Knows, IsNext, Remaining, Owned
<1>39. CASE DamageRevision
  BY <1>39 DEF DamageRevision, Knows, IsNext, Remaining, Owned
<1>40. CASE ChangeCatalog
  BY <1>40 DEF ChangeCatalog, Knows, IsNext, Remaining, Owned
<1>41. CASE UNCHANGED vars
  BY <1>41 DEF vars, Knows, IsNext, Remaining, Owned
<1> QED
  BY <1>1, <1>2, <1>3, <1>4, <1>5, <1>6, <1>7, <1>8, <1>9, <1>10, <1>11, <1>12, <1>13, <1>14, <1>15, <1>16, <1>17, <1>18, <1>19, <1>20, <1>21, <1>22, <1>23, <1>24, <1>25, <1>26, <1>27, <1>28, <1>29, <1>30, <1>31, <1>32, <1>33, <1>34, <1>35, <1>36, <1>37, <1>38, <1>39, <1>40, <1>41 DEF Next, Work

(* A checkpoint promises what the next run takes for granted, for any       *)
(* number of crashes, faults, damages and changes of the inventory.         *)
THEOREM InductiveInvariant == Spec => []IInv
  BY InitIInv, NextIInv, PTL DEF Spec

THEOREM CheckpointsAreBacked == Spec => []CheckpointBacked
<1>1. IInv => CheckpointBacked
  BY BackedIsCheckpointBacked DEF IInv
<1> QED BY <1>1, InductiveInvariant, PTL

-----------------------------------------------------------------------------
(* A copy is deleted only for the inventory of that moment: of all steps    *)
(* only the beginning of a deletion tears a copy, and it reads the entry.   *)
THEOREM DeletesForTheMoment == Spec => DiscardsOnlyCurrent
<1> DEFINE Deletes == \A d \in Copy : dup[d] = "whole" /\ dup'[d] = "torn" => record = catalog
<1>1. ASSUME IInv, [Next]_vars
      PROVE  Deletes
  <2>1. CASE StartDelete
    BY <2>1 DEF StartDelete, Artifacts
  <2>2. CASE FinishDelete
    BY <1>1, <2>2, FourTargets DEF FinishDelete, IInv, Types
  <2>3. CASE Capture \/ Restore \/ RegisterOffline \/ PublishCandidate
    BY <1>1, <2>3, FourTargets DEF Capture, Restore, RegisterOffline, PublishCandidate, IInv, Types
  <2>4. CASE UNCHANGED dup
    BY <2>4
  <2> QED
    BY <1>1, <2>1, <2>2, <2>3, <2>4 DEF Next, vars, durable, Work, Start, Download, Load, Adopt,
       SaveRecord, MarkCached, ReadTables, Pack, StartCopy, FinishCopy, ReuseCopy, RenameCopy,
       ReuseBundle, MarkPacked, ReuseProof, SaveReceipt, StartNormalizing, PublishRevision,
       MarkPublished, ValidateCanonical, MarkValidated, Activate, MarkComplete, ReuseReleased,
       EndRun, Prepare, ResumeRelease, MarkReleased, Refuse, Raise, Fault, Crash, DamageBundle,
       DamageRevision, ChangeCatalog
<1>2. IInv /\ [Next]_vars => [Deletes]_vars
  BY <1>1
<1> QED BY <1>2, InductiveInvariant, PTL DEF Spec, DiscardsOnlyCurrent

-----------------------------------------------------------------------------
(* The refinement.  What CorpusPromise sees of the ingest's state. *)
Whole == {d \in Copy : dup[d] = "whole"}
Archived == IF "absent" \in {bundle, revision} THEN "none"
            ELSE IF "damaged" \in {bundle, revision} THEN "damaged" ELSE "intact"

LEMMA InitPromise == Init => Promise!Init
  BY DEF Init, Promise!Init

(* Most steps show nothing of themselves. *)
LEMMA StutterPromise ==
    ASSUME UNCHANGED <<dup, bundle, revision, active>>
    PROVE  [Promise!Next]_Promise!vars
  BY DEF Promise!vars

LEMMA GatherPromise ==
    ASSUME Types, NEW c \in Copy, dup' = [dup EXCEPT ![c] = "whole"], UNCHANGED <<bundle, revision, active>>
    PROVE  [Promise!Next]_Promise!vars
<1>1. Whole' = Whole \cup {c}
  BY DEF Whole, Types
<1>2. Promise!Gather(c)
  BY <1>1 DEF Promise!Gather, Whole
<1> QED BY <1>2 DEF Promise!Next

(* One artifact appears, or goes bad. *)
LEMMA ArchivePromise ==
    ASSUME Types, UNCHANGED <<dup, active>>,
           \/ UNCHANGED revision /\ bundle # "damaged" /\ bundle' = "whole"
           \/ UNCHANGED bundle /\ revision # "damaged" /\ revision' = "whole"
           \/ UNCHANGED revision /\ bundle = "whole" /\ bundle' = "damaged"
           \/ UNCHANGED bundle /\ revision = "whole" /\ revision' = "damaged"
    PROVE  [Promise!Next]_Promise!vars
<1>1. CASE Archived' = Archived
  BY <1>1 DEF Promise!vars, Archived
<1>2. CASE Archived' # Archived
  <2>1. \/ Archived = "none" /\ Archived' \in {"intact", "damaged"}
        \/ Archived = "intact" /\ Archived' = "damaged"
    BY <1>2 DEF Archived, Types, Artifact
  <2>2. Promise!Archive \/ Promise!Decay
    BY <2>1 DEF Promise!Archive, Promise!Decay, Archived
  <2> QED BY <2>2 DEF Promise!Next
<1> QED BY <1>1, <1>2

(* Every step of the ingest is a step of the promise, or shows nothing: in   *)
(* particular a copy is torn only while both artifacts are intact and served,*)
(* because its proofs are read again immediately before.                     *)
LEMMA NextPromise == IInv /\ [Next]_vars => [Promise!Next]_Promise!vars
<1> SUFFICES ASSUME IInv, [Next]_vars PROVE [Promise!Next]_Promise!vars
  OBVIOUS
<1> USE DEF durable, archive, receipts
<1>1. Types
  BY DEF IInv
<1>2. CASE Capture \/ Restore \/ RegisterOffline \/ PublishCandidate
  BY <1>1, <1>2, GatherPromise, FourTargets DEF Capture, Restore, RegisterOffline, PublishCandidate
<1>3. CASE Pack \/ RenameCopy \/ PublishRevision
  <2>1. pc = "copied" => bundle # "damaged"
    BY DEF IInv, Knows
  <2> QED BY <1>1, <1>3, <2>1, ArchivePromise DEF Pack, RenameCopy, PublishRevision, Go
<1>4. CASE DamageBundle \/ DamageRevision
  BY <1>1, <1>4, ArchivePromise DEF DamageBundle, DamageRevision
<1>5. CASE Activate
  <2>1. bundle # "absent" /\ revision # "absent"
    BY <1>5 DEF Activate, Go, IInv, Knows, Backed, FromRaw, FromNormalizing, FromCanonical
  <2>2. Promise!Serve
    BY <1>5, <2>1 DEF Activate, Promise!Serve
  <2> QED BY <2>2 DEF Promise!Next
<1>6. CASE StartDelete
  <2>1. PICK i \in 1..4 : dup' = [dup EXCEPT ![Targets[i]] = "torn"]
    BY <1>6, FourTargets DEF StartDelete
  <2>2. Whole' = Whole \ {Targets[i]} /\ Targets[i] \in Copy
    BY <1>1, <2>1, FourTargets DEF Whole, Types
  <2>3. Promise!Discard(Targets[i])
    BY <1>6, <2>2 DEF StartDelete, Artifacts, Promise!Discard, Whole
  <2> QED BY <2>2, <2>3 DEF Promise!Next
<1>7. CASE FinishDelete
  <2>1. PICK i \in 1..4 : IsNext(i) /\ dup' = [dup EXCEPT ![Targets[i]] = "absent"]
    BY <1>7, FourTargets DEF FinishDelete
  <2>2. dup[Targets[i]] = "torn"
    BY <1>7, <2>1, FourTargets DEF FinishDelete, Go, IInv, Knows
  <2>3. Whole' = Whole
    BY <1>1, <2>1, <2>2 DEF Whole, Types
  <2> QED BY <1>7, <2>3 DEF FinishDelete, Promise!vars, Whole
<1>8. CASE UNCHANGED <<dup, bundle, revision, active>>
  BY <1>8, StutterPromise
<1> QED
  BY <1>2, <1>3, <1>4, <1>5, <1>6, <1>7, <1>8 DEF Next, vars, Work, Start, Download, Load, Adopt,
     SaveRecord, MarkCached, ReadTables, StartCopy, FinishCopy, ReuseCopy, ReuseBundle, MarkPacked,
     ReuseProof, SaveReceipt, StartNormalizing, MarkPublished, ValidateCanonical, MarkValidated,
     MarkComplete, ReuseReleased, EndRun, Prepare, ResumeRelease, MarkReleased, Refuse, Raise, Fault,
     Crash, ChangeCatalog

THEOREM KeepsPromise == Spec => PromiseKept
  BY InitPromise, InductiveInvariant, NextPromise, PTL DEF Spec, PromiseKept, Promise!Spec

===============================================================================
