------------------------------- MODULE Completion -------------------------------
(***************************************************************************)
(* Which sessions are over, and on whose word (detailed/evidence.py,       *)
(* reconciliation.py, temporal_completion.py, independent_finalization.py  *)
(* and the scripts that run them).  Discovery lists the sessions and the   *)
(* provider's cancellations; reconciliation captures the status feed of    *)
(* each session once and for all; corrections, archive answers and two     *)
(* kinds of proof are added beside it; finalization classifies every       *)
(* session from what is there and binds the catalog to it by digest.       *)
(* ready_inventory accepts a catalog only as long as it is so bound.  The  *)
(* storage study freezes a plan, with a sample, of one catalog, and goes   *)
(* on with later ones as far as validated_frozen_plan lets it.             *)
(*                                                                         *)
(* A feed is the sequence of its records; what was captured of it is a     *)
(* number of records.  A digest identifies what it was taken from; a       *)
(* rewritten document has a new version.                                   *)
(***************************************************************************)
EXTENDS Naturals, Sequences, FiniteSets

CONSTANTS
    Feeds,        \* [Session -> set of [records, over, cut]]: what may happen in each
    Kinds,        \* [Session -> [stratum, target, openf1]]: its era and category, how many
                  \*   of these a sample takes, and the season OpenF1 lists it in
    Reviewed,     \* the session independent finality was written for
    Absent,
    MaxRounds,    \* bounds: [discover, reconcile, finalize, error],
    MaxTotal,     \*   and on all of them together
    MaxCancelled  \* a bound on the sessions called off

Session == DOMAIN Feeds
Listing == {"unlisted", "2023", "later"}
Status == {"Inactive", "Started", "Finished", "Finalised", "Ends", "Aborted"}

VARIABLES
    feed,         \* what happens in each session
    elapsed, shown,   \* sessions whose schedule has passed; records published so far
    cancelled,    \* sessions the provider lists as cancelled
    disc, prov,   \* inventory.json, openf1-inventory.json
    completion,   \* completion/<session>.json
    derived,      \* sessions with a completion-derived correction
    archive,      \* archive-finalization/<session>.json
    independent,  \* completion-finalization/<session>.json, by the discovery it is bound to
    temporal,     \* completion-temporal/<session>.json
    inventory,      \* reconciled-inventory.json
    frozen,       \* the catalog the sampling plan was selected from
    sample,       \* the sessions it selected
    discovering,  \* a discovery between its two documents
    recon, fin,   \* the reconciliation, the finalization: where, and what it has read
    rounds        \* history: discoveries, reconciliations, finalizations and failures so far

Discovery == [version : Nat, of : [Session -> {"past", "future"}]]
ProviderList == [version : Nat, cancelled : SUBSET Session, failures : BOOLEAN]
FeedCapture == [wire : Nat, kept : Nat, error : {"none", "unavailable", "failed"}, after : Nat, early : BOOLEAN]
Promotion == [disc : Nat, prov : Nat, wire : Nat]
ArchiveAnswer == {"other", "Complete", "captured"}
Evidence ==
    [disc : Discovery, prov : ProviderList, derived : SUBSET Session,
     archive : [Session -> ArchiveAnswer \cup {Absent}], independent : [Session -> Nat \cup {Absent}],
     temporal : [Session -> Promotion \cup {Absent}]]
Row == {"future", "completed", "abandoned", "unverified", "cancelled"}
Informal == [formal |-> FALSE]
Catalog ==
    [formal : {TRUE}, torn : BOOLEAN, rows : [Session -> Row], seen : Evidence, disc : Nat, prov : Nat,
     archive : [Session -> ArchiveAnswer \cup {Absent}]]

(* A session is over when its feed says it is final, at the latest.         *)
ASSUME CompletionAssumption ==
    /\ \A s \in Session : \A f \in Feeds[s] :
        /\ f.records \in Seq([time : Nat, status : STRING]) /\ f.cut \in BOOLEAN
        /\ f.over \in 0 .. Len(f.records)
        /\ \A n \in 1 .. Len(f.records) : f.records[n].status \in {"Finalised", "Ends"} => n >= f.over
    /\ \A s \in Session : Kinds[s].target \in {1, 3} /\ Kinds[s].openf1 \in Listing
    /\ Absent \notin Nat \cup Discovery \cup ProviderList \cup FeedCapture \cup Promotion
    /\ Absent \notin Catalog \cup {Informal} \cup ArchiveAnswer \cup Status

world == <<feed, elapsed, shown, cancelled>>
sources == <<disc, prov, completion>>
evidence == <<derived, archive, independent, temporal>>
planned == <<frozen, sample>>
work == <<discovering, recon, fin>>
completionVars == <<world, sources, evidence, inventory, planned, work, rounds>>

Off == [place |-> "off"]

(* Of the sessions of the past some were published long ago. *)
CompletionInit ==
    /\ feed \in {f \in [Session -> UNION {Feeds[s] : s \in Session}] : \A s \in Session : f[s] \in Feeds[s]}
    /\ elapsed \in SUBSET Session
    /\ shown \in {[s \in Session |-> IF s \in through THEN Len(feed[s].records) ELSE 0] : through \in SUBSET elapsed}
    /\ cancelled = {} /\ disc = Absent /\ prov = Absent
    /\ completion = [s \in Session |-> Absent]
    /\ derived = {}
    /\ archive = completion /\ temporal = completion /\ independent = completion
    /\ inventory = Absent /\ frozen = Absent /\ sample = {}
    /\ discovering = FALSE /\ recon = Off /\ fin = Off
    /\ rounds = [discover |-> 0, reconcile |-> 0, finalize |-> 0, error |-> 0]

Records(s, n) == SubSeq(feed[s].records, 1, n)
Over(s) == shown[s] >= feed[s].over
Counts(kind) ==
    /\ rounds[kind] < MaxRounds[kind] /\ rounds.discover + rounds.reconcile + rounds.finalize + rounds.error < MaxTotal
    /\ rounds' = [rounds EXCEPT ![kind] = @ + 1]

-----------------------------------------------------------------------------
(* The world. *)

Elapse(s) ==
    /\ s \notin elapsed
    /\ elapsed' = elapsed \cup {s}
    /\ UNCHANGED <<feed, shown, cancelled, sources, evidence, inventory, planned, work, rounds>>

(* One record after the other, as long as it makes a difference to a capture.*)
Publishes(s) ==
    /\ s \in elapsed \ cancelled /\ shown[s] < Len(feed[s].records)
    /\ shown' = [shown EXCEPT ![s] = IF completion[s] = Absent THEN @ + 1 ELSE Len(feed[s].records)]
    /\ UNCHANGED <<feed, elapsed, cancelled, sources, evidence, inventory, planned, work, rounds>>

(* Before it ran, or in the middle of it. *)
CallOff(s) ==
    /\ ~ Over(s) /\ Cardinality(cancelled) < MaxCancelled
    /\ cancelled' = cancelled \cup {s}
    /\ UNCHANGED <<feed, elapsed, shown, sources, evidence, inventory, planned, work, rounds>>

-----------------------------------------------------------------------------
(* A status feed as evidence. *)

(* parse_status_stream: what it reports of a stream, never repairs.         *)
Terminal(a, b) == a.status = "Finalised" /\ b.status = "Ends"
Issues(stream) ==
    {"nonmonotonic" : i \in {j \in 2 .. Len(stream) : stream[j].time < stream[j - 1].time}}
    \cup {"conflict" : i \in {j \in 2 .. Len(stream) :
            /\ stream[j].time = stream[j - 1].time
            /\ stream[j].status # stream[j - 1].status /\ ~ Terminal(stream[j - 1], stream[j])}}
    \cup {"unknown" : i \in {j \in DOMAIN stream : stream[j].status \notin Status}}
    \cup (IF stream = <<>> THEN {"empty"} ELSE {})

Integrity(stream) ==
    IF Issues(stream) = {} THEN "verified"
    ELSE IF Issues(stream) \cap {"nonmonotonic", "conflict"} # {} THEN "ambiguous"
    ELSE "invalid"

StatusesOf(stream) == {stream[i].status : i \in DOMAIN stream}
LastStatus(stream) == IF stream = <<>> THEN Absent ELSE stream[Len(stream)].status

(* classify_completion *)
MutClassify(scheduled, stream, archived) ==
    IF scheduled = "future" THEN "future"
    ELSE IF LastStatus(stream) \in {"Finished", "Finalised", "Ends"}
         THEN IF "Started" \in StatusesOf(stream) THEN "completed" ELSE "abandoned"
    ELSE IF LastStatus(stream) = "Aborted" THEN "abandoned"
    ELSE IF archived /\ "Started" \in StatusesOf(stream) THEN "completed"
    ELSE "unverified"

Classify(scheduled, stream, archived) ==
    IF scheduled = "future" THEN "future"
    ELSE IF LastStatus(stream) \in {"Finalised", "Ends"}
         THEN IF "Started" \in StatusesOf(stream) THEN "completed" ELSE "abandoned"
    ELSE IF LastStatus(stream) = "Aborted" THEN "abandoned"
    ELSE IF archived /\ "Started" \in StatusesOf(stream) THEN "completed"
    ELSE "unverified"

Wire(s) == Records(s, completion[s].wire)
Kept(s) == Records(s, completion[s].kept)

(* load_derived_corrections: one that is there says what is derived today,  *)
(* as neither the capture nor a session that is past changes.               *)
Corrected(s, e) == s \in e.derived

(* reclassify_evidence, and finalize_inventory's cancellations: the state   *)
(* of a session from the evidence e, under the discovery and the provider's *)
(* list of e.                                                               *)
Scheduled(s, e) == IF e.temporal[s] # Absent THEN "past" ELSE e.disc.of[s]

StreamOf(s, e) ==
    IF e.temporal[s] # Absent THEN Records(s, e.temporal[s].wire)
    ELSE IF Corrected(s, e) THEN Wire(s) ELSE Kept(s)

Complete(a) == a \in {"Complete", "captured"}
Archived(s, e) == e.temporal[s] # Absent \/ Complete(e.archive[s])
Confirmed(e) == {s \in Session : e.independent[s] # Absent}
Promoted(e) == {s \in Session : e.temporal[s] # Absent}

Observed(s, e) ==
    IF completion[s].error = "unavailable" /\ Scheduled(s, e) # "future" THEN "abandoned"
    ELSE Classify(Scheduled(s, e), StreamOf(s, e), Archived(s, e))

Proved(s, e) ==
    IF s \in Confirmed(e) THEN "completed"
    ELSE IF Corrected(s, e) /\ Integrity(Wire(s)) # "verified" /\ Observed(s, e) # "future" THEN "unverified"
    ELSE Observed(s, e)

StateOf(s, e) ==
    IF s \in e.prov.cancelled /\ Proved(s, e) # "future" THEN "cancelled" ELSE Proved(s, e)

OnDisk == [disc |-> disc, prov |-> prov, derived |-> derived, archive |-> archive,
           independent |-> independent, temporal |-> temporal]

(* Every loader replays its proofs against the documents they rest on.      *)
TemporalReplays(e) ==
    \A s \in Promoted(e) :
        e.temporal[s].disc = e.disc.version /\ e.temporal[s].prov = e.prov.version
IndependentReplays(e) == \A s \in Confirmed(e) : e.independent[s] = e.disc.version
Replays(e) == TemporalReplays(e) /\ IndependentReplays(e)

Apart(e) == Promoted(e) \cap (Confirmed(e) \cup e.derived) = {}

-----------------------------------------------------------------------------
(* Discovery: two documents, one after the other. *)

(* History: what a running finalization reads is replaced under it.        *)
Torn == IF fin = Off THEN Off ELSE [fin EXCEPT !.torn = TRUE]

Discover ==
    /\ ~ discovering /\ Counts("discover")
    /\ disc' = [version |-> rounds'.discover, of |-> [s \in Session |-> IF s \in elapsed THEN "past" ELSE "future"]]
    /\ fin' = Torn
    /\ discovering' = TRUE
    /\ UNCHANGED <<world, prov, completion, evidence, inventory, planned, recon>>

DiscoverProvider(failures) ==
    /\ discovering
    /\ IF failures THEN Counts("error") ELSE UNCHANGED rounds
    /\ prov' = [version |-> rounds.discover, cancelled |-> cancelled, failures |-> failures]
    /\ fin' = Torn
    /\ discovering' = FALSE
    /\ UNCHANGED <<world, disc, completion, evidence, inventory, planned, recon>>

-----------------------------------------------------------------------------
(* Reconciliation: the feeds that were never captured, then a catalog that  *)
(* is complete but not yet formal.                                          *)

Reconcile ==
    /\ recon = Off /\ disc # Absent /\ prov # Absent /\ Counts("reconcile")
    /\ recon' = [place |-> "capture", of |-> disc.of]
    /\ UNCHANGED <<world, sources, evidence, inventory, planned, discovering, fin>>

(* FastF1 loses the last record of a body that does not end in a newline;   *)
(* an answer may also be an error.                                          *)
Capture(s, error) ==
    /\ recon # Off /\ completion[s] = Absent
    /\ recon.of[s] = "future" => error = "none"
    /\ IF error = "none" THEN UNCHANGED rounds ELSE Counts("error")
    /\ LET n == IF error # "none" \/ recon.of[s] = "future" THEN 0 ELSE shown[s]
           lost == n > 0 /\ n = Len(feed[s].records) /\ feed[s].cut IN
       completion' = [completion EXCEPT ![s] =
           [wire |-> n, kept |-> IF lost THEN n - 1 ELSE n, error |-> error,
            after |-> disc.version, early |-> recon.of[s] = "future" /\ s \notin elapsed]]
    /\ UNCHANGED <<world, disc, prov, evidence, inventory, planned, work>>

Reconciled ==
    /\ recon # Off /\ \A s \in Session : completion[s] # Absent
    /\ inventory' = Informal
    /\ recon' = Off
    /\ UNCHANGED <<world, sources, evidence, planned, discovering, fin, rounds>>

-----------------------------------------------------------------------------
(* Evidence added beside the captures. *)

(* repair: the saved wire says more than was captured of it, or is          *)
(* ambiguous; a correction must not complete a session by itself.           *)
Derive(s) ==
    /\ disc # Absent /\ completion[s] # Absent /\ s \notin derived
    /\ disc.of[s] = "past" /\ completion[s].wire > 0
    /\ completion[s].kept # completion[s].wire \/ Integrity(Wire(s)) # "verified"
    /\ Integrity(Wire(s)) # "verified" \/ Classify("past", Wire(s), FALSE) = "unverified"
    /\ derived' = derived \cup {s}
    /\ UNCHANGED <<world, sources, archive, independent, temporal, inventory, planned, work, rounds>>

(* The archive's answer for the one reviewed session, captured when its     *)
(* correction had shown the need, and put in place by hand.                *)
CaptureArchive ==
    /\ Reviewed \in derived /\ archive[Reviewed] # "captured"
    /\ shown[Reviewed] = Len(feed[Reviewed].records)
    /\ archive' = [archive EXCEPT ![Reviewed] = "captured"]
    /\ UNCHANGED <<world, sources, derived, independent, temporal, inventory, planned, work, rounds>>

(* A stream whose records coincide at its end.                             *)
ReviewedStream(s) == Integrity(Wire(s)) = "ambiguous" /\ Classify("past", Wire(s), FALSE) = "unverified"

(* Its official classification, captured later still under this discovery,  *)
(* bound to its ambiguous correction.                                       *)
ProveIndependently(s) ==
    /\ s = Reviewed /\ s \in derived /\ independent[s] = Absent
    /\ disc.of[s] = "past" /\ archive[s] = "captured"
    /\ ReviewedStream(s) /\ completion[s].kept = completion[s].wire
    /\ independent' = [independent EXCEPT ![s] = disc.version]
    /\ UNCHANGED <<world, sources, derived, archive, temporal, inventory, planned, work, rounds>>

(* build_temporal_completion: of complete sources, a session discovered and *)
(* found to be future, which the provider still lists as on, and whose feed *)
(* and archive, captured after its end, leave no doubt.                     *)
SourcesComplete == disc # Absent /\ prov # Absent /\ ~ prov.failures
FoundFuture(s) ==
    /\ disc.of[s] = "future"
    /\ completion[s] # Absent /\ completion[s].early /\ completion[s].after = disc.version
StillOn(s) == s \notin prov.cancelled
LeavesNoDoubt(s) ==
    /\ shown[s] = Len(feed[s].records)
    /\ Integrity(Records(s, shown[s])) = "verified"
    /\ Classify("past", Records(s, shown[s]), FALSE) = "completed"
TemporalProof(s) == [disc |-> disc.version, prov |-> prov.version, wire |-> shown[s]]

Promote(s) ==
    /\ SourcesComplete /\ temporal[s] = Absent
    /\ FoundFuture(s) /\ StillOn(s) /\ LeavesNoDoubt(s)
    /\ temporal' = [temporal EXCEPT ![s] = TemporalProof(s)]
    /\ UNCHANGED <<world, sources, derived, archive, independent, inventory, planned, work, rounds>>

-----------------------------------------------------------------------------
(* Finalization. *)

(* Waits for a complete catalog, then reads every document but the          *)
(* provider's.                                                              *)
StartFinalize ==
    /\ fin = Off /\ inventory # Absent /\ disc # Absent /\ prov # Absent /\ Counts("finalize")
    /\ \A s \in Session : completion[s] # Absent
    /\ Replays(OnDisk) /\ Apart(OnDisk)
    /\ fin' = [place |-> "archive", seen |-> OnDisk, torn |-> FALSE]
    /\ UNCHANGED <<world, sources, evidence, inventory, planned, discovering, recon>>

Unresolved(s) ==
    /\ archive[s] = Absent /\ fin.seen.archive[s] = Absent
    /\ Proved(s, fin.seen) = "unverified"

(* ArchiveStatus.json of a session nothing else decides, asked for once.  A *)
(* 404 decides as little as any other answer but Complete.                  *)
AskArchive(s) ==
    /\ fin # Off /\ fin.place = "archive" /\ Unresolved(s)
    /\ \E a \in {"other"} \cup (IF shown[s] = Len(feed[s].records) THEN {"Complete"} ELSE {}) :
        /\ archive' = [archive EXCEPT ![s] = a]
        /\ fin' = [fin EXCEPT !.seen.archive[s] = a]
    /\ UNCHANGED <<world, sources, derived, independent, temporal, inventory, planned, discovering, recon, rounds>>

(* Offline, or once everything was asked: the provider's list.              *)
ReadProvider ==
    /\ fin # Off /\ fin.place = "archive"
    /\ ~ prov.failures
    /\ fin' = [fin EXCEPT !.place = "write", !.seen.prov = prov]
    /\ UNCHANGED <<world, sources, evidence, inventory, planned, discovering, recon, rounds>>

Contradicted == \E s \in Confirmed(fin.seen) : s \in fin.seen.prov.cancelled

(* The states of what was read; the discovery's, the provider's and the     *)
(* archives' digests of what is there now.                                  *)
Answered(s) == fin.seen.archive[s] # Absent /\ fin.seen.temporal[s] = Absent
WriteCatalog ==
    /\ fin # Off /\ fin.place = "write" /\ ~ Contradicted
    /\ inventory' = [formal |-> TRUE, torn |-> fin.torn,
                     rows |-> [s \in Session |-> StateOf(s, fin.seen)], seen |-> fin.seen,
                     disc |-> disc.version, prov |-> prov.version,
                     archive |-> [s \in Session |-> IF Answered(s) THEN archive[s] ELSE Absent]]
    /\ fin' = Off
    /\ UNCHANGED <<world, sources, evidence, planned, discovering, recon, rounds>>

(* An error, a contradiction or the death of the process. *)
AbandonFinalize ==
    /\ fin # Off /\ fin' = Off
    /\ UNCHANGED <<world, sources, evidence, inventory, planned, discovering, recon, rounds>>

-----------------------------------------------------------------------------
(* ready_inventory *)

SameProofs(c) ==
    c.seen.derived = derived /\ c.seen.independent = independent /\ c.seen.temporal = temporal
MutBound(c) == c.disc = disc.version /\ SameProofs(c)
Bound(c) == c.disc = disc.version /\ c.prov = prov.version /\ ~ prov.failures /\ SameProofs(c)

RowAllowed(c, s) ==
    /\ c.rows[s] # "unverified"
    /\ temporal[s] = Absent /\ disc.of[s] = "future" => c.rows[s] = "future"
    /\ c.rows[s] = "future" => s \notin elapsed
    /\ c.rows[s] = "completed" =>
        /\ s \in elapsed
        /\ s \in derived \ Confirmed(OnDisk) => Integrity(Wire(s)) = "verified"
        /\ c.archive[s] # Absent =>
            archive[s] = c.archive[s] /\ Complete(archive[s]) = Complete(c.seen.archive[s])
        /\ Classify(Scheduled(s, c.seen), StreamOf(s, c.seen), Archived(s, c.seen)) = "completed"

ReadyInventory(c) ==
    /\ c # Absent /\ c.formal
    /\ Bound(c)
    /\ Replays(OnDisk) /\ Apart(OnDisk)
    /\ \A s \in Confirmed(OnDisk) \cup Promoted(OnDisk) : c.rows[s] = StateOf(s, OnDisk)
    /\ \A s \in Session : RowAllowed(c, s)

-----------------------------------------------------------------------------
(* The plan of the storage study. *)

CompletedIn(c) == {s \in Session : c.rows[s] = "completed"}
StratumOf(s) == {q \in Session : Kinds[q].stratum = Kinds[s].stratum}
Modern(s) == Kinds[s].openf1 # "unlisted"

(* choose_sample: as many sessions of each stratum as it asks for, the wet  *)
(* races and the captures of before among them; publish_sample_plan pins    *)
(* one that OpenF1 lists in 2023 wherever there is one.                     *)
EnoughOf(group, chosen, s) == group \subseteq chosen \/ Cardinality(chosen \cap group) >= Kinds[s].target
Pinned(group, chosen, s) ==
    Kinds[s].openf1 = "2023" => \E q \in chosen \cap group : Kinds[q].openf1 = "2023"
MutSampled(c) ==
    {chosen \in SUBSET CompletedIn(c) :
        \A s \in CompletedIn(c) : EnoughOf(StratumOf(s) \cap CompletedIn(c), chosen, s)}
Sampled(c) ==
    {chosen \in SUBSET CompletedIn(c) :
        \A s \in CompletedIn(c) :
            LET group == StratumOf(s) \cap CompletedIn(c)
            IN EnoughOf(group, chosen, s) /\ Pinned(group, chosen, s)}

(* publish_sample_plan, once, of any complete catalog, ready or not: the    *)
(* plan keeps it.  What one that is not yet formal says does not matter.    *)
FreezePlan ==
    /\ frozen = Absent /\ inventory # Absent
    /\ frozen' = inventory
    /\ sample' \in (IF inventory.formal THEN Sampled(inventory) ELSE {{}})
    /\ UNCHANGED <<world, sources, evidence, inventory, work, rounds>>

(* validated_frozen_plan: the selected are completed as they were, and the  *)
(* catalog is the frozen one, or that one grown by nothing but newly proved *)
(* sessions that were still to come, none of which is of a stratum, or of   *)
(* one that OpenF1 lists, without a sample.                                 *)
Changed(c) == {s \in Session : c.rows[s] # frozen.rows[s]}
Newly(c) == Promoted(c.seen) \ Promoted(frozen.seen)

SameSources(c) ==
    /\ frozen.formal
    /\ c.disc = frozen.disc /\ c.prov = frozen.prov /\ c.archive = frozen.archive
    /\ c.seen.derived = frozen.seen.derived /\ c.seen.independent = frozen.seen.independent

StrictGrowth(c) ==
    /\ SameSources(c)
    /\ \A s \in Promoted(frozen.seen) : c.seen.temporal[s] = frozen.seen.temporal[s]
    /\ \A s \in Changed(c) : frozen.rows[s] = "future" /\ disc.of[s] = "future" /\ c.rows[s] = "completed"
    /\ Changed(c) = Newly(c) /\ Newly(c) # {}

Covered(s) ==
    /\ sample \cap StratumOf(s) # {}
    /\ Modern(s) => \E q \in sample \cap StratumOf(s) : Modern(q)
Uncovered(c) == {s \in CompletedIn(c) : ~ Covered(s)}

Grown(c) == StrictGrowth(c) /\ Uncovered(c) = {}
Unchanged(c) == SameSources(c) /\ c.rows = frozen.rows /\ c.seen.temporal = frozen.seen.temporal

Selects(c) == sample # {} /\ sample \subseteq CompletedIn(c)
Validated(c) == Selects(c) /\ (Unchanged(c) \/ Grown(c))

CompletionNext ==
    \/ \E s \in Session : Elapse(s) \/ Publishes(s) \/ CallOff(s)
    \/ Discover \/ (\E failures \in BOOLEAN : DiscoverProvider(failures))
    \/ Reconcile \/ (\E s \in Session, error \in {"none", "unavailable", "failed"} : Capture(s, error)) \/ Reconciled
    \/ (\E s \in Session : Derive(s) \/ ProveIndependently(s) \/ Promote(s)) \/ CaptureArchive
    \/ StartFinalize \/ (\E s \in Session : AskArchive(s)) \/ ReadProvider \/ WriteCatalog \/ AbandonFinalize
    \/ FreezePlan

-----------------------------------------------------------------------------
(* What a ready catalog counts as completed has been run and was finalised, *)
(* whenever its feed was captured - in the middle of a red flag, before the *)
(* last record, with times that allow two orders - and whatever was added.  *)
CompletedIsOver ==
    ReadyInventory(inventory) =>
        \A s \in Session : inventory.rows[s] = "completed" => Over(s) /\ s \in elapsed

(* A ready catalog says what the evidence beside it says today: whoever     *)
(* discovered, corrected, proved or reconciled since, it is refused rather  *)
(* than out of date - provided that nothing was replaced while it was made. *)
ReadyIsCurrent ==
    ReadyInventory(inventory) /\ ~ inventory.torn =>
        \A s \in Session : inventory.rows[s] = StateOf(s, OnDisk)

(* What becomes of a plan that selects something from a catalog which left  *)
(* nothing unverified.  Of the same discovery, provider and corrections,    *)
(* every later ready catalog is the frozen one grown by nothing but newly   *)
(* proved sessions, and the plan is good for it unless the growth has no    *)
(* sample: a session that lacks one is newly proved, as each stratum had    *)
(* its sample and OpenF1's of 2023 theirs, or is one that OpenF1 lists      *)
(* later, which nothing pins.                                               *)
Pinless == {s \in Session : Kinds[s].openf1 = "later"}
PlanMade == frozen # Absent /\ sample # {} /\ ~ frozen.torn /\ (\A s \in Session : frozen.rows[s] # "unverified")
PlanOutlivesGrowth ==
    PlanMade /\ ReadyInventory(inventory) /\ SameSources(inventory) /\ ~ inventory.torn
        => \/ Validated(inventory)
           \/ /\ Selects(inventory) /\ StrictGrowth(inventory)
              /\ Uncovered(inventory) \subseteq Newly(inventory) \cup Pinless
===============================================================================
