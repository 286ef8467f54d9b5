# A formal model of DOWNFORCE

DOWNFORCE reconstructs Formula 1 sessions from provider data: it captures and
archives raw evidence, normalizes it into canonical tables, replays races, and
serves the result through an API and a web client. Most of the code is pure data
conversion. What is hard in it is the part that keeps data safe while processes
run side by side, die, wait, retry and delete: that is what the modules here
describe. Every definition is translated from the source; `PROJECT.json` names
the lines each one stands for.

Paths below are relative to `src/packages/downforce_core/src/downforce_core/`
unless they start with `apps/`.

## Inventory

| Component | State it keeps | Operations | What is hard | Correct when |
|---|---|---|---|---|
| Runtime blob cache, `runtime_blob/cache.py` | files under one root; per process a re-entrant mutex, a depth, a file lock and lease counters | construct, `lease`, `lease_prefix` | threads and processes over one root, nested leases, eviction, broken downloads, crashes | one holder at a time; leased files stay; only checked bytes are published; limits hold; no call hangs |
| Cache bootstrap, same file | lock file, ownership marker | first construction over a root | looks at the root before it owns the lock | a foreign root is never adopted; competitors wait |
| Request budgets and OpenF1 transport, `detailed/rate_budget.py`, `detailed/openf1_transport.py` | two budget files, a pending-attempt file, latches in memory | enter/recover, fetch, exit | crash between reservation, intent, send and anchoring; 429 retries; clock set back | never more requests than the budgets allow; cooldowns honoured; a latched client is silent |
| Hourly quota, `detailed/corpus_openf1_transport.py` | a third history, an intent of its own | the same, around the client | starts from what another client left; two files say what one request did | the hour holds on the real clock |
| OpenF1 enrichment, `detailed/openf1.py`, `corpus_openf1.py`, `enrichment_authority.py` | a leaf per session: wire bytes, attempts, index, pointers, tables, records, failures, manifest | admit, ask, capture, tabulate, seal, resume | ten durable steps per endpoint; authority that changes under way | a complete leaf claims only what was observed; nothing is asked twice |
| FastF1 guard, `detailed/provider_guard.py` | worker lock, FastF1 budget, latches | guard a whole job | the loader swallows what a request raises | a denial stops the job; a rejection keeps the next one away |
| Job lifecycle, `detailed/lifecycle.py` | one job record per session | `advance`, `fail`, `resume` | called again after every crash | no checkpoint without what it stands for |
| Corpus ingest, publication, release: `detailed/corpus_ingest.py`, `corpus_publication.py`, `corpus_cleanup.py`, `corpus_gate.py` | native record, raw bundle, receipts, canonical revision, active pointer, release receipt, the copies they came from | run (resume) a session, release its copies | some thirty durable steps with a crash between any two; deletion authorized by artifacts that may go bad and an inventory that may change | nothing is served before it is validated; nothing is deleted that could not be rebuilt; running again finishes |
| Detailed store and its service, `detailed/raw_evidence.py`, `detailed/storage.py`, `apps/api/app/services/telemetry_service.py` | content-addressed bundles and revisions, a pointer, a cache of answers | pack, restore, publish; ask | concurrent publishers, an answer made of several reads | an answer is of the revision it names |
| Evidence and proofs, `detailed/evidence.py`, `reconciliation.py`, `temporal_completion.py`, `independent_finalization.py` | discovery, captured feeds, proofs, the reconciled inventory | discover, capture, prove, finalize, check | documents that are bound to each other by digest and replaced one at a time; feeds captured while they are written | what is called completed is over; a ready catalog is current |
| Study runner, `detailed/study_runner.py`, `study_io.py` | frozen plan, journal, attempts, measurements | freeze, run, resume | journal read before the lock; stops and crashes within an attempt; two publications | a measurement is that of one whole attempt; a plan is lost only to growth it has no sample of |
| Archive, `archive/storage.py`, `archive/sync.py` | immutable revisions, active pointers, catalog, report, sync state | write a session, synchronize, repair, rebuild | quarantine swap, locks with time limits, pointer after publication | readers see a whole revision; "complete" is true of the disk |
| Canonical repository, `storage/repository.py`, `ingestion.py` | snapshots, datasets, active pointers, aliases | ingest, load | four durable steps without a lock | a pointer names a verified dataset |
| Replay service, `apps/api/app/services/replay_service.py` | engines by session and dataset | build, answer | an engine is built from reads that each follow a moving pointer | an engine is of its dataset |
| Normalization and replay, `normalization/`, `replay/` | timeline, checkpoints, lap cursors | `state_at`, `state_at_lap` | checkpoint boundaries, simultaneous events, missing rows | a checkpoint makes no difference; no look-ahead |
| Features and strategy, `ml/features.py`, `strategy/engine.py` | none | examples, forecasts, simulated races | what was known when; the order of laps of different cars | advice is causal; stops are made as planned |
| Analytics, `analytics/engine.py`, `storage.py` | a snapshot of the archive, a cache of answers, a derived store | read the snapshot, answer, rebuild | the catalog is looked at outside the lock, a page reads the snapshot several times; what is left out of which sum | an undisturbed answer is current; the pages agree |
| Telemetry numerics, training | derived tables | pure computation | floating point | numerical tests |
| Web client, `apps/web/` | component state | requests, playback | stale responses, frames after a seek, effects that run late | the newest choice wins |

How they interact: the API's stores read through leases of the blob cache. The
corpus ingest runs under the worker lock of `provider_guard.py`, keeps its
progress in the lifecycle record, packs into the raw evidence store, publishes
through the detailed store, and takes its authority from the reconciled
inventory, which other commands write. The OpenF1 transport takes the same worker
lock and keeps its own budgets. Processes share nothing but files; a file
replaced through a temporary name and `os.replace`/`rename` is one atomic step,
everything else is not.
The telemetry service, the replay service and the web client's pages read what
those publish while it is being replaced.

## Modules

| Module | Models | Extends / uses | Run |
|---|---|---|---|
| `RuntimeBlobCache` | leases of the blob cache | | `cache_safety`, `cache_calls_end` |
| `RuntimeBlobCacheProofs` | theorems about it | `RuntimeBlobCache`, `TLAPS` | |
| `RuntimeCacheBootstrap` | how processes come to own a cache root | | `bootstrap_safety`, `bootstrap_race` |
| `RuntimeCacheBootstrapProofs` | theorems about it | `RuntimeCacheBootstrap`, `TLAPS` | |
| `RequestBudget` | one durable budget, as operators | | |
| `OpenF1Client` | the transport over two budgets | `RequestBudget` | `openf1_budget` |
| `HourlyBudget` | the hourly quota around it | `RequestBudget` | `openf1_budget` |
| `TransportGuard` | the guard around FastF1's requests | `RequestBudget` | `openf1_budget` |
| `Enrichment` | the leaf of one session, in both flows | | `openf1_budget` |
| `TransportProofs` | theorems about these four; lemmas about `RequestBudget` | the four, `TLAPS` | |
| `Lifecycle` | the job record, as operators | | |
| `CorpusPromise` | abstract: gather, archive, serve, discard copies of a session | | |
| `CorpusIngest` | one session through ingest, activation and release | `Lifecycle`, `CorpusPromise` (refinement) | `corpus` |
| `CorpusIngestProofs` | theorems about it, the refinement among them | `CorpusIngest`, `TLAPS` | |
| `Completion` | which sessions are over, and the catalog that says so | | `detailed` |
| `Acquisition` | the storage study's run over its frozen sample | | `detailed` |
| `DetailedStore` | revisions, their pointer, and the service that answers from them | | `detailed` |
| `TelemetryView` | the telemetry page | | `detailed` |
| `DetailedProofs` | theorems about these four | the four, `TLAPS` | |
| `ArchiveStore`, `ArchiveSync` | the archive on disk; its synchronization | `ArchiveSync` extends `ArchiveStore` | `archive` |
| `ArchiveSyncProofs` | theorems about the archive and its synchronization | `ArchiveSync`, `TLAPS` | |
| `Repository`, `ReplayService` | ingestion; the API's engines over it | `ReplayService` extends `Repository` | `repository` |
| `AnalyticsEngine` | the engine's snapshot, cache and derived store | | `repository` |
| `ServiceProofs` | theorems about ingestion, the service over it and the engine | `ReplayService`, `AnalyticsEngine`, `TLAPS` | |
| `Analytics` | the observations, and the pages made of them | | `repository` |
| `Normalization`, `ReplayEngine` | rows to records; records to states | in that order | `replay`, `replay_stints` |
| `Features`, `RaceStrategy` | what a model is given; a simulated race | on top of `ReplayEngine` | `replay`, `simulated_field` |
| `ReplayProofs` | theorems about these four, from rows to simulated races | `RaceStrategy`, `TLAPS` | |
| `Playback` | the replay page's clock | | `replay` |
| `MC*` | constants of the checked instances | | |

Where one run checks several modules that share no variable (`MCOpenF1`,
`MCDetailed`, `MCReplay`, `MCReplayService`), a behaviour is a behaviour of one of them, the others
standing still: their product would have more states and say no more.

### RuntimeBlobCache

A process has one `_LockState` per root: `mutex`, `depth`, `leased`; `flock` is
the OS lock on `.runtime-cache-lock`. `stack[t]` is the nest of leases thread `t`
is inside of, `pc`, `req`, `todo`, `missing` and `part` are the locals of a
running `lease()` call. `disk` and `unknown` are the root's files, `older` the
order of their modification times that eviction follows.

A call is a sequence of actions in the order of the code: `Request`,
`AcquireMutex` (or `MutexTimeout`), `AcquireFlock` (or `FlockTimeout`) for the
outermost level only, `Inspect`, one `VerifyIntact`/`VerifyMissing`/`VerifyLost`
per file, `ReserveFits`/`EvictOldest`/`ReserveFails`, then for each missing file
`StartPart`, `ReceiveChunk` and `Publish`, and `Grant`; `EndLease` is the end of
the caller's `with` body. `Raise` is the exception path shared by every failure:
it leaves the lock level and keeps an enclosing lease. `Crash` takes a process
at any step and leaves its `.part` file behind as an unknown file; `Damage`
spoils a published file at any time. A timeout may strike whenever the lock is
not free; how long a second is does not matter to any property.

Abstractions: a process uses one release at a time (another is chosen on
restart); the sizes of files are their manifest sizes; a linked path, a failed
traversal or the directory limit is `InspectFails`, possible on every call;
the set of missing files is downloaded in any order.

### RuntimeCacheBootstrap

The constructor's unlocked look at the root is three steps (`Probe`, `List`,
`SizeOfLock`), because other processes run in between; then `OpenLock`,
`TakeLock`, `WriteByte`, the second look `PreflightAgain`, `ReadContent`, the
creation and the writing of the marker as two steps, `CheckMarker`, and the body.
`lease()` goes straight to the lock. A process is one actor: its mutex is taken
around all of this.

### RequestBudget and OpenF1Client

A budget is its file: the timestamps, and `not_before`. The code sorts what it reads
and filters it; a history is written in order and stays so (`IntentCovered`, proved),
so the model keeps the end of it instead (`Retained`). `Reserved`,
`Deferred` and `Delay` are `reserve`, `defer_until` and `_budget_delay`.
`OpenF1Client` runs `__enter__` with the recovery of a pending attempt, `fetch`
with its waiting loop and its retries, `_finish_attempt`, and `__exit__`, one
action per durable write, so that `Crash` may fall between any two of them.
`wall` is what `time()` returns and may be set back, `real` is true elapsed time
(`monotonic()` and the provider's own clock): the history variable `sends`
records the real times of the requests, which is what the budgets are for. A time
step may happen anywhere, so durable writes may be arbitrarily slow.

Abstractions: time is discrete; the 1 ms minimum waits are one tick; a response is
accepted, refused or rate limited, whatever its body. The worker lock lets one
client object run at a time, so the instance has one, which `Construct` replaces by
a new one.

### Lifecycle, CorpusIngest and CorpusPromise

`CorpusIngest` follows `_session` and then `release_owned_session` with one
action per durable write, each guarded by what the code checks before it:
`Start`, `Download`/`Load`/`Capture` or `Adopt`/`SaveRecord`, `MarkCached`,
`ReadTables`, `Pack` or the copy of a frozen bundle, `MarkPacked`, `Restore`,
`RegisterOffline`, `SaveReceipt`, `StartNormalizing`, `PublishCandidate`,
`PublishRevision`, `MarkPublished`, `ValidateCanonical`, `MarkValidated`,
`Activate`, `MarkComplete`; then `Prepare`/`ResumeRelease`, `StartDelete` and
`FinishDelete` per copy, `MarkReleased`. `Refuse` is a check of the code that is
not met, `Fault` anything else that raises; both go through `Raise`, which fails
the job unless it is COMPLETE. The environment crashes the worker, damages the
bundle or the revision, and changes the session's entry in the inventory.

`CorpusPromise` is what all of that is for, in four variables' worth of state:
copies, an archive, and whether it is served. A copy may be discarded only while
the archive is intact and served. `CorpusIngest` is shown to implement it: the
copies are the owned directories that are whole, the archive is raw bundle and
canonical revision together, and it is served when the active pointer names it.

Abstractions: an identity is determined by the content it names, so a stored
identity that differs from the recomputed one is a damaged artifact; the gate's
check is merged with the operation it precedes; the proofs read immediately
before a removal and the start of that removal are one step; attempts and offline
copies that no record names are not tracked, as nobody reads them; an active
pointer naming a foreign revision, which `activate` refuses, is not modelled.

### HourlyBudget

The production client of `corpus_openf1_transport.py` wraps the transport above:
before the base's reservation it reserves in an hourly history and writes an
intent; after the send it anchors both. `OpenHour` is the first run, which finds
no history and starts from what the base's two files say; `CheckHour`,
`DeferHour`, `RecoverBase` and `DropIntent` are the recovery; `ReserveBase` to
`ClearIntent` one request. The base is one history and one pending attempt here,
because `OpenF1Client` has it in full; its requests by the study, before the
production run, are `StudyRequest`. `Kill` may fall between any two steps.

### TransportGuard

`guarded_transport` replaces FastF1's transport while an operation loads a
session. `GuardAsks` is a request that passes `check_permission`, `Paced` the wait for
the budget, `Receive` an answer as the hooks see it, `NativeRejection` the
exception of FastF1's own limiter, `EndGuard` the end of the load as the loader
sees it: the loader may have swallowed every exception, so it asks on and ends
"whole" whenever it likes. The budget and the last rejection outlive the
operation, the latches do not.

### Enrichment

One session's leaf, in both flows: `flow` is "study" (`detailed/openf1.py`) or
"corpus" (`detailed/corpus_openf1.py`). The run is admitted under an `authority`
(`Admit`), makes or resumes the leaf, and goes through the endpoints in order:
`Ask`, then `Wire`, `Note` and `Index` (wire bytes, attempt record, index of
attempts), then `Point`, `Columns`, `Describe` (source pointer, table, record),
or, in the corpus, `Failure`; at the end `Seal`. Each is a durable write of its
own and `Die` may fall between any two. `Resume`, `RecoverSource`, `Reuse`,
`Skip`, `Refuse` and `StayDenied` are what a later run makes of what it finds.
`Change` publishes another gate or another native revision under a running one.
An answer is one of seven kinds: usable rows, a 404, a body that is no JSON, rows
of another session, a body cut short, a denial, an error.

### Completion

The evidence of the detailed flow, from a feed that is still being written to a
catalog that says which sessions are completed. `Discover` and `DiscoverProvider`
publish the two inventories, `Reconcile`, `Capture` and `Reconciled` capture the
status feed of each session, once; `Derive`, `CaptureArchive`,
`ProveIndependently` and `Promote` add the four kinds of evidence beside it;
`StartFinalize`, `AskArchive`, `ReadProvider` and `WriteCatalog` classify every
session and bind the catalog to what was read; `ReadyInventory` is the gate every
reader calls. Anybody may run anything again at any time, the world goes on
(`Elapse`, `Publishes`, `CallOff`), and a finalization may be overtaken half-way;
`torn` remembers that it was.

`FreezePlan` is the study's plan: once, of any complete catalog, it draws a sample
(`Sampled`) that takes from each stratum as many sessions as it asks for, and one
that OpenF1 lists in 2023 wherever there is one (`Pinned`). `Validated` is what
`validated_frozen_plan` then accepts: what was selected is completed as it was, and
the catalog is the frozen one (`Unchanged`) or has `Grown` from it. Growth is first
of all strict (`StrictGrowth`): of the same sources, nothing changed but that
sessions still to come were newly proved. It must also be covered: a completed
session of a stratum the sample has nothing of, or that OpenF1 lists where the
sample's sessions of that stratum are not listed, is `Uncovered`, and the plan is
refused ("current eligible stratum lacks frozen sample coverage"). A plan is therefore
lost to the first session of a new stratum, on purpose; `PlanOutlivesGrowth` says
that this is the only growth it is lost to. A stratum and the season OpenF1 lists a
session in are constants of the session (`Kinds`).

Abstractions: what was captured of a feed is a number of its records, a digest
the version of a document. A feed publishes its rest at once when it was captured
before; a 404 is an answer that is not "Complete"; errors of all kinds share one
bound; the page of official classifications is reviewed or not. Rows only the
provider has, an index that cannot be read, revisions of the schedule and the
timestamps of a plain capture are left out. A temporal capture and its promotion
are one step. Which sessions of a stratum the seed draws is left open, which covers
the pins of known wet races and of earlier captures; plans of another seed, edited
plans and snapshots, and the journal's digest of the plan are left out, as is the
accounting of a catalog (`summary`, `provider_entries`), which finalization derives
from its rows. Of a session already in the catalog of a plan OpenF1's key does not
change while the provider's list is the same.

### Acquisition

`run_study`: `Freeze` or review of the plan, `ReadJournal` and `Survey` before the
worker lock, `TakeLock`, then per selected session `Reuse`, `Continue`,
`ResumeCapture` or `Open`, `MakeAttempt`, `NameAttempt`, `MarkLoading`, `Load`,
`WriteTable`, `Captured`, `PublishAttempt`, `PublishMeasurement`, `Passes`,
`MarkComplete`, and `Finish`. `Error`, `Stop`, `CapacityStop` and `Die` may
strike at every working place; each does to the journal what its handler does.
Two runs may overlap: the second reads the journal before it waits for the lock.
Measurements differ by the time their capture took, so that none equals another;
they are numbered. What `validated_frozen_plan` says of the catalog (`valid`) may
change at any time.

### DetailedStore

`publish` is `Publish`, `Put` (the rename), `Validate` and `PointAt`; several
publishers may run it. The service's calls are `Ask`, `Pin` (the manifest, named
or active), `Lookup` in its cache, `ReadLaps`, `ReadSamples` and `Keep`.
`SpoilRevision` damages a revision in place.

### TelemetryView

The page's hook as React runs it. A user's action (`ChooseSubject`,
`ChooseDriver`, `ChooseLap`, `ChangeView`, `PopState`, `Retry`) is handled,
rendered and followed by its effects at once; what a response sets (`pend`) is
rendered later by `Commit`, and the effects of that render later still by
`Effects`. An effect runs when its dependencies (`Deps`) changed since it last
ran, aborts what it had asked, and may ask anew. Requests that were aborted do
not answer, the others answer in any order.

### ArchiveStore and ArchiveSync

`write_session` is `LockSession`, `Publish` or, over a damaged copy, `MoveAside`
and `MoveIn`, then `Point` and the reading back; readers (`ReadPointer`,
`ReadManifest`, `ReadTable`) hold no lock. `ArchiveSync` is the command around
it: `Take` the lock "archive-sync" or `GiveUp`, `WriteFetching`, `FetchDump`,
`FetchSchedule`, `Select`, then per race `PassOver`, `ListUnraced` or a
`write_session` that may `FailRace`, `Progress` every so many races, and at the
end `SaveCatalog`, `SaveReport`, `Final`, `Unlock`. A command names a range of
years, perhaps one session of it to repair, and whether upcoming races are
wanted; `Rebuild` is `rebuild_catalog`. The world moves: races are run,
cancelled, and dumped again; sessions get detailed data. Writers die and files go
bad. A revision is named by the dump it came from and by whether the session has
detailed data, which is what changes its digest.

### Repository and ReplayService

An ingestion is `Begin`, `CheckCache` (skipped with `--force`),
`LoadFromProvider`, `CommitRawSnapshot`, `LoadRawSnapshot`, `CommitDataset`,
`VerifyManifest`, `PointAt`, `WriteAlias`, without any lock; two of them may run,
each may `Die` anywhere, and a snapshot or dataset may be damaged (`Spoil`).
Several names lead to a session. `ReplayService._engine` resolves the name
(`Resolve`) and reads the identity (`ActiveIdentity`), answers from what is `Kept`,
or reads the session and then its events, each through alias and pointer as they
are then, reads the identity again (`IdentityAgain`) and `Store`s. What
`ActiveDataset` leads to may differ from the pointer of the session itself, as a
session's own name may be an alias. `moves` is not in the code: it counts, up to
two, how often the session came to lead elsewhere since the identity was read.

### AnalyticsEngine and Analytics

`AnalyticsEngine.snapshot` is five steps, because the archive and the other
threads run in between: the catalog's time (`Stat`), the look at the snapshot
under the lock (`Check`), the catalog (`LoadCatalog`), the second look (`Enter`),
which may take the lock for the whole of a build; then the derived store's
manifest and file (`ReadManifest`, `ReadFile`) or the races one by one
(`BuildRace`), and `Install`, which empties the cache. `_cached` reads the
snapshot once for the key (`Lookup`) and, in the page's builder, `Lookups` times
more, and keeps the answer (`PutAnswer`). `analytics rebuild` is a process of its
own, and swaps the derived store in two renames. Around them a synchronization
publishes tables and saves catalogs with a revision that is new, kept or old.
What a snapshot holds is how often each race's tables were published.

`Analytics` is what the pages say: `EventObservations`, `Summary`, `Coverage` and
one operator for each page, list, comparison and ranking. The only action,
`Happens`, lets the next event of a calendar come out in one of several ways.
Drivers, teams and circuits are numbered as their names sort; an average is its
sum and its samples.

### Normalization and ReplayEngine

Definitions, not processes: the rows a provider gives (`Sessions`, enumerated)
are made into records, stints and stops, refused if not `Valid`; `Timeline`
orders the events of a session as `build_timeline` does, `Apply` is the reducer,
`Opened` makes the checkpoints and the lap cursors, `StateAt` answers from the
nearest checkpoint. The actions are `Ingest`, `Open` with a checkpoint interval,
`AskTime` and `AskLap`. The reference is the definition itself: a fold of all
events from the start.

What a session may be made of is `SessionsAssumption`: finite tables whose rows
differ, with cells the records of `domain/models.py` accept (`LapRow` and its like);
times and numbers are natural numbers or missing. A time asked about is a natural
number (`TimeAssumption`): `state_at` refuses any other. Events of one instant,
kind and driver are ordered by a digest of the record they come from; here by its
number, and two stops of a driver that begin or end together by their laps and then
by their other end (`Other`). Two such stops differ, so the order is total, as a
digest's is.

### Features and RaceStrategy

On top of a session that was ingested: `BuildDataset`, `Predict` and `Simulate`
ask a question each (`advice`), computed as `CanonicalFeatureBuilder`,
`MLInferenceEngine` and `StrategyEngine.build_state` do; a simulation then runs
one path of the race, a lap at a time (`Start`, `NextLap`), in the order the
engine's queue has. `Compare` generates the candidates and asks what `compare`
refuses. The time of a lap and of a stop are any of a small set: models, noise,
quantiles and rankings are left out. `RaceAssumption` is what the properties need of
them: a lap takes some time (45 s at least, `strategy/engine.py:453`), a stop does not
shorten it (`strategy/composition.py:168`), and laps and distances are counted.

### Playback

`useReplayController` and `useRaceSnapshot`, with the same discipline of renders
and effects as `TelemetryView`, and the refs, which handlers, frames and effects
write at once: play, pause, seek, scrub, visibility, refresh, frames (`Tick`), a
read of the snapshot that answers or fails (`Response`), and the next poll
(`Again`).

## Runs

| Run | Instance | Properties |
|---|---|---|
| `cache_safety` | 3 threads in 2 processes, 2 releases, 3 files, 3 bytes and 2 files of room, nesting 2, 1 crash, 1 damage | `LocksAccounted`, `MutualExclusion`, `LeasedPresent`, `OnlyCheckedBytes`, `WritesWithinLimits` |
| `cache_calls_end` | the same without nesting, crash and damage | `CallsEnd` |
| `bootstrap_safety` | 3 processes, 1 crash, every kind of initial root | `HalfWrittenNeverSeen`, `NeverAdoptsForeign` |
| `bootstrap_race` | 2 processes, no crash | `CompetitorsWait`, violated |
| `openf1_budget` | transport: limit 2 per 3 ticks and 1 per tick, cooldown 3 or 4, 6 ticks, clock set back once, 1 crash; hourly quota: the same limits and bounds; guard: the same limit, 3 answers per operation; leaf: 2 endpoints, 2 deaths, 2 requests per endpoint, 1 change of authority | `WithinBudget`, `IntentCovered`, `HourKept`, `GuardKept`, `VerdictsHold`, `AskedOnce` |
| `corpus` | one session, frozen or not, 2 inventory entries with 2 changes, 3 crashes, 2 faults, 1 damage | `CheckpointBacked`, `DiscardsOnlyCurrent`, `PromiseKept`, `Recovers` |
| `detailed` | completion: 2 sessions, one with any of three awkward feeds, and 1 still to come, 2 discoveries, 1 reconciliation, 2 finalizations, 1 error, 4 of these in all; the plan: 3 sessions of 2 strata, 1 of them still to come, the same commands without errors; acquisition: 1 session of 1 table, 2 runners, 3 runs, 2 troubles; store: 2 revisions, 2 publishers, 2 workers, a cache of 1 answer, 2 faults; page: 2 subjects with 1 and 2 laps | `CompletedIsOver`, `ReadyIsCurrent`, `PlanOutlivesGrowth`, `Authoritative`, `Resumable`, `PinnedAnswers`, `ShownIsSelected`, `NeverWaitsForNothing` |
| `archive` | 2 races, 2 processes, 1 reader, 3 commands in all, 2 moves of the world, 1 damage, 2 troubles (damage, failure or crash) | `ReadersUndisturbed`, `TargetedKeepsOthers`, `CompleteIsTrue` |
| `repository` | ingestion: 1 session under 2 names, 2 contents, 2 concurrent ingestions, 1 thread, 1 trouble; analytics: 2 threads, 2 races published once each, 1 new catalog, 1 page of 2 reads, a cache of 1 answer, 1 rebuild; pages: 3 events at 2 circuits in 2 seasons, each with any of 18 outcomes | `OneDatasetPerSnapshot`, `PointersBacked`, `EngineIsItsDataset`, `FreshAnswers`, `PagesAgree` |
| `replay` | rows of 2 drivers and up to 5 laps, checkpoint intervals 1 to 3, times to 8; strategies of two stops; a page of 3 instants and 3 acts | `StateAtIsReplay`, `NoLookAhead`, `StopsPairUp`, `AdviceCausal`, `RacedAsAdvised`, `PausedShowsState` |
| `replay_stints` | the same rows, no page | `NewStintShown`, violated |
| `simulated_field` | the same races | `NextLapNotStarted`, violated |

Each property has a mutant in `PROJECT.json`: a plausible bug in a mapped
definition that makes TLC find the property violated under the same instance.

Why the bounds are enough.

- Cache: it cannot hold all three files, so that eviction, refusal for lack of
  room and the interplay of nested requests with eviction all occur; two threads
  of one process contend for the mutex, the third for the file lock; a second
  release finds the first one's files as foreign.
- Budgets: six ticks hold two full windows, a recovery cooldown and a retry, with
  the one crash in any place of either. The one setback of the clock is larger
  than the spacing and falls between any two steps. The guard has room for a
  rejection, its cooldown and the next worker's first requests.
- Leaf: two endpoints let one be left half done while the other is whole; two
  deaths let a resumption be cut short itself; the second request is the one that
  must not be made.
- Corpus: three crashes and two faults let a recovery and the recovery of that be
  cut short; two changes let the entry come back to what it was.
- Completion: the three feeds are a red flag, two statuses of one time, and a
  file without its last line; four commands are a discovery, a reconciliation, a
  finalization and one of them again, or the error. The plan: two sessions of one
  stratum, of which OpenF1 lists one in 2023, let a sample be good or bad for what
  was there; when one of the two is still to come its growth is covered, and when
  the third is, which is of a stratum of its own, its growth is not. A plan made of a
  ready catalog with troubles behind it is in the first part, where a session is
  called off only while a discovery may still learn of it, as nothing else reads
  that it was. Acquisition: three runs are a
  run that dies, one that overlaps, one that has to cope with both.
- Archive: two races, of an earlier and of this season, are what the ranges, the
  targeted repair and the season's own pages tell apart; with two processes one
  waits or works on another session's lock; a revision goes bad once, and a
  replacement is cut short once.
- Repository: two names and two contents in two ingestions let a pointer move
  while it is followed; that it may move any number of times is what the proofs add.
- Analytics: two threads build and answer across each other, a save of the catalog
  falls between any two of their steps, and a key and its parts come from different
  snapshots. Of the outcomes of a race each is unusual in one thing: somebody withdrew,
  retired, was disqualified or stranded but classified, has no status, grid or
  finish; the first or the second place is shared, the first place was taken away
  from one who has it still, with a winner beside him or without; the race has no
  laps or no stops, three drivers or one, is of no use, or is cancelled.
- Replay: five laps let a checkpoint fall before, between and after the events of
  one instant, stops be half observed, laps be without times, stints disagree. One
  thing is unusual in each race that advice is asked about: a deleted, generated,
  inaccurate or unclear lap, a lap without a time or an end, a stop open or
  closed, a restart, a flag, rain, positions that are missing or tie.

The bounds bound the environment (crashes, faults, damage, changes, clock, runs,
acts), and the nesting of leases, never the code: `MaxNest`, `MaxCrashes`,
`MaxDamage` (cache); `MaxCrashes` (bootstrap); `MaxReal`, `MaxBack`, `MaxCrashes`
(transport); `MaxElapsed`, `MaxSetbacks`, `MaxKills` (hour); `MaxHours`,
`MaxAnswers` (guard); `MaxDeaths`, `MaxRequests`, `MaxChanges` (leaf);
`MaxCrashes`, `MaxFaults`, `MaxDamage`, `MaxChanges` (corpus); `MaxRounds`,
`MaxTotal`, `MaxCancelled` (completion); `MaxRuns`, `MaxTroubles` (acquisition); `MaxFaults`
(store); `MaxRuns`, `MaxMoves`, `MaxDamage`, `MaxTrouble` (archive);
`MaxIngests`, `MaxTrouble` (repository); `MaxSaves`, `MaxPublished`, `MaxRebuilds` (analytics); `MaxActs` (page). Symmetry is used only
in safety runs, of processes, threads, contents and revisions that nothing tells
apart. Deadlock is checked in the cache, bootstrap and corpus runs; the others stop
where a bound on time, runs or questions is used up.

### What the violated runs show

`bootstrap_race` contradicts the docstring of `cache.py` ("competing
threads/processes wait with a bounded timeout"). Process 1 holds the lock and is
about to create the marker. Process 2, with no lock yet, finds no marker
(`cache.py:123`); process 1 creates it; process 2 lists the directory
(`cache.py:124`), finds the marker in it, and refuses the root as populated by
somebody else. The root is fine and a second attempt succeeds; the safety
properties of `bootstrap_safety` hold throughout.

`replay_stints`: the end of a stint's first lap can coincide with the start of the
stint. The change of stint has a lower priority number than a completed lap, so
it is applied first, and the lap's own stint, the old one, then replaces it: a
driver is shown on the old tyres until the next lap ends.

`simulated_field`: when the last lap of a background car is deleted, the replay
does not count it, and the strategy engine starts that car a lap behind and lets
its first stop be on a lap it has already begun, unlike what the contract of a
driver's state says.

### Observations that are not violations

Things met while modelling that no document or test of the repository denies.
Some are exemptions in a property, which then names this section.

Cache.
- A process that dies after creating the marker and before writing it leaves an
  empty marker, which every later process refuses.
- A process that dies while streaming leaves a `.part` file that counts against
  the limits and is never removed.

Corpus.
- A frozen bundle's half-written `.copy` stops all later runs until a person
  removes it, as the code intends; likewise a session whose entry changed after
  it was captured, or whose artifacts were damaged. They are the exceptions in
  `Recovers`.

Archive.
- `rebuild_catalog` turns every active session into a completed one and drops the
  listing of cancelled ones. A full synchronization of a narrower range replaces
  the whole catalog. A race that fails in a full synchronization is shown as
  failed although an older valid revision is active. During a synchronization the
  catalog's revision and the pointer differ.
- `exclusive_lock` waits for the OS lock with a limit, behind a thread lock that
  has none. `seasons()` reads the index twice.

Repository and services.
- A forced ingestion of the same content cannot repair a damaged dataset or
  snapshot. Two concurrent ones can move the pointer back to the older.
- An engine may be built of two datasets when the pointer leaves and comes back
  between the two looks: the exemption in `EngineIsItsDataset`.
- `SessionService._available_table` checks availability in one manifest and reads
  through another. `list_sessions` fails as a whole for one damaged session. The
  inference and strategy services cache under an identity they read before
  loading, and do not look again.
- Analytics: a snapshot is recognized by its source revision, which does not stand
  for the catalog's content: `rebuild_catalog`, and a synchronization of the same
  dump that finds new detailed sessions, keep it, and a repair may bring an earlier
  one back. The engine and the derived store then stay stale: the exemptions in
  `FreshAnswers`, which excludes a revision that was kept or came back. An answer
  that a synchronization overlaps may be made of several snapshots, and be kept
  under the key of the first. The derived file is hashed and then read again.
- The pages of the analytics engine disagree in four places, which `PagesAgree`
  states as they are. A circuit's page counts its winners without regard to their
  outcome, its list counts classified ones. Of two drivers who share the first place
  both have won, but the lists and the race's page show one winner. Two drivers with
  the same finish in a race are in no count of their head to head, not even the
  excluded. A season none of whose races counts reports the exclusions of all seasons.

Replay and normalization.
- The compound of a stint is taken from all of its laps, so that laps that
  disagree make a replay know a compound before it was seen. `NoLookAhead` asks only
  of sessions whose stints are on the tyres of their first lap (`FirstTyres`). What
  is known at a time is a driver's laps up to the last one of which something
  has happened, with the times that have come (`Cut`): a lap without any time is known
  once a later one is.
- Status changes are deduplicated in the order of time and record identity, but
  events are ordered by source before identity. A second entry to the pits without
  an exit is not counted as a stop. No timeline holds a driver-status event, so no
  driver ever retires.

Models and strategy.
- The facts of a row (deleted, accurate, ...) have no time of their own: a
  later deletion changes what was known. `AdviceCausal` compares with what the
  rows up to then say.
- Nothing checks the times of a stop against those of its lap. An entry to the pits
  observed after the end of its lap keeps that lap from being an example before it
  could be known; `AdviceCausal` asks only of sessions whose cars enter and leave the
  pits within their laps (`PitsInLaps`).
- The reference lap comes from positions; without them a car may have done the
  distance already and drive another lap: the exemption in
  `RacedAsAdvised`. A lap without an end whose successor has begun leaves the
  car on the earlier lap.
- `compare` checks that one strategy wins all modes, not that it is the one it
  recommends; only the runner-up is compared pairwise, ties go by list order. Near
  the end of a race only "stay out" is generated, and `compare` then fails because
  it wants two. The page computes the first lap a driver can stop on from the last
  snapshot while it sends the current cursor.

OpenF1 and FastF1.
- A crash between the directory and `binding.json`, between wire bytes, attempt
  and index, between a malformed body's pointer and its failure record, or with a
  temporary left behind, makes every later resumption refuse the leaf. A 401 or
  403 whose bytes never reached the disk is asked again after a crash; the study's
  flow asks again after a persisted denial or error. The study's client keeps no
  hourly history.
- A native limiter of FastF1 below the guard may delay a reserved request, so the
  sends of an hour are not the reservations of that hour; setbacks of the clock
  are not modelled in `TransportGuard`.

Study and evidence.
- A crash between an attempt's directory and the journal leaves an attempt no
  journal names. An error between the two publications of a measurement marks the
  session failed; the next run loads it again, measures something else, and fails
  for ever. Two first runs can each write a plan, after which every run refuses. A
  catalog that loses its readiness between the two checks of a run turns a
  captured record into a failed one. A run with a stale journal that reloads a
  measured attempt changes its raw cache, and the freeze then refuses it.
- Finalization reads both inventories and takes their digests later: hence `torn`.
  Running the reconciliation again replaces a finalized catalog by a raw one. A
  feed captured during a red flag is never captured again, nor an archive answer
  that was not "Complete". Any discovery after a proof makes the proof stale and
  stops every reader. An archive answer captured after a plan was frozen changes a
  binding that growth does not cover, and the plan is refused.
- The command that makes a plan takes any complete catalog, even one that is not
  final, no longer ready or has unverified sessions; such a plan is refused, or lost
  as soon as one of them is decided, and cannot be made again: `PlanOutlivesGrowth`
  asks only of plans of a catalog without any, over which nothing was replaced
  while it was made (`PlanMade`). Nothing pins a session
  that OpenF1 lists after 2023. If the sample of its stratum has none, the plan is
  refused at the first growth of whatever kind, for a session that was there to be
  chosen: the exemption `Pinless`.

Web client.
- A choice made between a response and its render may be lost to the state the
  handler closed over. One of the page's two `epoch.begin()` calls is redundant.
- A frame between a render and its effects may leave the cursor beyond the state
  shown while paused, until the next read. One failed poll ends polling while
  playing until pause, seek or refresh. A toggle right after the end of the session
  uses a stale `playingRef`.

## Fairness

`CallsEnd` assumes that a `lease()` call in progress is scheduled
(`WF(Step(t))`): each step is ordinary sequential code, a bounded wait or a poll
with a deadline. The bodies of leases are the callers', and are not assumed to
end. `Recovers` assumes that the worker runs (`WF(Work)`), and that the operator
keeps running the command with the release asked for (`SF(Start(TRUE))`: strong,
because runs without the flag may come in between). `PausedShowsState` assumes
what the browser and React do: a scheduled frame, render and effect run, a request
answers or fails, a timer fires, and a hidden document is shown again some day
(weak fairness of each); never that the user acts. Crashes, faults and the user's
acts are bounded by the instance, never assumed away.

## Proofs

Each theorem is about the specification the runs check (where a run takes modules
together that share no variable, about the module's own part of it), for every value of
the constants that the module's named assumption allows. Constants that only bound the
instance (crashes, time, ingestions) are arbitrary natural numbers.

| Theorem | States | Assumes |
|---|---|---|
| `RuntimeBlobCacheProofs!TypeCorrect` | `[]TypeOK` | `ConstantsAssumption` |
| `RuntimeBlobCacheProofs!LocksAlwaysAccounted` | `[](LocksAccounted /\ LeaseCounts)` | the same |
| `RuntimeBlobCacheProofs!NeverTwoInside` | `[]MutualExclusion` | the same |
| `RuntimeBlobCacheProofs!LeasedFilesStay` | `[](LeasedPresent /\ RequestKept)` | the same |
| `RuntimeBlobCacheProofs!PublishedBytesAreChecked` | `OnlyCheckedBytes` | the same |
| `RuntimeBlobCacheProofs!WritesStayWithinLimits` | `WritesWithinLimits` | the same |
| `RuntimeCacheBootstrapProofs!RefusedMarkersAreLeftovers` | `[]HalfWrittenNeverSeen` | `BootAssumption` |
| `RuntimeCacheBootstrapProofs!ForeignRootsUntouched` | `NeverAdoptsForeign` | the same |
| `TransportProofs!IntentsAreCovered` | `[]IntentCovered` | `ClientAssumption` |
| `TransportProofs!BudgetsAreKept` | `[]WithinBudget` | the same |
| `TransportProofs!HourIsKept` | `[]HourKept` | `HourAssumption` |
| `TransportProofs!GuardHolds` | `[]GuardKept` | `GuardAssumption` |
| `TransportProofs!VerdictsAreTrue` | `[]VerdictsHold` | `EnrichmentAssumption` |
| `TransportProofs!AskedOnlyOnce` | `AskedOnce` | the same |
| `CorpusIngestProofs!CheckpointsAreBacked` | `[]CheckpointBacked` | `CorpusAssumption` |
| `CorpusIngestProofs!DeletesForTheMoment` | `DiscardsOnlyCurrent` | the same |
| `CorpusIngestProofs!KeepsPromise` | `PromiseKept` (refinement of `CorpusPromise`) | the same |
| `ServiceProofs!NamesLeadToSnapshots` | `[]PointersBacked` | `RepositoryAssumption` |
| `ServiceProofs!FetchedAgainIsTheSame` | `[]OneDatasetPerSnapshot` | the same |
| `ServiceProofs!EnginesAreTheirDatasets` | `[]EngineIsItsDataset` | the same |
| `ServiceProofs!AnswersAreFresh` | `[]FreshAnswers` | `AnalyticsAssumption` |
| `DetailedProofs!AnswersArePinned` | `[]PinnedAnswers` | `StoreAssumption` |
| `DetailedProofs!ShownIsOfTheSelected` | `[]ShownIsSelected` | `ViewAssumption` |
| `DetailedProofs!WaitsForAnAnswer` | `[]NeverWaitsForNothing` | the same |
| `DetailedProofs!MeasurementsAreAuthoritative` | `[]Authoritative` | `AcquisitionAssumption` |
| `DetailedProofs!InterruptedIsResumable` | `[]Resumable` | the same |
| `DetailedProofs!CompletedSessionsAreOver` | `[]CompletedIsOver` | `CompletionAssumption` |
| `DetailedProofs!ReadyCatalogsAreCurrent` | `[]ReadyIsCurrent` | the same |
| `DetailedProofs!PlansOutliveGrowth` | `[]PlanOutlivesGrowth` | the same |
| `ArchiveSyncProofs!ReadersAreUndisturbed` | `[]ReadersUndisturbed` | `ArchiveAssumption` |
| `ArchiveSyncProofs!TargetedRepairsKeepOthers` | `TargetedKeepsOthers` | the same |
| `ArchiveSyncProofs!CompleteRunsAreTrue` | `CompleteIsTrue` | the same |
| `ReplayProofs!PitStopsPairUp` | `[]StopsPairUp` | `NormalizationAssumption`, `SessionsAssumption` |
| `ReplayProofs!StateIsReplay` | `[]StateAtIsReplay` | the same, `TimeAssumption` |
| `ReplayProofs!NothingOfTheFuture` | `[]NoLookAhead` | the same |
| `ReplayProofs!AdviceKnowsNoFuture` | `[]AdviceCausal` | the same |
| `ReplayProofs!RaceAsAdvised` | `[]RacedAsAdvised` | the same, `RaceAssumption` |

**The blob cache.** `TypeOK` is not inductive alone: `depth` and the lease counters
are decremented, and stay natural numbers only because a level, or a lease, is there
to be left. `LocksAccounted` says who owns what at each place of a call, and
`LeaseCounts` that a counter is the number of frames of the one stack that can be
non-empty, the mutex holder's. Together these three are inductive, with one step
per action; the lemmas about `Frames` (what pushing and popping a frame does to
the set of positions holding a file) carry the counting. Mutual exclusion is then
a consequence of the first two conjuncts of `LocksAccounted`: two holders are in
the process that owns the file lock, and both are the holder of its mutex. That
files stay is inductive relative to these: only the single holder removes files,
it removes none that its call protects or that a frame of its own stack counts,
and no other stack has a frame. `TypeOK`, `LeaseCounts` and `RequestKept` are part
of the induction and no run checks them separately.

For the two action properties `DownloadInv` says of the thread inside that what it
misses is absent and unleased since it was verified, that its `.part`, the only one
there is, is of a missing file and no longer than it will be, and that from `_reserve`
on there is `Room` for everything missing. A publication then puts checked bytes where
nobody reads; a new or longer `.part` stays within what was reserved, and publishing
it or leaving it behind in a crash only renames it. The limit on bytes is about sums,
and `MapThenSumSet` is a recursive function picked by a `CHOOSE`: that there is one,
and that any element can be taken out of a sum (`SumRemove`), is proved by induction
over the subsets of a finite set. The library's induction theorems have an operator
as parameter, which no prover here instantiates; `SubsetInduction` states it of a set
of subsets and follows from two that have none, `WFMin` and
`FS_StrictSubsetOrderingWellFounded`.

**Its bootstrap.** What a process found out about the root is true when it acts on
it, though it looked in earlier steps: `HolderInv` says that whoever is past the lock
holds it, and `RootInv` what each place inside means for the marker, the lock file
and the other files (`Knows`). A marker once whole stays whole, which is what a
ready process and a lease in progress rest on.

**The OpenF1 transport.** Four invariants, each inductive with the ones before it.
`OwnerInv`: a fetch has an owner, which is not latched before its answer came.
`PendingInv`: no intent is left on disk while another request is prepared; it is
why a new reservation cannot lose the old one. `ReservedInv`: an intent, and a
request about to get one, finds a timestamp as young in both budgets, which stay in
order; a reservation and an anchoring keep this because the clock was seen not to
have gone back, and the lemmas about `RequestBudget` say so of `Reserved`,
`Deferred` and `Delay`. `QuietInv`: what is still quiet on the real clock is at most
what is left of the cooldown on the wall clock, which a clock set back only makes
longer; once a probe found no delay, it holds up to the send, as `quiet` changes
nowhere on the way.

**Requests are spaced.** The history forgets, and a recovery replaces timestamps by
a cooldown, so the requests sent cannot be read off the budget. `CoversAll` says what
can be: for every m, the m-th last request is older than the window, or the budget's
cooldown lasts until it is, or the m-th last timestamp is no earlier than it was sent
(in time left on either clock; the wall clock is never ahead of elapsed time,
`ClockNeverAhead`). Between a reservation and the send there is one timestamp more
than requests (`MinuteAhead`, `SpacingAhead`); from the send until the anchoring, or
until a recovery has deferred everything, the last request need not be covered
(`MinuteDue`, `SpacingDue`) because the intent on disk stands for it. A delay of zero
with everything covered means that the window is `Free`, and a request sent into a
free window is spaced. A probe is made at a time that is written down later
(`reservedAt`), so `ProbedInv` states its cover for that time and not for now.

**The hour.** The same cover, of one budget and of requests of two flows. The
study's requests have no timestamp; the first history a production client creates
begins with a cooldown of the whole window, which is what `StudyCovered` and
`FirstInv` follow until it has passed.

**The guard.** The latch of an operation holds what went wrong in it, and the
budget's `notBefore` covers the hour after the last native rejection: the two are
inductive with the types, and each half of `GuardKept` follows from one.

**The leaf of a session.** `LeafInv` has a part for each thing a later run may find.
`FilesInv`: an attempt record has its wire file, an endpoint one whole answer, and
every file is named unless a run was cut short between the wire bytes and the index;
a run that goes on has checked that. `MadeInv`: pointer, table and record are made
of that answer, in this order, so that whatever a death leaves of them is written
again as it was. `HereInv` follows the answer from the wire to the record and
`DoneInv` says that the endpoints before it are described or have failed; at the last
one they make the report's claims true (`SealStays`). For the corpus, `CorpusInv`
says that a run that goes on has only answers it accepts and the authority its leaf
is bound to. `AskInv` counts requests: an endpoint asked for once more than runs have
died is in flight, has failed, has an answer other than an error, or its leaf's
authority is gone for good (`Spent`); at `Ask` none of the four is so.
`RefusedOnlyIfTorn` is inductive relative to it: what may excuse a refusal never goes
away (`OnlyRefuseRefuses`).

**The corpus.** The checkpoints form an order, which `Rank` finds with a `CHOOSE`;
the proof resolves it once (`Ranks`) and reasons with the sets of checkpoints from
one on (`FromCached` to `FromValidated`). `Backed` alone is not inductive: the worker
writes an artifact in one step and its checkpoint in a later one. `Knows` holds
what it relies on at each place, and as damage leaves a damaged artifact rather
than none, no step of the world takes it away. For the promise the state is seen
through `dup`, the two artifacts and `active`: a step is `Gather`, `Archive`, `Serve`
or `Discard`, or shows nothing. That deletions are for the inventory of the moment
follows from `StartDelete` reading the inventory anew in the step that begins one.

**The repository.** There is no lock, so nothing a command reads need be true at its
next step, except what no command undoes: `Grows` says of every step that a
snapshot's first time, a dataset in place and a pointer that leads somewhere stay.
`Knows` lists what a command relies on at each place, all of it of that kind, and
so survives the steps of every other command (`OthersKnow`); with it
`PointersBacked` is inductive, and `OneDatasetPerSnapshot` follows from its last
conjunct.

**The replay service.** `Follows` says of a request what the second look at the
pointer can know. While the session still leads to the key's dataset (`moves` 0)
everything read so far is of that dataset; once it leads elsewhere (1) it is not the
key's, so the second look starts again; when it has moved twice nothing is claimed,
and the property exempts it. An engine that is stored is then of its key.

**The analytics engine.** The proof uses no lock. A snapshot is right because of
what was read before what: the catalog's time before its revision, the revision
before the tables. `Agrees` relates what was read for a revision to the tables:
published tables leave the catalog pending, and the save that ends this has a new
revision, so what agreed goes on agreeing. The key of a cached answer is no later
than any of its parts (`Parts`); a request that has looked at the time and not yet
compared it is no later than what already carries that time (`Stamped`, `Behind`).
An answer nothing overlapped then has parts of one revision, which is the catalog's.

**The detailed service.** A request's reads are all of the revision it pinned, since
a revision once named is read by name; the cache then holds only answers `Labelled`
with what they were read from, and taking one out, moving it to the end or cutting
the oldest off keeps this (lemmas about `RemoveAt`, `Append` and `SubSeq`).

**The telemetry page.** `ShownIsSelected` is a conjunct of `OfSelection`, which
says the same of what is asked for and of what has come and is not rendered. It is
inductive only with two others. `CatalogFirst`: while the catalog is on its way
nothing else is, so its answer, which may change the subject, finds nothing to
outlive. `OfExisting`: a comparison that came is of a lap that exists, so the laps'
answer, which may replace the lap, does not replace that one. `EffectsInv` is what
the page waits for: unless effects are due they ran for what is rendered, and a
bundle they wanted is asked for or has come.

**The study.** What a run did is on disk as attempts, measurements and the journal,
and `AcquisitionInv` relates them without the run: a measurement has one owner among
the attempts (`Owned`), and whatever names it, a record or a published attempt, is of
that owner. `PlaceInv` says what a run knows at each place; under the lock no other
run changes it. `ResumeInv` is what `Resumable` needs: while nothing but deaths and
stops has happened there is one plan, a run under the lock works from the journal on
disk, and an attempt published but not yet measured is a captured record of it.

**The catalog.** Documents come and go between two reads of a finalization, so
`CompletionInv` is built on what does not go away: a captured answer had been
published, a complete archive and a proof stay (`Onward`), and a version names one
document, so a catalog bound to today's versions saw today's documents
(`VersionInv`, `CatalogInv`). A row is completed for one of three reasons and
`FeedInv` has a part for each. For the plan: `PromotedInv` says that a session proved
since had been future in the frozen catalog, and the archive's word turns only what
was unverified, of which the plan's catalog has none. `SampleInv` keeps the sample one
that was drawn from it, and `SamplesCover` is the lemma that such a sample covers
every session completed then, but for those nothing pins; what is left uncovered is
newly proved.

**The archive.** `SlotInv`: who is past the lock is the only one at work, so what a
process knows (`ProcessInv`) is disturbed by readers, who change nothing, by damage,
which makes the claims about whole files void, and by itself. `DoneInv` goes with the
loop: every race behind it that had results and did not fail `Stands`, and the race
being written is not behind, which is why moving its copy aside breaks no claim.
`LoopInv` keeps the catalog a repair read equal to the one on disk. `UndamagedInv` is
of another kind: as long as nothing went bad a copy is moved aside only when it is
not whole, so never; what is pointed at, listed or being read then stays (`Grows`).

**Folds.** The replay and the pairing of pit stops are folds of the library: a
recursive function picked by a `CHOOSE`, with the operation as a parameter. `Fold`
is the same for the two operations used here, and `FoldSolved` that it obeys its
equation, by `SubsetInduction`, which is the library's well-founded induction for one
set of subsets. `ReplayedFold` and `PairedFold` lead back to the model's own operators.
Everything after that is about one more element (`FoldNext`).

**Pit stops.** `PairInv` says of what was observed so far: every exit has its stop,
every entry has one or waits, each by a bijection, and the entries waiting are in order and no
later than anything seen. An exit takes the last entry waiting, so a stop closed
later lies around none that is left open. `AllPaired` is the induction, `StopsPaired`
adds the entries left over.

**States.** A timeline is sorted because no two events have one key (`EventsKeyed`,
kind by kind: this is what the assumption that rows differ is for), so the events up
to a time are a prefix of it (`LimitIsPrefix`); a fold of a prefix and then of the
rest is the fold of both (`ReplayOn`), so a checkpoint makes no difference. `Engaged`
is the invariant: what is stored is the session of the rows, the engine was opened
on it, the answer is `StateAt` of both.

**No look-ahead.** The session that ends at the time is derived again from the rows
cut there, and the theorem is that both timelines begin alike. The entries and exits
observed by then are a prefix of the whole order, paired alike (`ExitsKnown`,
`EntriesKnown`): a stop still open may get its exit later, which the entry does not
show. A stint's number, start and age are its first lap's (`StintsKnown`), its tyres
by the condition of the property. So each session has an event for every event of
the other up to the time, alike in all the reducer looks at (`CutCovers`, `Alike`).
Their order is that of `Code`, a key that leaves out the other end of a stop, and two
sorted lists of one set of codes are one list (`TimelineBegins`).

**Advice.** `Agree` is what a session and the one that ends at a time have in
common: the laps that have ended, the weather, messages and positions until then, the
stops left, and which of those laps are pit laps. From that follows, operator by operator,
that a restart lap, an eligible lap, a feature, a forecast and the field of a
simulation are the same in both (`RestartLapKnown` to `FieldKnown`): that the ends of
a driver's laps go up, which validation checks, is why a later lap cannot become the
first after a restart instead, and why the clean laps before a stop have all ended when it
begins. `Given` says that advice goes on being what was asked for.

**The simulated race.** `CarOk` says of each car that its times go up from the cursor,
one for each lap begun, and that its stops are the planned ones among these. Places at
the flag need the order of the queue: `OrderOk` says that no car still driving ends
its lap before one that was already taken ended, so what was taken by the time the
winner is home is what was done by then, and no more; it is inductive with `CarOk`
because a lap takes some time. `AdvisedInv` is what a simulation starts from: the field
is of cars on the lap their last completed one says (`LastLapShown`, which needs the
states of the replay).

**Only model-checked.** The liveness properties `CallsEnd`, `Recovers` and
`PausedShowsState`: fairness and `ENABLED` are beyond the prover. `PagesAgree`: it says
that sums over any set of observations come out the same in several ways, and each
sum, list and page there takes an operator as its parameter (`SumOf`, `Rows`,
`AddsUp`), which a lemma cannot be instantiated with.

## Plan

1. Done: blob cache and bootstrap, with their proofs.
2. Done: request budgets, OpenF1 transport, hourly quota and FastF1 guard, with the
   proofs of `IntentCovered`, `WithinBudget`, `HourKept` and `GuardKept`; the leaf of
   a session, with those of `VerdictsHold` and `AskedOnce`.
3. Done: lifecycle, corpus and its promise, with their proofs.
4. Done: archive, canonical repository, replay service, analytics engine, with their
   proofs.
5. Done: evidence, study, detailed store, telemetry page, with their proofs.
6. Done: replay, normalization, advice and playback, with the proofs of all of the
   safety of a replay, of advice and of the simulated race.
7. Left: `PagesAgree` as a theorem, which needs the sums of `Analytics` written out one
   by one; the pages of the web client other than telemetry and replay.

## Not modelled, and why

Telemetry numerics, the training of models and the scoring of
strategies are sequential computations over tables and floating point numbers; TLC
could only restate them. Providers, blob transport, manifest and export are input
and output of the parts modelled. The blob stores are read adapters over a lease;
the nesting of leases they cause is an input of `RuntimeBlobCache`. Windows-only
handle leases (`detailed/input_leases.py`) exist to make paths hard to swap and
have no counterpart in the state modelled here. The other pages of the web client
use `useAsyncResource`, whose effect drops late answers in its cleanup, and render.
What each module leaves out of a component it models is said with the module and in
`PROJECT.json`.
