---------------------------- MODULE ServiceProofs -----------------------------
(***************************************************************************)
(* Proofs about what the API's threads share.                              *)
(*                                                                         *)
(* The repository under the replay service, for every set of sessions,     *)
(* names, contents, commands and threads.  Nothing is locked: what a       *)
(* command relies on between its steps is only what never changes, a       *)
(* snapshot's first time, a dataset in place, a pointer once there.        *)
(*                                                                         *)
(* The analytics engine, for any number of threads, races, pages,          *)
(* synchronizations and rebuilds.  Nothing here uses the lock: a snapshot  *)
(* is right because of what was read before what, not because of who       *)
(* waited for whom.                                                        *)
(***************************************************************************)
EXTENDS ReplayService, AnalyticsEngine, SequenceTheorems, TLAPS

Place == {"off", "check", "fetch", "snapshot", "load", "dataset", "verify", "point", "alias"}
Fetched == {"snapshot", "load", "dataset", "verify", "point", "alias"}

IngestCommand == [pc : Place, name : Name \cup {None}, content : Content \cup {None},
            at : 0..MaxIngests]
(* A command that runs has a name, and from its fetch on a content and time. *)
Filled(c) ==
    /\ c.pc # "off" => c.name \in Name
    /\ c.pc \in Fetched => c.content \in Content /\ c.at \in 1..MaxIngests

TypeInv ==
    /\ ingests \in 0..MaxIngests
    /\ raw \in [Snapshot -> 0..MaxIngests]
    /\ datasets \subseteq Dataset
    /\ pointer \in [Session -> Dataset \cup {None}]
    /\ alias \in [Name -> Session \cup {None}]
    /\ ing \in [Ingest -> IngestCommand]
    /\ \A p \in Ingest : Filled(ing[p]) /\ (ing[p].pc # "off" => ingests >= 1)

(* What each command knows of the repository at each place. *)
Knows(p) ==
    /\ ing[p].pc = "load" => raw[SnapshotOf(p)] # 0
    /\ ing[p].pc \in {"dataset", "verify", "point", "alias"} => raw[SnapshotOf(p)] = ing[p].at
    /\ ing[p].pc = "point" => DatasetOf(p) \in datasets
    /\ ing[p].pc = "alias" => pointer[SessionOf(ing[p])] # None

Inv == TypeInv /\ (\A p \in Ingest : Knows(p)) /\ PointersBacked

(* A step that only ever adds: times that were missing, datasets, pointers  *)
(* that lead somewhere.                                                     *)
Grows ==
    /\ \A n \in Snapshot : raw[n] # 0 => raw'[n] = raw[n]
    /\ datasets \subseteq datasets'
    /\ \A s \in Session : pointer[s] # None => pointer'[s] # None

(* The names a command computes are names. *)
LEMMA Names ==
  ASSUME TypeInv, NEW p \in Ingest, ing[p].pc \in Fetched
  PROVE  /\ SnapshotOf(p) \in Snapshot /\ DatasetOf(p) \in Dataset
         /\ SessionOf(ing[p]) \in Session /\ SessionOf(DatasetOf(p)) = SessionOf(ing[p])
<1>1. ing[p].name \in Name /\ ing[p].content \in Content /\ ing[p].at \in 1..MaxIngests
  BY DEF TypeInv, Filled, Fetched
<1> QED
  BY <1>1, RepositoryAssumption
  DEF SnapshotOf, DatasetOf, SessionOf, Snapshot, Dataset

(* What the other commands know survives such a step. *)
LEMMA OthersKnow ==
  ASSUME TypeInv, Grows, NEW p \in Ingest, Knows(p), ing'[p] = ing[p]
  PROVE  Knows(p)'
<1>1. CASE ing[p].pc \in Fetched
  <2>1. SnapshotOf(p) \in Snapshot /\ SessionOf(ing[p]) \in Session
    BY <1>1, Names
  <2>2. ing[p].at # 0 /\ ing[p].at \in Nat
    BY <1>1, RepositoryAssumption DEF TypeInv, Filled
  <2>3. SnapshotOf(p)' = SnapshotOf(p) /\ DatasetOf(p)' = DatasetOf(p)
    BY DEF SnapshotOf, DatasetOf
  <2> QED
    BY <2>1, <2>2, <2>3 DEF Knows, Grows, SessionOf
<1>2. CASE ing[p].pc \notin Fetched
  BY <1>2 DEF Knows, Fetched
<1> QED
  BY <1>1, <1>2

-----------------------------------------------------------------------------
(* A command's record may be replaced by one that is a command's record. *)
LEMMA OneCommand ==
  ASSUME TypeInv, NEW p \in Ingest, NEW c \in IngestCommand, Filled(c), ing' = [ing EXCEPT ![p] = c],
         ingests' \in 0..MaxIngests, ingests' >= ingests, c.pc # "off" => ingests' >= 1
  PROVE  /\ ing' \in [Ingest -> IngestCommand]
         /\ \A q \in Ingest : Filled(ing'[q]) /\ (ing'[q].pc # "off" => ingests' >= 1)
BY DEF TypeInv

(* ... which the record of no command is, too. *)
LEMMA NothingIsCommand == NoIngest \in IngestCommand /\ Filled(NoIngest)
<1>1. MaxIngests \in Nat
  BY RepositoryAssumption
<1> QED
  BY <1>1 DEF NoIngest, Doing, IngestCommand, Filled, Place, Fetched

(* The types, whatever a command does. *)
LEMMA NextType ==
  ASSUME Inv, NEW p \in Ingest, IngestStep(p)
  PROVE  TypeInv'
<1> DEFINE NewCommand(c) ==
      c \in IngestCommand /\ Filled(c) /\ ing' = [ing EXCEPT ![p] = c] /\ (c.pc # "off" => ingests' >= 1)
<1>0. TypeInv /\ ing[p] \in IngestCommand /\ Filled(ing[p]) /\ MaxIngests \in Nat
  BY RepositoryAssumption DEF Inv, TypeInv
<1>1. CASE Begin(p)
  <2>1. PICK n \in Name, pc \in {"check", "fetch"} :
          ing' = [ing EXCEPT ![p] = Doing(pc, n, None, 0)]
    BY <1>1 DEF Begin
  <2>2. Doing(pc, n, None, 0) \in IngestCommand /\ Filled(Doing(pc, n, None, 0))
    BY <1>0 DEF Doing, IngestCommand, Filled, Place, Fetched
  <2>3. ingests' \in 0..MaxIngests /\ ingests' >= ingests /\ ingests' >= 1
    BY <1>0, <1>1 DEF Begin, TypeInv
  <2>4. NewCommand(Doing(pc, n, None, 0))
    BY <2>1, <2>2, <2>3
  <2> QED
    BY <1>0, <1>1, <2>3, <2>4, OneCommand DEF Begin, TypeInv
<1>2. CASE Refuse(p) \/ Die(p)
  <2>1. NewCommand(NoIngest) /\ ingests' = ingests
    BY <1>0, <1>2, NothingIsCommand DEF Refuse, Die, Ends, NoIngest, Doing
  <2> QED
    BY <1>0, <1>2, <2>1, OneCommand DEF Refuse, Die, TypeInv
<1>3. CASE CheckCache(p)
  <2>1. CASE ActiveDataset(ing[p].name) = None
    <3>1. NewCommand([ing[p] EXCEPT !.pc = "fetch"]) /\ ingests' = ingests
      BY <1>0, <1>3, <2>1 DEF CheckCache, IngestCommand, Filled, Place, Fetched, TypeInv
    <3> QED
      BY <1>0, <1>3, <3>1, OneCommand DEF CheckCache, TypeInv
  <2>2. CASE ActiveDataset(ing[p].name) # None
    <3>1. NewCommand(NoIngest) /\ ingests' = ingests
      BY <1>0, <1>3, <2>2, NothingIsCommand DEF CheckCache, Ends, NoIngest, Doing
    <3> QED
      BY <1>0, <1>3, <3>1, OneCommand DEF CheckCache, TypeInv
  <2> QED
    BY <2>1, <2>2
<1>4. CASE LoadFromProvider(p)
  <2>1. PICK content \in Content :
          ing' = [ing EXCEPT ![p] = Doing("snapshot", ing[p].name, content, ingests)]
    BY <1>4 DEF LoadFromProvider
  <2>2. ing[p].pc = "fetch" /\ ing[p].name \in Name /\ ingests \in 1..MaxIngests
    BY <1>0, <1>4 DEF LoadFromProvider, TypeInv, Filled
  <2>3. /\ Doing("snapshot", ing[p].name, content, ingests) \in IngestCommand
        /\ Filled(Doing("snapshot", ing[p].name, content, ingests))
    BY <1>0, <2>2 DEF Doing, IngestCommand, Filled, Place, Fetched
  <2>4. ingests' = ingests /\ ingests' >= 1
    BY <1>0, <1>4, <2>2 DEF LoadFromProvider
  <2>5. NewCommand(Doing("snapshot", ing[p].name, content, ingests))
    BY <2>1, <2>3, <2>4
  <2> QED
    BY <1>0, <1>4, <2>4, <2>5, OneCommand DEF LoadFromProvider, TypeInv
<1>5. CASE CommitRawSnapshot(p)
  <2>1. ing[p].pc = "snapshot" /\ ing[p].at \in 1..MaxIngests
    BY <1>0, <1>5 DEF CommitRawSnapshot, Goes, Filled, Fetched
  <2>2. raw' \in [Snapshot -> 0..MaxIngests]
    <3>1. raw \in [Snapshot -> 0..MaxIngests] /\ ing[p].at \in 0..MaxIngests
      BY <1>0, <2>1 DEF TypeInv
    <3>2. raw' = raw \/ raw' = [raw EXCEPT ![SnapshotOf(p)] = ing[p].at]
      BY <1>5 DEF CommitRawSnapshot
    <3> QED
      BY <3>1, <3>2
  <2>3. NewCommand([ing[p] EXCEPT !.pc = "load"]) /\ ingests' = ingests
    BY <1>0, <1>5, <2>1 DEF CommitRawSnapshot, Goes, IngestCommand, Filled, Place, Fetched, TypeInv
  <2> QED
    BY <1>0, <1>5, <2>2, <2>3, OneCommand DEF CommitRawSnapshot, TypeInv
<1>6. CASE LoadRawSnapshot(p)
  <2>1. ing[p].pc = "load" /\ raw[SnapshotOf(p)] # 0
    BY <1>6 DEF LoadRawSnapshot, Inv, Knows
  <2>2. SnapshotOf(p) \in Snapshot
    BY <1>0, <2>1, Names DEF Fetched
  <2>3. raw[SnapshotOf(p)] \in 1..MaxIngests
    BY <1>0, <2>1, <2>2 DEF TypeInv
  <2>4. ing[p].name \in Name /\ ing[p].content \in Content /\ ingests' = ingests /\ ingests >= 1
    BY <1>0, <1>6, <2>1 DEF LoadRawSnapshot, TypeInv, Filled, Fetched
  <2>5. /\ Doing("dataset", ing[p].name, ing[p].content, raw[SnapshotOf(p)]) \in IngestCommand
        /\ Filled(Doing("dataset", ing[p].name, ing[p].content, raw[SnapshotOf(p)]))
    BY <1>0, <2>3, <2>4 DEF Doing, IngestCommand, Filled, Place, Fetched
  <2>6. NewCommand(Doing("dataset", ing[p].name, ing[p].content, raw[SnapshotOf(p)]))
    BY <1>0, <1>6, <2>4, <2>5 DEF LoadRawSnapshot
  <2> QED
    BY <1>0, <1>6, <2>4, <2>6, OneCommand DEF LoadRawSnapshot, TypeInv
<1>7. CASE CommitDataset(p) \/ VerifyManifest(p) \/ PointAt(p)
  <2>1. ing[p].pc \in {"dataset", "verify", "point"} /\ ingests' = ingests
    BY <1>7 DEF CommitDataset, VerifyManifest, PointAt, Goes
  <2>2. DatasetOf(p) \in Dataset
    BY <1>0, <2>1, Names DEF Fetched
  <2>3. PICK to \in {"verify", "point", "alias"} : ing' = [ing EXCEPT ![p].pc = to]
    BY <1>7 DEF CommitDataset, VerifyManifest, PointAt, Goes
  <2>4. NewCommand([ing[p] EXCEPT !.pc = to])
    BY <1>0, <2>1, <2>3 DEF IngestCommand, Filled, Place, Fetched, TypeInv
  <2> QED
    BY <1>0, <1>7, <2>1, <2>2, <2>4, OneCommand
    DEF CommitDataset, VerifyManifest, PointAt, Goes, TypeInv
<1>8. CASE WriteAlias(p)
  <2>1. SessionOf(ing[p]) \in Session
    BY <1>0, <1>8, Names DEF WriteAlias, Fetched
  <2>2. NewCommand(NoIngest) /\ ingests' = ingests
    BY <1>0, <1>8, NothingIsCommand DEF WriteAlias, Ends, NoIngest, Doing
  <2> QED
    BY <1>0, <1>8, <2>1, <2>2, OneCommand DEF WriteAlias, TypeInv
<1> QED
  BY <1>1, <1>2, <1>3, <1>4, <1>5, <1>6, <1>7, <1>8 DEF IngestStep

-----------------------------------------------------------------------------
(* Nothing that a command did is ever undone. *)
LEMMA NextGrows ==
  ASSUME Inv, NEW p \in Ingest, IngestStep(p)
  PROVE  Grows
<1> USE DEF Grows
<1>1. TypeInv
  BY DEF Inv
<1>2. CASE CommitRawSnapshot(p)
  <2>1. raw' = raw \/ (raw[SnapshotOf(p)] = 0 /\ raw' = [raw EXCEPT ![SnapshotOf(p)] = ing[p].at])
    BY <1>2 DEF CommitRawSnapshot
  <2>2. UNCHANGED <<datasets, pointer>>
    BY <1>2 DEF CommitRawSnapshot
  <2> QED
    BY <1>1, <2>1, <2>2 DEF TypeInv
<1>3. CASE CommitDataset(p)
  BY <1>3 DEF CommitDataset
<1>4. CASE PointAt(p)
  <2>1. DatasetOf(p) \in Dataset
    BY <1>1, <1>4, Names DEF PointAt, Goes, Fetched
  <2>2. DatasetOf(p) # None
    BY <2>1, RepositoryAssumption
  <2> QED
    BY <1>1, <1>4, <2>2 DEF PointAt, TypeInv
<1>5. CASE Begin(p) \/ CheckCache(p) \/ LoadFromProvider(p) \/ LoadRawSnapshot(p)
           \/ VerifyManifest(p) \/ WriteAlias(p) \/ Refuse(p) \/ Die(p)
  BY <1>5 DEF Begin, CheckCache, LoadFromProvider, LoadRawSnapshot, VerifyManifest,
              WriteAlias, Refuse, Die
<1> QED
  BY <1>2, <1>3, <1>4, <1>5 DEF IngestStep

(* What the command that takes the step knows afterwards. *)
LEMMA ItselfKnows ==
  ASSUME Inv, NEW p \in Ingest, IngestStep(p)
  PROVE  Knows(p)'
<1>1. TypeInv /\ ing \in [Ingest -> IngestCommand] /\ Knows(p)
  BY DEF Inv, TypeInv
<1>2. CASE CommitRawSnapshot(p)
  <2>1. ing[p].pc = "snapshot" /\ ing' = [ing EXCEPT ![p].pc = "load"]
    BY <1>2 DEF CommitRawSnapshot, Goes
  <2>2. SnapshotOf(p) \in Snapshot /\ ing[p].at \in 1..MaxIngests
    BY <1>1, <2>1, Names DEF Fetched, TypeInv, Filled
  <2>3. raw'[SnapshotOf(p)] # 0
    BY <1>1, <1>2, <2>2, RepositoryAssumption DEF CommitRawSnapshot, TypeInv
  <2>4. ing'[p].pc = "load" /\ SnapshotOf(p)' = SnapshotOf(p)
    BY <1>1, <2>1 DEF SnapshotOf, IngestCommand
  <2> QED
    BY <2>3, <2>4 DEF Knows
<1>3. CASE LoadRawSnapshot(p)
  <2>1. /\ ing'[p] = Doing("dataset", ing[p].name, ing[p].content, raw[SnapshotOf(p)])
        /\ raw' = raw
    BY <1>1, <1>3 DEF LoadRawSnapshot
  <2>2. ing'[p].pc = "dataset" /\ ing'[p].at = raw[SnapshotOf(p)] /\ SnapshotOf(p)' = SnapshotOf(p)
    BY <2>1 DEF Doing, SnapshotOf
  <2> QED
    BY <2>1, <2>2 DEF Knows
<1>4. CASE CommitDataset(p) \/ VerifyManifest(p) \/ PointAt(p)
  <2>1. ing[p].pc \in {"dataset", "verify", "point"} /\ raw' = raw
    BY <1>4 DEF CommitDataset, VerifyManifest, PointAt, Goes
  <2>2. PICK to \in {"verify", "point", "alias"} : ing' = [ing EXCEPT ![p].pc = to]
    BY <1>4 DEF CommitDataset, VerifyManifest, PointAt, Goes
  <2>3. /\ ing'[p].pc = to /\ ing'[p].at = ing[p].at /\ ing'[p].content = ing[p].content
        /\ SnapshotOf(p)' = SnapshotOf(p) /\ DatasetOf(p)' = DatasetOf(p)
    BY <1>1, <2>2 DEF SnapshotOf, DatasetOf, IngestCommand
  <2>4. raw'[SnapshotOf(p)'] = ing'[p].at
    BY <1>1, <2>1, <2>3 DEF Knows
  <2>5. CASE CommitDataset(p)
    <3>1. ing'[p].pc = "verify"
      BY <1>1, <2>5 DEF CommitDataset, Goes, IngestCommand
    <3> QED
      BY <2>4, <3>1 DEF Knows
  <2>6. CASE VerifyManifest(p)
    <3>1. ing'[p].pc = "point" /\ DatasetOf(p) \in datasets /\ datasets' = datasets
      BY <1>1, <2>6 DEF VerifyManifest, Goes, Readable, IngestCommand
    <3> QED
      BY <2>3, <2>4, <3>1 DEF Knows
  <2>7. CASE PointAt(p)
    <3>1. ing'[p].pc = "alias"
      BY <1>1, <2>7 DEF PointAt, Goes, IngestCommand
    <3>2. DatasetOf(p) \in Dataset /\ SessionOf(ing[p]) \in Session
      BY <1>1, <2>1, Names DEF Fetched
    <3>3. pointer'[SessionOf(ing[p])] # None
      BY <1>1, <2>7, <3>2, RepositoryAssumption DEF PointAt, TypeInv
    <3>4. SessionOf(ing'[p]) = SessionOf(ing[p])
      BY <2>3 DEF SessionOf
    <3> QED
      BY <2>4, <3>1, <3>3, <3>4 DEF Knows, SessionOf
  <2> QED
    BY <1>4, <2>5, <2>6, <2>7
<1>5. CASE Begin(p) \/ CheckCache(p) \/ LoadFromProvider(p) \/ WriteAlias(p) \/ Refuse(p) \/ Die(p)
  <2>1. ing'[p].pc \in {"off", "check", "fetch", "snapshot"}
    <3>1. CASE Begin(p)
      BY <1>1, <3>1 DEF Begin, Doing
    <3>2. CASE CheckCache(p)
      BY <1>1, <3>2 DEF CheckCache, Ends, NoIngest, Doing, IngestCommand
    <3>3. CASE LoadFromProvider(p)
      BY <1>1, <3>3 DEF LoadFromProvider, Doing
    <3>4. CASE WriteAlias(p) \/ Refuse(p) \/ Die(p)
      BY <1>1, <3>4 DEF WriteAlias, Refuse, Die, Ends, NoIngest, Doing
    <3> QED
      BY <1>5, <3>1, <3>2, <3>3, <3>4
  <2> QED
    BY <2>1 DEF Knows
<1> QED
  BY <1>2, <1>3, <1>4, <1>5 DEF IngestStep

(* What can be named stays traceable through a command's step. *)
LEMMA StepBacked ==
  ASSUME Inv, NEW p \in Ingest, IngestStep(p)
  PROVE  PointersBacked'
<1>1. TypeInv /\ Grows /\ TypeInv' /\ PointersBacked /\ Knows(p)
  BY NextGrows, NextType DEF Inv
<1>2. \A n \in Name : alias'[n] # None => pointer'[alias'[n]] # None
  <2>1. CASE WriteAlias(p)
    <3>1. SessionOf(ing[p]) \in Session /\ pointer[SessionOf(ing[p])] # None
      BY <1>1, <2>1, Names DEF WriteAlias, Knows, Fetched
    <3> QED
      BY <1>1, <2>1, <3>1 DEF WriteAlias, TypeInv, PointersBacked
  <2>2. CASE ~ WriteAlias(p)
    <3>1. alias' = alias
      BY <2>2 DEF IngestStep, Begin, CheckCache, LoadFromProvider, CommitRawSnapshot,
         LoadRawSnapshot, CommitDataset, VerifyManifest, PointAt, Refuse, Die
    <3>2. \A n \in Name : alias[n] # None => alias[n] \in Session
      BY <1>1 DEF TypeInv
    <3> QED
      BY <1>1, <3>1, <3>2 DEF PointersBacked, Grows
  <2> QED
    BY <2>1, <2>2
<1>3. \A s \in Session :
        pointer'[s] # None => pointer'[s] \in datasets' /\ SessionOf(pointer'[s]) = s
  <2>1. CASE PointAt(p)
    <3>1. /\ DatasetOf(p) \in datasets /\ SessionOf(DatasetOf(p)) = SessionOf(ing[p])
          /\ SessionOf(ing[p]) \in Session
      BY <1>1, <2>1, Names DEF PointAt, Goes, Knows, Fetched
    <3> QED
      BY <1>1, <2>1, <3>1 DEF PointAt, TypeInv, PointersBacked
  <2>2. CASE ~ PointAt(p)
    <3>1. pointer' = pointer
      BY <2>2 DEF IngestStep, Begin, CheckCache, LoadFromProvider, CommitRawSnapshot,
         LoadRawSnapshot, CommitDataset, VerifyManifest, WriteAlias, Refuse, Die
    <3> QED
      BY <1>1, <3>1 DEF PointersBacked, Grows
  <2> QED
    BY <2>1, <2>2
<1>4. \A d \in datasets' : raw'[[name |-> d.name, content |-> d.content]] = d.at
  <2>1. \A d \in datasets : raw'[[name |-> d.name, content |-> d.content]] = d.at
    <3> SUFFICES ASSUME NEW d \in datasets
                 PROVE  raw'[[name |-> d.name, content |-> d.content]] = d.at
      OBVIOUS
    <3>1. /\ [name |-> d.name, content |-> d.content] \in Snapshot
          /\ d.at \in 1..MaxIngests /\ d.at # 0
      BY <1>1, RepositoryAssumption DEF TypeInv, Dataset, Snapshot
    <3>2. raw[[name |-> d.name, content |-> d.content]] = d.at
      BY <1>1 DEF PointersBacked
    <3> QED
      BY <1>1, <3>1, <3>2 DEF Grows
  <2>2. CASE CommitDataset(p)
    <3>1. datasets' = datasets \cup {DatasetOf(p)} /\ raw' = raw /\ ing[p].pc = "dataset"
      BY <2>2 DEF CommitDataset, Goes
    <3>2. [name |-> DatasetOf(p).name, content |-> DatasetOf(p).content] = SnapshotOf(p)
      BY DEF DatasetOf, SnapshotOf
    <3>3. DatasetOf(p).at = ing[p].at
      BY DEF DatasetOf
    <3> QED
      BY <1>1, <2>1, <3>1, <3>2, <3>3 DEF Knows
  <2>3. CASE ~ CommitDataset(p)
    <3>1. datasets' = datasets
      BY <2>3 DEF IngestStep, Begin, CheckCache, LoadFromProvider, CommitRawSnapshot,
         LoadRawSnapshot, VerifyManifest, PointAt, WriteAlias, Refuse, Die
    <3> QED
      BY <2>1, <3>1
  <2> QED
    BY <2>2, <2>3
<1> QED
  BY <1>2, <1>3, <1>4 DEF PointersBacked

(* Every step of the service and of the repository preserves the invariant. *)
LEMMA NextInv ==
  ASSUME Inv, [Next]_<<repoVars, serviceVars>>
  PROVE  Inv'
<1>1. ASSUME NEW p \in Ingest, IngestStep(p)
      PROVE  Inv'
  <2>1. TypeInv' /\ PointersBacked' /\ Knows(p)' /\ TypeInv /\ Grows
    BY <1>1, NextType, StepBacked, ItselfKnows, NextGrows DEF Inv
  <2>2. ASSUME NEW q \in Ingest, q # p
        PROVE  Knows(q)'
    <3>1. ing'[q] = ing[q]
      BY <1>1, <2>1, <2>2 DEF IngestStep, Begin, CheckCache, LoadFromProvider,
         CommitRawSnapshot, LoadRawSnapshot, CommitDataset, VerifyManifest, PointAt,
         WriteAlias, Refuse, Die, Goes, Ends, TypeInv
    <3> QED
      BY <2>1, <3>1, OthersKnow DEF Inv
  <2> QED
    BY <2>1, <2>2 DEF Inv
<1>2. ASSUME UNCHANGED <<raw, datasets, pointer, alias, ing, ingests>>
      PROVE  Inv'
  BY <1>2 DEF Inv, TypeInv, Knows, PointersBacked, SnapshotOf, DatasetOf
<1>3. CASE Next
  BY <1>1, <1>2, <1>3 DEF Next, RepoNext, Spoil, repoVars
<1>4. CASE UNCHANGED <<repoVars, serviceVars>>
  BY <1>2, <1>4 DEF repoVars
<1> QED
  BY <1>3, <1>4

(* What the repository's proofs need holds in every state. *)
LEMMA InvHolds == Spec => []Inv
<1>1. ASSUME Init PROVE Inv
  <2>1. TypeInv
    <3>1. MaxIngests \in Nat
      BY RepositoryAssumption
    <3> QED
      BY <1>1, <3>1, NothingIsCommand DEF Init, RepoInit, TypeInv, NoIngest, Doing
  <2>2. \A p \in Ingest : Knows(p)
    BY <1>1 DEF Init, RepoInit, Knows, NoIngest, Doing
  <2>3. PointersBacked
    BY <1>1 DEF Init, RepoInit, PointersBacked
  <2> QED
    BY <2>1, <2>2, <2>3 DEF Inv
<1> QED
  BY <1>1, NextInv, PTL DEF Spec

(* Whatever commands run side by side, die or find damage: an alias leads   *)
(* to a pointer, a pointer to a dataset of its session in place, and a      *)
(* dataset to the snapshot it was made of.                                  *)
THEOREM NamesLeadToSnapshots == Spec => []PointersBacked
<1>1. Inv => PointersBacked
  BY DEF Inv
<1> QED
  BY <1>1, InvHolds, PTL

(* A content fetched again for the same name, by whomever and whenever, is  *)
(* never made into a second dataset.                                        *)
THEOREM FetchedAgainIsTheSame == Spec => []OneDatasetPerSnapshot
<1>1. Inv => OneDatasetPerSnapshot
  <2> SUFFICES ASSUME Inv, NEW d \in datasets, NEW e \in datasets,
                      d.name = e.name, d.content = e.content
               PROVE  d = e
    BY DEF OneDatasetPerSnapshot
  <2>1. d \in Dataset /\ e \in Dataset
    BY DEF Inv, TypeInv
  <2>2. d.at = e.at
    BY DEF Inv, PointersBacked
  <2> QED
    BY <2>1, <2>2 DEF Dataset
<1> QED
  BY <1>1, InvHolds, PTL

-----------------------------------------------------------------------------
(* The replay service.  A request that has read its key follows where its   *)
(* session leads: "moves" is 0 while that is the key's dataset, and then    *)
(* all it has read is; 1 once it is another, and then the second look at    *)
(* the pointer will see it.                                                 *)
WithSession == {"identity", "cached", "session", "events", "again", "store"}
Keyed == WithSession \ {"identity"}

MaybeDataset == Dataset \cup {None}
EngineRequest == [pc : WithSession \cup {"idle", "resolve"}, name : Name \cup {None},
            session : Session \cup {None}, key : MaybeDataset, laps : MaybeDataset,
            events : MaybeDataset, moves : 0..2]

Follows(r) ==
    /\ r.pc # "idle" => r.name \in Name
    /\ r.pc \in WithSession => r.session \in Session /\ pointer[r.session] # None
    /\ r.pc \in Keyed =>
         /\ r.key \in Dataset
         /\ r.moves = 0 => ActiveDataset(r.session) = r.key
         /\ r.moves = 1 => ActiveDataset(r.session) # r.key
    /\ r.pc \in {"events", "again", "store"} /\ r.moves = 0 => r.laps = r.key
    /\ r.pc \in {"again", "store"} /\ r.moves = 0 => r.events = r.key
    /\ r.pc = "store" /\ r.moves < 2 => r.laps = r.key /\ r.events = r.key

EngineInv ==
    /\ req \in [Thread -> EngineRequest]
    /\ \A t \in Thread : Follows(req[t])
    /\ EngineIsItsDataset

(* The request of an idle thread is a request, and follows from anything. *)
LEMMA NoRequestFollows == NoRequest \in EngineRequest /\ Follows(NoRequest)
  BY DEF NoRequest, EngineRequest, Follows, MaybeDataset, WithSession, Keyed

(* A session leads to a dataset or nowhere. *)
LEMMA Leads == ASSUME TypeInv, NEW s \in Session PROVE ActiveDataset(s) \in MaybeDataset
<1>1. s \in Name
  BY RepositoryAssumption
<1> QED
  BY <1>1 DEF ActiveDataset, ResolveSessionId, TypeInv, MaybeDataset

(* One request is replaced by one that follows, the repository stands still. *)
LEMMA OneRequest ==
  ASSUME EngineInv, UNCHANGED repoVars, NEW t \in Thread, NEW r \in EngineRequest, Follows(r),
         req' = [req EXCEPT ![t] = r]
  PROVE  req' \in [Thread -> EngineRequest] /\ \A u \in Thread : Follows(req[u])'
  BY DEF EngineInv, repoVars, Follows, ActiveDataset, ResolveSessionId

(* A step of a request. *)
LEMMA ServiceStepInv ==
  ASSUME Inv, EngineInv, NEW t \in Thread, ServiceStep(t), UNCHANGED repoVars
  PROVE  EngineInv'
<1> DEFINE Becomes(r) == r \in EngineRequest /\ Follows(r) /\ req' = [req EXCEPT ![t] = r]
<1>1. /\ TypeInv /\ req[t] \in EngineRequest /\ Follows(req[t]) /\ req \in [Thread -> EngineRequest]
      /\ None \notin Dataset
  BY RepositoryAssumption DEF Inv, EngineInv
<1> USE DEF EngineRequest, Follows, MaybeDataset, WithSession, Keyed
<1>2. ASSUME NEW r, Becomes(r), UNCHANGED engines
      PROVE  EngineInv'
  BY <1>2, OneRequest DEF EngineInv, EngineIsItsDataset
<1>3. \A n \in Name : Asks(n) \in EngineRequest /\ Follows(Asks(n))
  <2> SUFFICES ASSUME NEW n \in Name PROVE Asks(n) \in EngineRequest /\ Follows(Asks(n))
    OBVIOUS
  <2> DEFINE q == [NoRequest EXCEPT !.pc = "resolve"]
  <2>1. q \in EngineRequest /\ q.pc = "resolve"
    BY NoRequestFollows
  <2>2. Asks(n) = [q EXCEPT !.name = n]
    BY DEF Asks
  <2> HIDE DEF q
  <2> QED
    BY <2>1, <2>2
<1>4. CASE Ask(t)
  BY <1>2, <1>3, <1>4 DEF Ask
<1>5. CASE Answer(t) /\ UNCHANGED engines
  BY <1>2, <1>5, NoRequestFollows DEF Answer
<1>6. CASE Resolve(t)
  BY <1>1, <1>2, <1>5, <1>6 DEF Resolve
<1>7. CASE ActiveIdentity(t)
  <2>1. pointer[req[t].session] \in Dataset
    BY <1>1, <1>7 DEF ActiveIdentity, TypeInv
  <2> DEFINE n == IF ActiveDataset(req[t].session) = pointer[req[t].session] THEN 0 ELSE 1
             q == [req[t] EXCEPT !.pc = "cached"]
             k == [q EXCEPT !.key = pointer[req[t].session]]
  <2>2. q \in EngineRequest /\ q.pc = "cached" /\ q.session = req[t].session /\ q.name = req[t].name
    BY <1>1
  <2> HIDE DEF q
  <2>3. /\ k \in EngineRequest /\ k.pc = "cached" /\ k.session = req[t].session /\ k.name = req[t].name
        /\ k.key = pointer[req[t].session]
    BY <2>1, <2>2
  <2> HIDE DEF k
  <2>4. [k EXCEPT !.moves = n] \in EngineRequest /\ Follows([k EXCEPT !.moves = n])
    BY <1>1, <1>7, <2>1, <2>3 DEF ActiveIdentity
  <2>5. req' = [req EXCEPT ![t] = [k EXCEPT !.moves = n]]
    BY <1>7 DEF ActiveIdentity, k, q
  <2> QED
    BY <1>2, <1>7, <2>4, <2>5 DEF ActiveIdentity
<1>8. CASE Cached(t)
  BY <1>1, <1>2, <1>5, <1>8 DEF Cached
<1>9. CASE LoadSession(t)
  <2>1. ActiveDataset(req[t].session) \in MaybeDataset
    BY <1>1, <1>9, Leads DEF LoadSession
  <2> QED
    BY <1>1, <1>2, <1>5, <1>9, <2>1 DEF LoadSession
<1>10. CASE LoadEvents(t)
  <2>1. ActiveDataset(req[t].session) \in MaybeDataset
    BY <1>1, <1>10, Leads DEF LoadEvents
  <2> QED
    BY <1>1, <1>2, <1>5, <1>10, <2>1 DEF LoadEvents
<1>11. CASE IdentityAgain(t)
  <2>1. CASE ActiveDataset(req[t].session) = req[t].key
    <3>1. req[t].moves \in {0, 2} /\ req[t].pc = "again"
      BY <1>1, <1>11, <2>1 DEF IdentityAgain
    <3>2. Becomes([req[t] EXCEPT !.pc = "store"])
      BY <1>1, <1>11, <2>1, <3>1 DEF IdentityAgain
    <3> QED
      BY <1>2, <1>11, <3>2 DEF IdentityAgain
  <2>2. CASE ActiveDataset(req[t].session) # req[t].key
    <3>1. req[t].name \in Name
      BY <1>1, <1>11 DEF IdentityAgain
    <3> QED
      BY <1>2, <1>3, <1>11, <2>2, <3>1 DEF IdentityAgain
  <2> QED
    BY <2>1, <2>2
<1>12. CASE Store(t)
  <2>1. req' \in [Thread -> EngineRequest] /\ \A u \in Thread : Follows(req[u])'
    BY <1>12, NoRequestFollows, OneRequest DEF Store, Answer
  <2>2. \A e \in engines' :
          \/ e \in engines
          \/ e = [key |-> req[t].key, laps |-> req[t].laps, events |-> req[t].events,
                  moves |-> req[t].moves]
    BY <1>12 DEF Store
  <2>3. req[t].moves = 2 \/ (req[t].laps = req[t].key /\ req[t].events = req[t].key)
    BY <1>1, <1>12 DEF Store
  <2>4. EngineIsItsDataset'
    BY <2>2, <2>3 DEF EngineInv, EngineIsItsDataset
  <2> QED
    BY <2>1, <2>4 DEF EngineInv
<1> QED
  BY <1>4, <1>6, <1>7, <1>8, <1>9, <1>10, <1>11, <1>12 DEF ServiceStep

(* A step of the repository, of which the requests take note. *)
LEMMA NoteInv ==
  ASSUME Inv, EngineInv, Grows, Note, UNCHANGED engines
  PROVE  EngineInv'
<1>1. ASSUME NEW t \in Thread
      PROVE  req'[t] \in EngineRequest /\ Follows(req[t])'
  <2> DEFINE s == req[t].session
             moved == {x \in Session : ActiveDataset(x)' # ActiveDataset(x)}
  <2>1. req[t] \in EngineRequest /\ Follows(req[t]) /\ None \notin Dataset
    BY RepositoryAssumption DEF EngineInv
  <2>2. CASE req[t].key # None /\ s \in moved /\ req[t].moves < 2
    <3>1. req'[t] = [req[t] EXCEPT !.moves = @ + 1]
      BY <2>2 DEF Note
    <3> QED
      BY <2>1, <2>2, <3>1 DEF EngineRequest, Follows, WithSession, Keyed, Grows
  <2>3. CASE ~ (req[t].key # None /\ s \in moved /\ req[t].moves < 2)
    <3>1. req'[t] = req[t]
      BY <2>3 DEF Note
    <3> QED
      BY <2>1, <2>3, <3>1 DEF EngineRequest, Follows, WithSession, Keyed, Grows
  <2> QED
    BY <2>2, <2>3
<1>2. req' \in [Thread -> EngineRequest]
  BY <1>1 DEF Note
<1> QED
  BY <1>1, <1>2 DEF EngineInv, EngineIsItsDataset

(* A step of the engine's own keeps its part of the invariant. *)
LEMMA NextEngineInv ==
  ASSUME Inv, EngineInv, [Next]_<<repoVars, serviceVars>>
  PROVE  EngineInv'
<1>1. CASE \E t \in Thread : ServiceStep(t) /\ UNCHANGED repoVars
  BY <1>1, ServiceStepInv
<1>2. CASE RepoNext /\ Note /\ UNCHANGED engines
  <2>1. Grows
    BY <1>2, NextGrows DEF RepoNext, Spoil, Grows
  <2> QED
    BY <1>2, <2>1, NoteInv
<1>3. CASE UNCHANGED <<repoVars, serviceVars>>
  BY <1>3 DEF EngineInv, EngineIsItsDataset, Follows, ActiveDataset, ResolveSessionId,
     repoVars, serviceVars
<1> QED
  BY <1>1, <1>2, <1>3 DEF Next

(* However many ingestions run under however many requests: an engine is    *)
(* kept for the dataset it was built from, session and events alike, unless *)
(* the session led elsewhere and back while it was loaded.                  *)
THEOREM EnginesAreTheirDatasets == Spec => []EngineIsItsDataset
<1>1. ASSUME Init PROVE EngineInv
  BY <1>1, NoRequestFollows DEF Init, ServiceInit, RepoInit, EngineInv, EngineIsItsDataset,
     Follows, NoRequest, WithSession, Keyed
<1>2. EngineInv => EngineIsItsDataset
  BY DEF EngineInv
<1> QED
  BY <1>1, <1>2, InvHolds, NextEngineInv, PTL DEF Spec

--------------------------------------------------------------------------------
(* The analytics engine.                                                   *)
Snapshots == [rev : Nat, seen : [1..Races -> Nat]]
MaybeSnapshot == Snapshots \cup {Absent}
Fetching == {"enter", "manifest", "file", "build"}
Places == Fetching \cup {"idle", "stat", "check", "load", "lookup", "put", "answered"}
Call == [at : Places, page : Question \cup {Absent}, key : (Question \X Nat) \cup {Absent},
         stat : Nat, rev : Nat, manifest : MaybeSnapshot, seen : Seq(Nat), parts : Seq(Snapshots),
         calm : BOOLEAN]
Entry == [key : Question \X Nat, parts : Seq(Snapshots)]
Command == [at : {"off", "read", "publish", "move"}, rev : Nat, seen : Seq(Nat), aside : MaybeSnapshot]

Types ==
    /\ tables \in [1..Races -> Nat]
    /\ index \in [rev : Nat, no : Nat]
    /\ pending \in BOOLEAN /\ kept \in BOOLEAN /\ returned \in BOOLEAN
    /\ derived \in MaybeSnapshot /\ snapshot \in MaybeSnapshot
    /\ stamp \in 0..index.no
    /\ answers \in Seq(Entry)
    /\ call \in [Client -> Call]
    /\ command \in Command

(* The revision has stood for the tables so far. *)
Honest == ~ kept /\ ~ returned

(* What was read for a revision agrees with the archive: if the revision is *)
(* that of the catalog, and no table has been published since it was saved, *)
(* the tables were read as they are.                                        *)
Agrees(rev, seen) ==
    Honest => /\ rev <= index.rev
              /\ rev = index.rev /\ ~ pending => \A i \in DOMAIN seen : seen[i] = tables[i]

Sound(s) == s # Absent => Agrees(s.rev, s.seen)

(* The key of an answer names a revision no later than any part of it. *)
AtLeast(key, rev) == Honest => key[2] <= rev
Parts(key, parts) ==
    \A i \in 1..Len(parts) : AtLeast(key, parts[i].rev) /\ Agrees(parts[i].rev, parts[i].seen)

(* A request by itself. *)
RequestOK(r) ==
    /\ r.at \notin {"idle", "answered"} => r.page \in Question
    /\ r.at \in {"lookup", "put"} => r.key # Absent
    /\ r.stat <= index.no
    /\ r.at \in Fetching =>
         /\ r.stat = index.no => r.rev = index.rev
         /\ Honest => r.rev <= index.rev
         /\ r.key # Absent => AtLeast(r.key, r.rev)
    /\ r.at \in {"manifest", "file", "build"} => Len(r.seen) < Races /\ Agrees(r.rev, r.seen)
    /\ r.at \notin {"manifest", "file", "build"} => r.seen = <<>>
    /\ r.at = "file" => r.manifest # Absent /\ r.manifest.rev = r.rev /\ Sound(r.manifest)
    /\ r.key # Absent => (Honest => r.key[2] <= index.rev) /\ Parts(r.key, r.parts)
    /\ r.key = Absent /\ r.at # "answered" => r.parts = <<>>
    /\ r.calm => /\ ~ pending
                 /\ r.at \in Fetching \cup {"check", "load"} => r.stat = index.no
                 /\ r.key # Absent => r.key[2] = index.rev
    /\ r.calm /\ r.at = "answered" =>
         \A i \in 1..Len(r.parts) :
            Honest => r.parts[i].rev = index.rev /\ Agrees(r.parts[i].rev, r.parts[i].seen)

(* A request that has looked at the time and is about to compare it: what   *)
(* carries that time already is no older than the request's key.            *)
Stamped(r) ==
    r.at = "check" /\ r.key # Absent /\ snapshot # Absent /\ stamp = r.stat => AtLeast(r.key, snapshot.rev)
Behind(r, q) ==
    r.at = "check" /\ r.key # Absent /\ q.at \in Fetching /\ r.stat = q.stat => AtLeast(r.key, q.rev)

EntriesOK(q) == \A i \in 1..Len(q) : Parts(q[i].key, q[i].parts)

EngineOK ==
    /\ Sound(snapshot)
    /\ snapshot # Absent /\ stamp = index.no => snapshot.rev = index.rev
    /\ EntriesOK(answers)

CommandOK ==
    /\ Sound(derived) /\ Sound(command.aside)
    /\ command.at # "off" => Agrees(command.rev, command.seen)
    /\ command.at = "read" => Len(command.seen) < Races
    /\ command.at \in {"publish", "move"} => Len(command.seen) = Races

RequestsOK ==
    /\ \A c \in Client : RequestOK(call[c]) /\ Stamped(call[c])
    /\ \A c, d \in Client : Behind(call[c], call[d])

IInv == Types /\ EngineOK /\ CommandOK /\ RequestsOK

-----------------------------------------------------------------------------
(* The cache: whatever is looked up, put or trimmed, an entry is one that    *)
(* was there, or the new one.                                                *)
LEMMA OthersAreEntries ==
  ASSUME answers \in Seq(Entry), EntriesOK(answers), NEW key
  PROVE  Others(key) \in Seq(Entry) /\ EntriesOK(Others(key))
<1>1. CASE At(key) = {}
  BY <1>1 DEF Others
<1>2. ASSUME NEW i \in 1..Len(answers)
      PROVE  Without(i) \in Seq(Entry) /\ EntriesOK(Without(i))
  <2> DEFINE a == SubSeq(answers, 1, i - 1)
             b == SubSeq(answers, i + 1, Len(answers))
  <2>0. Len(answers) \in Nat
    BY LenProperties
  <2>1. /\ a \in Seq(Entry) /\ Len(a) = i - 1
        /\ \A j \in 1..(i - 1) : a[j] = answers[j]
    BY <2>0, SubSeqProperties
  <2>2. /\ b \in Seq(Entry) /\ Len(b) = Len(answers) - i
        /\ \A j \in 1..(Len(answers) - i) : b[j] = answers[i + j]
    BY <2>0, SubSeqProperties
  <2> HIDE DEF a, b
  <2>3. /\ a \o b \in Seq(Entry) /\ Len(a \o b) = Len(a) + Len(b)
        /\ \A j \in 1..(Len(a) + Len(b)) : (a \o b)[j] = IF j <= Len(a) THEN a[j] ELSE b[j - Len(a)]
    BY <2>1, <2>2, ConcatProperties
  <2>4. \A j \in 1..Len(a \o b) : \E k \in 1..Len(answers) : (a \o b)[j] = answers[k]
    <3> SUFFICES ASSUME NEW j \in 1..Len(a \o b)
                 PROVE  \E k \in 1..Len(answers) : (a \o b)[j] = answers[k]
      OBVIOUS
    <3>1. CASE j <= i - 1
      BY <2>0, <2>1, <2>2, <2>3, <3>1
    <3>2. CASE j > i - 1
      <4>1. j - Len(a) \in 1..(Len(answers) - i) /\ i + (j - Len(a)) \in 1..Len(answers)
        BY <2>0, <2>1, <2>2, <2>3, <3>2
      <4>2. (a \o b)[j] = answers[i + (j - Len(a))]
        BY <2>0, <2>1, <2>2, <2>3, <3>2, <4>1
      <4> QED
        BY <4>1, <4>2
    <3> QED
      BY <2>0, <2>1, <2>2, <2>3, <3>1, <3>2
  <2> QED
    BY <2>3, <2>4 DEF Without, EntriesOK, a, b
<1>3. CASE At(key) # {}
  <2>1. (CHOOSE i \in At(key) : TRUE) \in 1..Len(answers)
    BY <1>3 DEF At
  <2> QED
    BY <1>2, <1>3, <2>1 DEF Others
<1> QED
  BY <1>1, <1>3

(* The most recent entries are entries. *)
LEMMA MostRecentIsEntries ==
  ASSUME answers \in Seq(Entry), EntriesOK(answers), NEW key \in Question \X Nat,
         NEW parts \in Seq(Snapshots), Parts(key, parts)
  PROVE  MostRecent(key, parts) \in Seq(Entry) /\ EntriesOK(MostRecent(key, parts))
<1> DEFINE q == Others(key)
           e == [key |-> key, parts |-> parts]
<1>1. q \in Seq(Entry) /\ EntriesOK(q) /\ e \in Entry
  BY OthersAreEntries DEF Entry
<1> HIDE DEF q
<1>2. /\ Append(q, e) \in Seq(Entry) /\ Len(Append(q, e)) = Len(q) + 1
      /\ \A i \in 1..Len(q) : Append(q, e)[i] = q[i]
      /\ Append(q, e)[Len(q) + 1] = e
  BY <1>1, AppendProperties
<1>3. Len(q) \in Nat
  BY <1>1, LenProperties
<1>4. EntriesOK(Append(q, e))
  BY <1>1, <1>2, <1>3 DEF EntriesOK
<1> QED
  BY <1>2, <1>4 DEF MostRecent, q

(* What the trim keeps are entries. *)
LEMMA TrimmedIsEntries ==
  ASSUME NEW q \in Seq(Entry), EntriesOK(q)
  PROVE  Trimmed(q) \in Seq(Entry) /\ EntriesOK(Trimmed(q))
<1>1. CASE Len(q) > CacheLimit
  <2>1. Len(q) \in Nat /\ CacheLimit \in Nat \ {0}
    BY LenProperties, AnalyticsAssumption
  <2> DEFINE m == Len(q) - CacheLimit + 1
             t == SubSeq(q, m, Len(q))
  <2>2. m \in 1..Len(q)
    BY <1>1, <2>1
  <2> HIDE DEF m
  <2>3. /\ t \in Seq(Entry) /\ Len(t) = Len(q) - m + 1
        /\ \A i \in 1..(Len(q) - m + 1) : t[i] = q[m + i - 1]
    BY <2>1, <2>2, SubSeqProperties
  <2> HIDE DEF t
  <2>4. \A i \in 1..Len(t) : \E j \in 1..Len(q) : t[i] = q[j]
    BY <2>1, <2>2, <2>3
  <2> QED
    BY <1>1, <2>3, <2>4 DEF Trimmed, EntriesOK, t, m
<1>2. CASE ~ (Len(q) > CacheLimit)
  BY <1>2 DEF Trimmed
<1> QED
  BY <1>1, <1>2

-----------------------------------------------------------------------------
(* The archive.  What agrees goes on agreeing: a table that is published    *)
(* makes the catalog pending, and a save that ends that has a new revision. *)
ArchiveStep ==
    \/ \E i \in 1..Races : PublishTables(i)
    \/ \E rev \in 1..(index.no + 1) : SaveCatalog(rev)

AgreesAfter(rev, seen) ==
    Honest' => /\ rev <= index'.rev
               /\ rev = index'.rev /\ ~ pending' => \A i \in DOMAIN seen : seen[i] = tables'[i]

PartsAfter(key, parts) ==
    \A i \in 1..Len(parts) :
        (Honest' => key[2] <= parts[i].rev) /\ AgreesAfter(parts[i].rev, parts[i].seen)

(* The state of the archive in the invariant. *)
LEMMA ArchiveFacts ==
  ASSUME Types, ArchiveStep
  PROVE  /\ tables' \in [1..Races -> Nat] /\ index' \in [rev : Nat, no : Nat]
         /\ pending' \in BOOLEAN /\ kept' \in BOOLEAN /\ returned' \in BOOLEAN
         /\ index' = index \/ index'.no = index.no + 1
         /\ Honest' => Honest /\ index.rev <= index'.rev
         /\ call' = [c \in Client |-> [call[c] EXCEPT !.calm = FALSE]]
         /\ UNCHANGED <<engineSide, commandSide>>
         /\ \A rev \in Nat : \A seen : Agrees(rev, seen) => AgreesAfter(rev, seen)
<1> USE DEF Types
<1>1. CASE \E i \in 1..Races : PublishTables(i)
  <2>1. PICK i \in 1..Races : PublishTables(i)
    BY <1>1
  <2>2. tables' \in [1..Races -> Nat] /\ pending' = TRUE /\ UNCHANGED <<index, kept, returned>>
    BY <2>1 DEF PublishTables
  <2>3. \A rev \in Nat : \A seen : Agrees(rev, seen) => AgreesAfter(rev, seen)
    BY <2>2 DEF Agrees, AgreesAfter, Honest
  <2>4. Honest' => Honest /\ index.rev <= index'.rev
    BY <2>2 DEF Honest
  <2> QED
    BY <2>1, <2>2, <2>3, <2>4 DEF PublishTables, Disturbed
<1>2. CASE \E rev \in 1..(index.no + 1) : SaveCatalog(rev)
  <2>1. PICK new \in 1..(index.no + 1) : SaveCatalog(new)
    BY <1>2
  <2>2. /\ index' = [rev |-> new, no |-> index.no + 1] /\ tables' = tables /\ pending' = FALSE
        /\ kept' = (kept \/ (pending /\ new = index.rev))
        /\ returned' = (returned \/ new < index.rev)
        /\ new \in Nat /\ index.rev \in Nat /\ index.no + 1 \in Nat
    BY <2>1 DEF SaveCatalog
  <2>3. Honest' => Honest /\ index.rev <= index'.rev /\ (new = index.rev => ~ pending)
    <3>1. Honest' => Honest /\ ~ (pending /\ new = index.rev) /\ ~ (new < index.rev)
      BY <2>2, Zenon DEF Honest
    <3>2. ~ (new < index.rev) => index.rev <= index'.rev
      BY <2>2
    <3> QED
      BY <3>1, <3>2
  <2>4. index'.rev = new /\ index'.no = index.no + 1 /\ index' \in [rev : Nat, no : Nat]
    BY <2>2
  <2>5. ASSUME NEW rev \in Nat, NEW seen, Agrees(rev, seen)
        PROVE  AgreesAfter(rev, seen)
    BY <2>2, <2>3, <2>4, <2>5 DEF Agrees, AgreesAfter
  <2>6. kept' \in BOOLEAN /\ returned' \in BOOLEAN
    BY <2>2
  <2> QED
    BY <2>1, <2>2, <2>3, <2>4, <2>5, <2>6 DEF SaveCatalog, Disturbed
<1> QED
  BY <1>1, <1>2 DEF ArchiveStep

(* A step of the archive (a race added, a rebuild) keeps the invariant. *)
LEMMA ArchiveStepInv ==
  ASSUME IInv, ArchiveStep
  PROVE  IInv'
<1> DEFINE Still(r) == [r EXCEPT !.calm = FALSE]
<1>1. /\ Types /\ index \in [rev : Nat, no : Nat] /\ index' \in [rev : Nat, no : Nat]
      /\ index' = index \/ index'.no = index.no + 1
      /\ Honest' => Honest /\ index.rev <= index'.rev
      /\ UNCHANGED <<snapshot, stamp, answers, derived, command>>
  BY ArchiveFacts DEF IInv, Types, engineSide, commandSide
<1>0. \A rev \in Nat : \A seen : Agrees(rev, seen) => AgreesAfter(rev, seen)
  BY ArchiveFacts DEF IInv
<1>2. \A c \in Client : call'[c] = Still(call[c]) /\ call[c] \in Call
  BY <1>1, ArchiveFacts DEF Types
<1>3. Types'
  <2>1. call' \in [Client -> Call]
    <3>1. call' = [c \in Client |-> Still(call[c])]
      BY ArchiveFacts DEF IInv
    <3>2. \A c \in Client : Still(call[c]) \in Call
      BY <1>2 DEF Call
    <3> QED
      BY <3>1, <3>2
  <2>2. stamp' \in 0..index'.no
    BY <1>1 DEF Types
  <2> QED
    BY <1>1, <2>1, <2>2, ArchiveFacts DEF IInv, Types
<1>4. ASSUME NEW key, NEW parts \in Seq(Snapshots), Parts(key, parts)
      PROVE  PartsAfter(key, parts)
  <2> SUFFICES ASSUME NEW i \in 1..Len(parts)
               PROVE  /\ Honest' => key[2] <= parts[i].rev
                      /\ AgreesAfter(parts[i].rev, parts[i].seen)
    BY DEF PartsAfter
  <2>1. parts[i] \in Snapshots
    BY LenProperties
  <2>2. parts[i].rev \in Nat /\ Agrees(parts[i].rev, parts[i].seen) /\ AtLeast(key, parts[i].rev)
    BY <1>4, <2>1 DEF Snapshots, Parts
  <2> QED
    BY <1>0, <1>1, <2>2 DEF AtLeast
<1>5. EngineOK'
  <2>1. Sound(snapshot)'
    <3>1. snapshot # Absent => AgreesAfter(snapshot.rev, snapshot.seen)
      BY <1>0 DEF IInv, EngineOK, Sound, Types, MaybeSnapshot, Snapshots
    <3> QED
      BY <1>1, <3>1 DEF Sound, Agrees, AgreesAfter
  <2>2. (snapshot # Absent /\ stamp = index.no => snapshot.rev = index.rev)'
    BY <1>1 DEF IInv, EngineOK, Types
  <2>3. EntriesOK(answers)'
    <3> SUFFICES ASSUME NEW i \in 1..Len(answers)
                 PROVE  Parts(answers[i].key, answers[i].parts)'
      BY <1>1 DEF EntriesOK
    <3>1. answers[i] \in Entry /\ Parts(answers[i].key, answers[i].parts)
      BY LenProperties DEF IInv, Types, EngineOK, EntriesOK
    <3>2. PartsAfter(answers[i].key, answers[i].parts)
      BY <1>4, <3>1 DEF Entry
    <3> QED
      BY <1>1, <3>2 DEF PartsAfter, AgreesAfter, Parts, AtLeast, Agrees
  <2> QED
    BY <2>1, <2>2, <2>3 DEF EngineOK
<1>6. CommandOK'
  <2>1. /\ derived # Absent => AgreesAfter(derived.rev, derived.seen)
        /\ command.aside # Absent => AgreesAfter(command.aside.rev, command.aside.seen)
        /\ command.at # "off" => AgreesAfter(command.rev, command.seen)
    BY <1>0 DEF IInv, CommandOK, Sound, Types, MaybeSnapshot, Snapshots, Command
  <2>2. Sound(derived)' /\ Sound(command.aside)'
    BY <1>1, <2>1 DEF Sound, Agrees, AgreesAfter
  <2>3. (command.at # "off" => Agrees(command.rev, command.seen))'
    BY <1>1, <2>1 DEF Agrees, AgreesAfter
  <2> QED
    BY <1>1, <2>2, <2>3 DEF IInv, CommandOK
<1>7. ASSUME NEW c \in Client
      PROVE  RequestOK(call[c])' /\ Stamped(call[c])'
  <2> DEFINE r == call[c]
  <2>1. /\ r \in Call /\ RequestOK(r) /\ Stamped(r)
        /\ call'[c] \in Call /\ call'[c].calm = FALSE
        /\ call'[c].at = r.at /\ call'[c].page = r.page /\ call'[c].key = r.key /\ call'[c].stat = r.stat
        /\ call'[c].rev = r.rev /\ call'[c].manifest = r.manifest /\ call'[c].seen = r.seen
        /\ call'[c].parts = r.parts
    BY <1>2 DEF IInv, RequestsOK, Call
  <2> HIDE DEF r
  <2>2. r.at \in {"manifest", "file", "build"} => Agrees(call[c].rev, call[c].seen)'
    <3>1. r.at \in {"manifest", "file", "build"} => AgreesAfter(r.rev, r.seen)
      BY <1>0, <2>1 DEF RequestOK, Call
    <3> QED
      BY <2>1, <3>1 DEF Agrees, AgreesAfter
  <2>3. r.at = "file" => Sound(call[c].manifest)'
    <3>1. r.at = "file" => AgreesAfter(r.manifest.rev, r.manifest.seen)
      BY <1>0, <2>1 DEF RequestOK, Call, Sound, MaybeSnapshot, Snapshots
    <3> QED
      BY <2>1, <3>1 DEF Agrees, AgreesAfter, Sound
  <2>4. r.key # Absent => Parts(call[c].key, call[c].parts)'
    <3>1. r.key # Absent => PartsAfter(r.key, r.parts)
      BY <1>4, <2>1 DEF RequestOK, Call
    <3> QED
      BY <2>1, <3>1 DEF PartsAfter, AgreesAfter, Parts, AtLeast, Agrees
  <2>5. r.key # Absent => (Honest => call[c].key[2] <= index.rev)'
    <3>1. r.key # Absent => r.key[2] \in Nat
      BY <2>1 DEF Call
    <3> QED
      BY <1>1, <2>1, <3>1 DEF RequestOK
  <2>6. r.at \in Fetching => /\ (call[c].stat = index.no => call[c].rev = index.rev)'
                             /\ (Honest => call[c].rev <= index.rev)'
                             /\ r.key # Absent => AtLeast(call[c].key, call[c].rev)'
    BY <1>1, <2>1 DEF RequestOK, Call, AtLeast
  <2>7. call'[c].stat <= index'.no
    BY <1>1, <2>1 DEF RequestOK, Call
  <2>8. RequestOK(call[c])'
    BY <2>1, <2>2, <2>3, <2>4, <2>5, <2>6, <2>7 DEF RequestOK
  <2>9. Stamped(call[c])'
    BY <1>1, <2>1 DEF Stamped, AtLeast
  <2> QED
    BY <2>8, <2>9
<1>8. ASSUME NEW c \in Client, NEW d \in Client
      PROVE  Behind(call[c], call[d])'
  <2>1. Behind(call[c], call[d])
    BY DEF IInv, RequestsOK
  <2> QED
    BY <1>1, <1>2, <2>1 DEF Behind, AtLeast, Call
<1> QED
  BY <1>3, <1>5, <1>6, <1>7, <1>8 DEF IInv, RequestsOK

-----------------------------------------------------------------------------
(* A thread's step leaves the archive alone: one request is replaced by one *)
(* that is as it should be, beside the others.                              *)
LEMMA OneCall ==
  ASSUME IInv, UNCHANGED archiveSide, NEW c \in Client, NEW r \in Call, RequestOK(r),
         call' = [call EXCEPT ![c] = r],
         \A d \in Client : Behind(r, call[d]) /\ Behind(call[d], r)
  PROVE  /\ call' \in [Client -> Call]
         /\ \A d \in Client : RequestOK(call[d])'
         /\ \A d, e \in Client : Behind(call[d], call[e])'
<1>1. call \in [Client -> Call]
  BY DEF IInv, Types
<1>2. ASSUME NEW d \in Client PROVE RequestOK(call[d])'
  <2>1. RequestOK(call'[d])
    BY <1>1 DEF IInv, RequestsOK
  <2> QED
    BY <2>1 DEF archiveSide, RequestOK, Agrees, AtLeast, Parts, Sound, Honest
<1>3. ASSUME NEW d \in Client, NEW e \in Client PROVE Behind(call[d], call[e])'
  <2>1. Behind(call'[d], call'[e])
    <3>1. Behind(r, r)
      BY DEF Behind, Fetching
    <3> QED
      BY <1>1, <3>1 DEF IInv, RequestsOK
  <2> QED
    BY <2>1 DEF archiveSide, Behind, AtLeast, Honest
<1> QED
  BY <1>1, <1>2, <1>3

(* The same, where snapshot and cache stay. *)
LEMMA OneCallInv ==
  ASSUME IInv, UNCHANGED <<archiveSide, snapshot, stamp, commandSide>>, NEW c \in Client,
         NEW r \in Call, RequestOK(r), Stamped(r), call' = [call EXCEPT ![c] = r],
         \A d \in Client : Behind(r, call[d]) /\ Behind(call[d], r),
         answers' \in Seq(Entry), EntriesOK(answers')
  PROVE  IInv'
<1>1. /\ call' \in [Client -> Call]
      /\ \A d \in Client : RequestOK(call[d])'
      /\ \A d, e \in Client : Behind(call[d], call[e])'
  BY OneCall
<1>2. ASSUME NEW d \in Client PROVE Stamped(call[d])'
  <2>1. Stamped(call'[d])
    BY DEF IInv, RequestsOK, Types
  <2> QED
    BY <2>1 DEF archiveSide, Stamped, AtLeast, Honest
<1>3. EngineOK'
  BY DEF archiveSide, IInv, EngineOK, EntriesOK, Parts, Sound, Agrees, AtLeast, Honest
<1>4. CommandOK'
  BY DEF archiveSide, commandSide, IInv, CommandOK, Sound, Agrees, Honest
<1>5. Types'
  BY <1>1 DEF archiveSide, commandSide, IInv, Types
<1> QED
  BY <1>1, <1>2, <1>3, <1>4, <1>5 DEF IInv, RequestsOK

(* A request that is neither comparing nor fetching is behind nothing. *)
LEMMA Apart ==
  ASSUME NEW r, r.at \notin Fetching \cup {"check"}
  PROVE  Stamped(r) /\ \A d \in Client : Behind(r, call[d]) /\ Behind(call[d], r)
  BY DEF Stamped, Behind

(* A thread with nothing to do is in a call of no race. *)
LEMMA NoCallIsCall == /\ NoCall \in Call /\ NoCall.at = "idle" /\ NoCall.key = Absent
                      /\ NoCall.stat = 0 /\ NoCall.seen = <<>> /\ NoCall.parts = <<>>
                      /\ NoCall.calm = FALSE
  BY DEF NoCall, Call, Places, MaybeSnapshot

(* Such a call relies on nothing. *)
LEMMA NoCallOK == ASSUME Types PROVE RequestOK(NoCall)
<1>1. index.no \in Nat
  BY DEF Types
<1> QED
  BY <1>1, NoCallIsCall DEF RequestOK, Fetching

(* What a request takes from a snapshot that agrees, that is no older than  *)
(* its key and, while nothing has happened, the catalog's. *)
LEMMA ReturnsOK ==
  ASSUME IInv, NEW c \in Client, call[c].at \in Fetching \cup {"check"}, NEW s \in Snapshots,
         Agrees(s.rev, s.seen),
         call[c].key # Absent => AtLeast(call[c].key, s.rev),
         call[c].calm => s.rev = index.rev,
         Returns(c, s)
  PROVE  \E r \in Call : /\ RequestOK(r) /\ r.at \notin Fetching \cup {"check"}
                         /\ call' = [call EXCEPT ![c] = r]
<1> DEFINE a == [call[c] EXCEPT !.stat = 0, !.rev = 0]
           a2 == [a EXCEPT !.manifest = Absent]
           b == [a2 EXCEPT !.seen = <<>>]
<1>1. /\ call[c] \in Call /\ RequestOK(call[c]) /\ index.no \in Nat
      /\ call[c].page \in Question
  BY DEF IInv, Types, RequestsOK, RequestOK, Fetching
<1>2. /\ a \in Call /\ a.stat = 0 /\ a.at = call[c].at /\ a.page = call[c].page
      /\ a.key = call[c].key /\ a.parts = call[c].parts /\ a.calm = call[c].calm
  BY <1>1 DEF Call
<1> HIDE DEF a
<1>2a. /\ a2 \in Call /\ a2.stat = 0 /\ a2.at = call[c].at /\ a2.page = call[c].page
       /\ a2.key = call[c].key /\ a2.parts = call[c].parts /\ a2.calm = call[c].calm
  BY <1>2 DEF Call, MaybeSnapshot
<1> HIDE DEF a2
<1>3. /\ b \in Call /\ b.stat = 0 /\ b.at = call[c].at /\ b.page = call[c].page
      /\ b.key = call[c].key /\ b.parts = call[c].parts /\ b.calm = call[c].calm
      /\ b.seen = <<>>
  <2>1. <<>> \in Seq(Nat)
    OBVIOUS
  <2> QED
    BY <1>2a, <2>1 DEF Call
<1> HIDE DEF b
<1>4. CASE b.key = Absent
  <2> DEFINE k == <<b.page, s.rev>>
             r == [b EXCEPT !.at = "lookup", !.key = k]
  <2>1. k \in Question \X Nat /\ k # Absent /\ k[2] = s.rev
    BY <1>1, <1>3, AnalyticsAssumption DEF Snapshots
  <2> HIDE DEF k
  <2>2. /\ r \in Call /\ r.at = "lookup" /\ r.page = b.page /\ r.key = k /\ r.stat = 0
        /\ r.seen = <<>> /\ r.parts = b.parts /\ r.calm = b.calm
    BY <1>3, <2>1 DEF Call, Places
  <2>3. b.parts = <<>> /\ Len(b.parts) = 0
    BY <1>1, <1>3, <1>4 DEF RequestOK, Fetching
  <2>4. Honest => s.rev <= index.rev
    BY DEF Agrees
  <2>5. RequestOK(r)
    BY <1>1, <1>3, <2>1, <2>2, <2>3, <2>4 DEF RequestOK, Fetching, Parts
  <2>6. call' = [call EXCEPT ![c] = r]
    BY <1>4 DEF Returns, a, a2, b, k
  <2> QED
    BY <2>2, <2>5, <2>6 DEF Fetching
<1>5. CASE b.key # Absent
  <2> DEFINE p == Append(b.parts, s)
             to == IF Len(b.parts) + 1 = Lookups THEN "put" ELSE "stat"
             r == [b EXCEPT !.at = to, !.parts = p]
  <2>1. /\ p \in Seq(Snapshots) /\ Len(p) = Len(b.parts) + 1 /\ Len(b.parts) \in Nat
        /\ \A i \in 1..Len(b.parts) : p[i] = b.parts[i]
        /\ p[Len(b.parts) + 1] = s
    <3>1. b.parts \in Seq(Snapshots)
      BY <1>3 DEF Call
    <3> QED
      BY <3>1, AppendProperties, LenProperties
  <2>2. Parts(b.key, b.parts)
    BY <1>1, <1>3, <1>5 DEF RequestOK
  <2>3. Parts(b.key, p)
    BY <1>3, <1>5, <2>1, <2>2 DEF Parts
  <2> HIDE DEF p
  <2>4. to \in {"put", "stat"}
    OBVIOUS
  <2> HIDE DEF to
  <2>5. /\ r \in Call /\ r.at = to /\ r.page = b.page /\ r.key = b.key /\ r.stat = 0
        /\ r.seen = <<>> /\ r.parts = p /\ r.calm = b.calm
    BY <1>3, <2>1, <2>4 DEF Call, Places
  <2>6. RequestOK(r)
    BY <1>1, <1>3, <1>5, <2>3, <2>4, <2>5 DEF RequestOK, Fetching
  <2>7. call' = [call EXCEPT ![c] = r]
    BY <1>5 DEF Returns, a, a2, b, p, to
  <2> QED
    BY <2>4, <2>5, <2>6, <2>7 DEF Fetching
<1> QED
  BY <1>4, <1>5

(* A snapshot is installed, with the time that was looked at before it. *)
LEMMA InstallInv ==
  ASSUME IInv, UNCHANGED <<archiveSide, commandSide>>, NEW c \in Client, call[c].at \in Fetching,
         NEW seen \in [1..Races -> Nat], Agrees(call[c].rev, seen), Install(c, seen)
  PROVE  IInv'
<1> DEFINE s == Built(call[c].rev, seen)
<1>1. call[c] \in Call /\ RequestOK(call[c])
  BY DEF IInv, Types, RequestsOK
<1>2. s \in Snapshots /\ s.rev = call[c].rev /\ s.seen = seen
  BY <1>1 DEF Built, Snapshots, Call
<1>3. snapshot' = s /\ stamp' = call[c].stat /\ answers' = <<>> /\ Returns(c, s)
  BY DEF Install
<1> HIDE DEF s
<1>4. /\ call[c].key # Absent => AtLeast(call[c].key, s.rev)
      /\ call[c].calm => s.rev = index.rev
      /\ call[c].stat = index.no => s.rev = index.rev
      /\ call[c].stat \in 0..index.no
  BY <1>1, <1>2 DEF RequestOK, Call, IInv, Types
<1>5. PICK r \in Call : /\ RequestOK(r) /\ r.at \notin Fetching \cup {"check"}
                        /\ call' = [call EXCEPT ![c] = r]
  BY <1>2, <1>3, <1>4, ReturnsOK
<1>6. /\ call' \in [Client -> Call]
      /\ \A d \in Client : RequestOK(call[d])'
      /\ \A d, e \in Client : Behind(call[d], call[e])'
  BY <1>5, Apart, OneCall
<1>7. ASSUME NEW d \in Client PROVE Stamped(call[d])'
  <2>1. CASE d = c
    BY <1>5, <2>1 DEF Stamped, IInv, Types
  <2>2. CASE d # c
    <3>1. call'[d] = call[d] /\ Behind(call[d], call[c])
      BY <1>5, <2>2 DEF IInv, Types, RequestsOK
    <3> QED
      BY <1>2, <1>3, <3>1 DEF Stamped, Behind, AtLeast, Honest, archiveSide
  <2> QED
    BY <2>1, <2>2
<1>8. EngineOK'
  <2>1. Sound(snapshot)'
    BY <1>2, <1>3 DEF archiveSide, Sound, Agrees, Honest
  <2>2. (snapshot # Absent /\ stamp = index.no => snapshot.rev = index.rev)'
    BY <1>3, <1>4 DEF archiveSide
  <2>3. EntriesOK(answers)'
    BY <1>3 DEF EntriesOK
  <2> QED
    BY <2>1, <2>2, <2>3 DEF EngineOK
<1>9. CommandOK'
  BY DEF archiveSide, commandSide, IInv, CommandOK, Sound, Agrees, Honest
<1>10. Types'
  BY <1>2, <1>3, <1>4, <1>6 DEF archiveSide, commandSide, IInv, Types, MaybeSnapshot
<1> QED
  BY <1>6, <1>7, <1>8, <1>9, <1>10 DEF IInv, RequestsOK

-----------------------------------------------------------------------------
(* A step of a client's call keeps the invariant. *)
LEMMA ClientStepInv ==
  ASSUME IInv, NEW c \in Client, ClientStep(c)
  PROVE  IInv'
<1> DEFINE Becomes(r) ==
      /\ r \in Call /\ RequestOK(r) /\ Stamped(r) /\ call' = [call EXCEPT ![c] = r]
      /\ \A d \in Client : Behind(r, call[d]) /\ Behind(call[d], r)
<1>1. /\ call[c] \in Call /\ RequestOK(call[c]) /\ Stamped(call[c]) /\ Types /\ EngineOK
      /\ \A d \in Client : call[d] \in Call /\ RequestOK(call[d]) /\ Behind(call[d], call[c])
      /\ index.no \in Nat /\ index.rev \in Nat
      /\ answers \in Seq(Entry) /\ EntriesOK(answers)
  BY DEF IInv, Types, RequestsOK, EngineOK
<1>2. ASSUME NEW r, Becomes(r), UNCHANGED <<archiveSide, snapshot, stamp, answers, commandSide>>
      PROVE  IInv'
  BY <1>1, <1>2, OneCallInv
<1>3. CASE Request(c)
  <2>1. PICK p \in Question :
          call' = [call EXCEPT ![c] = [NoCall EXCEPT !.at = "stat", !.page = p, !.calm = ~ pending]]
    BY <1>3 DEF Request
  <2> DEFINE q == [NoCall EXCEPT !.at = "stat"]
             r == [q EXCEPT !.page = p, !.calm = ~ pending]
  <2>2. /\ q \in Call /\ q.at = "stat" /\ q.key = Absent /\ q.stat = 0 /\ q.seen = <<>> /\ q.parts = <<>>
    BY NoCallIsCall DEF Call, Places
  <2> HIDE DEF q
  <2>3. /\ r \in Call /\ r.at = "stat" /\ r.key = Absent /\ r.stat = 0 /\ r.seen = <<>> /\ r.parts = <<>>
        /\ r.page = p /\ r.calm = ~ pending
    BY <1>1, <2>2 DEF Call, Types
  <2>4. RequestOK(r)
    <3>1. r.calm => ~ pending
      BY <2>3
    <3> HIDE DEF r
    <3> QED
      BY <1>1, <2>3, <3>1 DEF RequestOK, Fetching
  <2>5. call' = [call EXCEPT ![c] = r]
    BY <2>1 DEF q
  <2> HIDE DEF r
  <2> QED
    BY <1>2, <1>3, <2>3, <2>4, <2>5, Apart DEF Request, Fetching, engineSide
<1>4. CASE Stat(c)
  <2> DEFINE q == [call[c] EXCEPT !.at = "check"]
             r == [q EXCEPT !.stat = index.no]
  <2>1. /\ q \in Call /\ q.at = "check" /\ q.page = call[c].page /\ q.key = call[c].key
        /\ q.seen = call[c].seen /\ q.parts = call[c].parts /\ q.calm = call[c].calm
    BY <1>1 DEF Call, Places
  <2> HIDE DEF q
  <2>2. /\ r \in Call /\ r.at = "check" /\ r.page = call[c].page /\ r.key = call[c].key
        /\ r.seen = call[c].seen /\ r.parts = call[c].parts /\ r.calm = call[c].calm
        /\ r.stat = index.no
    BY <1>1, <2>1 DEF Call
  <2>3. call' = [call EXCEPT ![c] = r] /\ call[c].at = "stat"
    BY <1>4 DEF Stat, q
  <2> HIDE DEF r
  <2>4. RequestOK(r)
    BY <1>1, <2>2, <2>3 DEF RequestOK, Fetching
  <2>5. r.key # Absent => AtLeast(r.key, index.rev)
    BY <2>4 DEF RequestOK, AtLeast
  <2>6. Stamped(r)
    BY <1>1, <2>2, <2>5 DEF Stamped, EngineOK
  <2>7. \A d \in Client : Behind(r, call[d]) /\ Behind(call[d], r)
    BY <1>1, <2>2, <2>5 DEF Behind, RequestOK, Fetching
  <2> QED
    BY <1>2, <1>4, <2>2, <2>3, <2>4, <2>6, <2>7 DEF Stat, engineSide
<1>5. ASSUME NEW to \in Places, call[c].at \in Places, RequestOK([call[c] EXCEPT !.at = to]),
             call' = [call EXCEPT ![c].at = to],
             to \notin Fetching \cup {"check"} \/ (to \in Fetching /\ call[c].at \in Fetching),
             UNCHANGED <<archiveSide, snapshot, stamp, answers, commandSide>>
      PROVE  IInv'
  <2> DEFINE r == [call[c] EXCEPT !.at = to]
  <2>1. r \in Call /\ r.at = to /\ r.stat = call[c].stat /\ r.rev = call[c].rev
    BY <1>1 DEF Call
  <2> HIDE DEF r
  <2>2. Stamped(r) /\ \A d \in Client : Behind(r, call[d]) /\ Behind(call[d], r)
    BY <1>1, <1>5, <2>1 DEF Stamped, Behind, Fetching
  <2> QED
    BY <1>2, <1>5, <2>1, <2>2 DEF r
<1>6. CASE Check(c)
  <2>1. CASE snapshot # Absent /\ stamp = call[c].stat
    <3>1. /\ call[c].at = "check" /\ Returns(c, snapshot)
          /\ snapshot \in Snapshots /\ Agrees(snapshot.rev, snapshot.seen)
      BY <1>1, <1>6, <2>1 DEF Check, Types, MaybeSnapshot, EngineOK, Sound
    <3>2. /\ call[c].key # Absent => AtLeast(call[c].key, snapshot.rev)
          /\ call[c].calm => snapshot.rev = index.rev
      BY <1>1, <2>1, <3>1 DEF Stamped, RequestOK, EngineOK
    <3>3. PICK r \in Call : /\ RequestOK(r) /\ r.at \notin Fetching \cup {"check"}
                            /\ call' = [call EXCEPT ![c] = r]
      BY <3>1, <3>2, ReturnsOK
    <3> QED
      BY <1>2, <1>6, <3>3, Apart DEF Check, engineSide
  <2>2. CASE ~ (snapshot # Absent /\ stamp = call[c].stat)
    <3>1. call[c].at = "check" /\ call' = [call EXCEPT ![c].at = "load"]
      BY <1>6, <2>2 DEF Check, Moves
    <3>2. RequestOK([call[c] EXCEPT !.at = "load"])
      BY <1>1, <3>1 DEF RequestOK, Fetching, Call
    <3> QED
      BY <1>5, <1>6, <3>1, <3>2 DEF Check, engineSide, Places, Fetching
  <2> QED
    BY <2>1, <2>2
<1>7. CASE LoadCatalog(c)
  <2> DEFINE q == [call[c] EXCEPT !.at = "enter"]
             r == [q EXCEPT !.rev = index.rev]
  <2>1. /\ q \in Call /\ q.at = "enter" /\ q.page = call[c].page /\ q.key = call[c].key
        /\ q.seen = call[c].seen /\ q.parts = call[c].parts /\ q.calm = call[c].calm
        /\ q.stat = call[c].stat
    BY <1>1 DEF Call, Places, Fetching
  <2> HIDE DEF q
  <2>2. /\ r \in Call /\ r.at = "enter" /\ r.page = call[c].page /\ r.key = call[c].key
        /\ r.seen = call[c].seen /\ r.parts = call[c].parts /\ r.calm = call[c].calm
        /\ r.stat = call[c].stat /\ r.rev = index.rev
    BY <1>1, <2>1 DEF Call
  <2>3. call' = [call EXCEPT ![c] = r] /\ call[c].at = "load"
    BY <1>7 DEF LoadCatalog, q
  <2> HIDE DEF r
  <2>4. RequestOK(r)
    BY <1>1, <2>2, <2>3 DEF RequestOK, Fetching, AtLeast
  <2>5. Stamped(r) /\ \A d \in Client : Behind(r, call[d]) /\ Behind(call[d], r)
    BY <1>1, <2>2 DEF Stamped, Behind, RequestOK, AtLeast
  <2> QED
    BY <1>2, <1>7, <2>2, <2>3, <2>4, <2>5 DEF LoadCatalog, engineSide
<1>8. CASE Enter(c)
  <2>1. CASE snapshot # Absent /\ snapshot.rev = call[c].rev
    <3>1. /\ call[c].at = "enter" /\ Returns(c, snapshot) /\ stamp' = call[c].stat
          /\ snapshot \in Snapshots /\ Agrees(snapshot.rev, snapshot.seen)
          /\ UNCHANGED <<archiveSide, snapshot, answers, held, commandSide>>
      BY <1>1, <1>8, <2>1 DEF Enter, Types, MaybeSnapshot, EngineOK, Sound
    <3>2. /\ call[c].key # Absent => AtLeast(call[c].key, snapshot.rev)
          /\ call[c].calm => snapshot.rev = index.rev
          /\ call[c].stat = index.no => snapshot.rev = index.rev
          /\ call[c].stat \in 0..index.no
      BY <1>1, <2>1, <3>1 DEF RequestOK, Fetching, Call
    <3>3. PICK r \in Call : /\ RequestOK(r) /\ r.at \notin Fetching \cup {"check"}
                            /\ call' = [call EXCEPT ![c] = r]
      BY <3>1, <3>2, ReturnsOK DEF Fetching
    <3>4. /\ call' \in [Client -> Call]
          /\ \A d \in Client : RequestOK(call[d])'
          /\ \A d, e \in Client : Behind(call[d], call[e])'
      BY <3>1, <3>3, Apart, OneCall
    <3>5. ASSUME NEW d \in Client PROVE Stamped(call[d])'
      <4>1. CASE d = c
        BY <1>1, <3>3, <4>1 DEF Stamped, Types
      <4>2. CASE d # c
        <5>1. call'[d] = call[d] /\ Behind(call[d], call[c])
          BY <1>1, <3>3, <4>2 DEF Types
        <5> QED
          BY <2>1, <3>1, <5>1 DEF Stamped, Behind, AtLeast, Honest, archiveSide, Fetching
      <4> QED
        BY <4>1, <4>2
    <3>6. EngineOK'
      BY <1>1, <3>1, <3>2 DEF archiveSide, EngineOK, EntriesOK, Parts, AtLeast, Sound, Agrees, Honest
    <3>7. CommandOK'
      BY <3>1 DEF archiveSide, commandSide, IInv, CommandOK, Sound, Agrees, Honest
    <3>8. Types'
      BY <1>1, <3>1, <3>2, <3>4 DEF archiveSide, commandSide, Types
    <3> QED
      BY <3>4, <3>5, <3>6, <3>7, <3>8 DEF IInv, RequestsOK
  <2>2. CASE ~ (snapshot # Absent /\ snapshot.rev = call[c].rev)
    <3>1. call[c].at = "enter" /\ call' = [call EXCEPT ![c].at = "manifest"]
      BY <1>8, <2>2 DEF Enter, Moves
    <3>2. RequestOK([call[c] EXCEPT !.at = "manifest"])
      <4> DEFINE r == [call[c] EXCEPT !.at = "manifest"]
      <4>1. /\ r.at = "manifest" /\ r.page = call[c].page /\ r.key = call[c].key
            /\ r.seen = call[c].seen /\ r.parts = call[c].parts /\ r.calm = call[c].calm
            /\ r.stat = call[c].stat /\ r.rev = call[c].rev
        BY <1>1 DEF Call
      <4> HIDE DEF r
      <4>2. call[c].seen = <<>> /\ Len(<<>>) < Races /\ Agrees(call[c].rev, <<>>)
        BY <1>1, <3>1, AnalyticsAssumption DEF RequestOK, Fetching, Agrees
      <4>3. RequestOK(r)
        BY <1>1, <3>1, <4>1, <4>2 DEF RequestOK, Fetching
      <4> QED
        BY <4>3 DEF r
    <3> QED
      BY <1>5, <1>8, <2>2, <3>1, <3>2 DEF Enter, Places, Fetching
  <2> QED
    BY <2>1, <2>2
<1>9. CASE ReadManifest(c)
  <2> DEFINE to == IF derived # Absent /\ derived.rev = call[c].rev THEN "file" ELSE "build"
             q == [call[c] EXCEPT !.at = to]
             r == [q EXCEPT !.manifest = derived]
  <2>1. to \in {"file", "build"} /\ (to = "file" => derived # Absent /\ derived.rev = call[c].rev)
    OBVIOUS
  <2> HIDE DEF to
  <2>2. /\ q \in Call /\ q.at = to /\ q.page = call[c].page /\ q.key = call[c].key
        /\ q.seen = call[c].seen /\ q.parts = call[c].parts /\ q.calm = call[c].calm
        /\ q.stat = call[c].stat /\ q.rev = call[c].rev
    BY <1>1, <2>1 DEF Call, Places, Fetching
  <2> HIDE DEF q
  <2>3. /\ r \in Call /\ r.at = to /\ r.page = call[c].page /\ r.key = call[c].key
        /\ r.seen = call[c].seen /\ r.parts = call[c].parts /\ r.calm = call[c].calm
        /\ r.stat = call[c].stat /\ r.rev = call[c].rev /\ r.manifest = derived
    BY <1>1, <2>2 DEF Call, Types
  <2>4. call' = [call EXCEPT ![c] = r] /\ call[c].at = "manifest"
    BY <1>9 DEF ReadManifest, q, to
  <2> HIDE DEF r
  <2>5. RequestOK(r)
    BY <1>1, <2>1, <2>3, <2>4 DEF RequestOK, Fetching, IInv, CommandOK
  <2>6. Stamped(r) /\ \A d \in Client : Behind(r, call[d]) /\ Behind(call[d], r)
    BY <1>1, <2>1, <2>3, <2>4 DEF Stamped, Behind, Fetching
  <2> QED
    BY <1>2, <1>9, <2>3, <2>4, <2>5, <2>6 DEF ReadManifest, engineSide
<1>10. CASE ReadFile(c)
  <2>1. CASE derived # Absent /\ derived.seen = call[c].manifest.seen
    <3>1. /\ call[c].at = "file" /\ Install(c, derived.seen)
          /\ UNCHANGED <<archiveSide, commandSide>>
      BY <1>10, <2>1 DEF ReadFile
    <3>2. derived.seen \in [1..Races -> Nat]
      BY <1>1, <2>1 DEF Types, MaybeSnapshot, Snapshots
    <3>3. Agrees(call[c].rev, derived.seen)
      BY <1>1, <2>1, <3>1 DEF RequestOK, Sound
    <3> QED
      BY <3>1, <3>2, <3>3, InstallInv DEF Fetching
  <2>2. CASE ~ (derived # Absent /\ derived.seen = call[c].manifest.seen)
    <3>1. call[c].at = "file" /\ call' = [call EXCEPT ![c].at = "build"]
      BY <1>10, <2>2 DEF ReadFile, Moves
    <3>2. RequestOK([call[c] EXCEPT !.at = "build"])
      BY <1>1, <3>1 DEF RequestOK, Fetching, Call
    <3> QED
      BY <1>5, <1>10, <2>2, <3>1, <3>2 DEF ReadFile, Places, Fetching, engineSide
  <2> QED
    BY <2>1, <2>2
<1>11. CASE BuildRace(c)
  <2> DEFINE old == call[c].seen
             seen == Append(old, tables[Len(old) + 1])
  <2>1. call[c].at = "build" /\ old \in Seq(Nat) /\ Len(old) \in Nat /\ Len(old) < Races
    BY <1>1, <1>11, LenProperties DEF BuildRace, RequestOK, Call
  <2>2. tables[Len(old) + 1] \in Nat
    BY <1>1, <2>1, AnalyticsAssumption DEF Types
  <2>3. /\ seen \in Seq(Nat) /\ Len(seen) = Len(old) + 1
        /\ \A i \in 1..Len(old) : seen[i] = old[i]
        /\ seen[Len(old) + 1] = tables[Len(old) + 1]
    BY <2>1, <2>2, AppendProperties
  <2>4. DOMAIN old = 1..Len(old) /\ DOMAIN seen = 1..Len(seen) /\ seen \in [1..Len(seen) -> Nat]
    BY <2>1, <2>3, LenProperties
  <2>5. Agrees(call[c].rev, seen)
    BY <1>1, <2>1, <2>3, <2>4 DEF RequestOK, Agrees
  <2>6. /\ IF Len(seen) = Races THEN Install(c, seen)
           ELSE call' = [call EXCEPT ![c].seen = seen] /\ UNCHANGED engineSide
        /\ UNCHANGED <<archiveSide, commandSide>>
    BY <1>11 DEF BuildRace
  <2> HIDE DEF seen
  <2>7. CASE Len(seen) = Races
    BY <2>1, <2>4, <2>5, <2>6, <2>7, InstallInv DEF Fetching
  <2>8. CASE Len(seen) # Races
    <3> DEFINE r == [call[c] EXCEPT !.seen = seen]
    <3>1. /\ r \in Call /\ r.at = "build" /\ r.page = call[c].page /\ r.key = call[c].key
          /\ r.seen = seen /\ r.parts = call[c].parts /\ r.calm = call[c].calm
          /\ r.stat = call[c].stat /\ r.rev = call[c].rev
      BY <1>1, <2>1, <2>3 DEF Call
    <3>2. call' = [call EXCEPT ![c] = r]
      BY <2>6, <2>8
    <3> HIDE DEF r
    <3>3. Len(seen) < Races
      BY <2>1, <2>3, <2>8, AnalyticsAssumption
    <3>4. RequestOK(r)
      BY <1>1, <2>1, <2>5, <3>1, <3>3 DEF RequestOK, Fetching
    <3>5. Stamped(r) /\ \A d \in Client : Behind(r, call[d]) /\ Behind(call[d], r)
      BY <1>1, <2>1, <3>1 DEF Stamped, Behind, Fetching
    <3> QED
      BY <1>2, <2>6, <2>8, <3>1, <3>2, <3>4, <3>5 DEF engineSide
  <2> QED
    BY <2>7, <2>8
<1>12. CASE BuildFails(c)
  <2>1. NoCall \in Call /\ RequestOK(NoCall) /\ NoCall.at \notin Fetching \cup {"check"}
    BY <1>1, NoCallIsCall, NoCallOK DEF Fetching
  <2> QED
    BY <1>2, <1>12, <2>1, Apart DEF BuildFails
<1>13. ASSUME NEW parts \in Seq(Snapshots), call[c].key # Absent, Parts(call[c].key, parts),
              call' = [call EXCEPT ![c] = Answered(c, parts)],
              UNCHANGED <<archiveSide, snapshot, stamp, commandSide>>,
              answers' \in Seq(Entry), EntriesOK(answers')
       PROVE  IInv'
  <2> DEFINE q == [NoCall EXCEPT !.at = "answered"]
             r == [q EXCEPT !.parts = parts, !.calm = call[c].calm]
  <2>1. /\ q \in Call /\ q.at = "answered" /\ q.key = Absent /\ q.stat = 0 /\ q.seen = <<>>
    BY NoCallIsCall DEF Call, Places
  <2> HIDE DEF q
  <2>2. /\ r \in Call /\ r.at = "answered" /\ r.key = Absent /\ r.stat = 0 /\ r.seen = <<>>
        /\ r.parts = parts /\ r.calm = call[c].calm
    BY <1>1, <2>1 DEF Call
  <2>3. call' = [call EXCEPT ![c] = r]
    BY <1>13 DEF Answered, q
  <2> HIDE DEF r
  <2>4. ASSUME call[c].calm, NEW i \in 1..Len(parts), Honest
        PROVE  parts[i].rev = index.rev
    <3>0. parts[i] \in Snapshots
      BY LenProperties
    <3>1. parts[i].rev \in Nat
      BY <3>0 DEF Snapshots
    <3>2. call[c].key[2] = index.rev
      BY <1>1, <1>13, <2>4 DEF RequestOK
    <3>3. index.rev <= parts[i].rev /\ parts[i].rev <= index.rev
      BY <1>13, <2>4, <3>2 DEF Parts, AtLeast, Agrees
    <3> QED
      BY <1>1, <3>1, <3>3
  <2>5. RequestOK(r)
    BY <1>1, <1>13, <2>2, <2>4 DEF RequestOK, Fetching, Parts
  <2> QED
    BY <1>13, <2>2, <2>3, <2>5, Apart, OneCallInv DEF Fetching
<1>14. CASE Lookup(c)
  <2>1. /\ call[c].at = "lookup" /\ call[c].key # Absent /\ call[c].key \in Question \X Nat
        /\ UNCHANGED <<archiveSide, snapshot, stamp, held, commandSide>>
    BY <1>1, <1>14 DEF Lookup, RequestOK, Call
  <2>2. CASE At(call[c].key) = {}
    <3>1. call' = [call EXCEPT ![c].at = "stat"] /\ UNCHANGED answers
      BY <1>14, <2>2 DEF Lookup, Moves
    <3>2. RequestOK([call[c] EXCEPT !.at = "stat"])
      BY <1>1, <2>1 DEF RequestOK, Fetching, Call
    <3> QED
      BY <1>5, <2>1, <3>1, <3>2 DEF Places, Fetching
  <2>3. CASE At(call[c].key) # {}
    <3>1. PICK i \in At(call[c].key) :
            /\ answers' = MostRecent(call[c].key, answers[i].parts)
            /\ call' = [call EXCEPT ![c] = Answered(c, answers[i].parts)]
      BY <1>14, <2>3 DEF Lookup
    <3>2. i \in 1..Len(answers) /\ answers[i].key = call[c].key
      BY <3>1 DEF At
    <3>3. answers[i] \in Entry /\ Parts(answers[i].key, answers[i].parts)
      BY <1>1, <3>2, LenProperties DEF EntriesOK
    <3>4. answers[i].parts \in Seq(Snapshots) /\ Parts(call[c].key, answers[i].parts)
      BY <3>2, <3>3 DEF Entry
    <3>5. answers' \in Seq(Entry) /\ EntriesOK(answers')
      BY <1>1, <2>1, <3>1, <3>4, MostRecentIsEntries
    <3> QED
      BY <1>13, <2>1, <3>1, <3>4, <3>5
  <2> QED
    BY <2>2, <2>3
<1>15. CASE PutAnswer(c)
  <2>1. /\ call[c].at = "put" /\ call[c].key # Absent /\ call[c].key \in Question \X Nat
        /\ call[c].parts \in Seq(Snapshots) /\ Parts(call[c].key, call[c].parts)
        /\ UNCHANGED <<archiveSide, snapshot, stamp, held, commandSide>>
    BY <1>1, <1>15 DEF PutAnswer, RequestOK, Call
  <2> DEFINE q == MostRecent(call[c].key, call[c].parts)
  <2>2. q \in Seq(Entry) /\ EntriesOK(q)
    BY <1>1, <2>1, MostRecentIsEntries
  <2>3. answers' = Trimmed(q) /\ call' = [call EXCEPT ![c] = Answered(c, call[c].parts)]
    BY <1>15 DEF PutAnswer
  <2> HIDE DEF q
  <2>4. answers' \in Seq(Entry) /\ EntriesOK(answers')
    BY <2>2, <2>3, TrimmedIsEntries
  <2> QED
    BY <1>13, <2>1, <2>3, <2>4
<1> QED
  BY <1>3, <1>4, <1>6, <1>7, <1>8, <1>9, <1>10, <1>11, <1>12, <1>14, <1>15 DEF ClientStep

-----------------------------------------------------------------------------
(* The command, and a restart of the API. *)
LEMMA CommandStepInv ==
  ASSUME IInv, Rebuild \/ RebuildRace \/ MoveAside \/ MoveIn \/ MoveInFails \/ RebuildDies
  PROVE  IInv'
<1>1. /\ Types /\ CommandOK /\ command \in Command /\ derived \in MaybeSnapshot
      /\ tables \in [1..Races -> Nat] /\ index.rev \in Nat
      /\ UNCHANGED <<archiveSide, engineSide, call>>
  BY DEF IInv, Types, Rebuild, RebuildRace, MoveAside, MoveIn, MoveInFails, RebuildDies, Commands
<1>2. NoCommand \in Command /\ NoCommand.at = "off" /\ NoCommand.aside = Absent /\ NoCommand.seen = <<>>
  BY DEF NoCommand, Command, MaybeSnapshot
<1> DEFINE Fine(m, d) ==
      /\ m \in Command /\ d \in MaybeSnapshot /\ Sound(d) /\ Sound(m.aside)
      /\ m.at # "off" => Agrees(m.rev, m.seen)
      /\ m.at = "read" => Len(m.seen) < Races
      /\ m.at \in {"publish", "move"} => Len(m.seen) = Races
<1>3. ASSUME Fine(command', derived')
      PROVE  IInv'
  <2>1. Types'
    BY <1>1, <1>3 DEF Types, archiveSide, engineSide
  <2>3. EngineOK'
    BY <1>1 DEF IInv, EngineOK, archiveSide, engineSide, EntriesOK, Parts, AtLeast, Agrees, Sound, Honest
  <2>4. RequestsOK'
    <3>1. ASSUME NEW c \in Client PROVE RequestOK(call[c])'
      <4>1. RequestOK(call[c])
        BY DEF IInv, RequestsOK
      <4> QED
        BY <1>1, <4>1 DEF archiveSide, RequestOK, Parts, AtLeast, Agrees, Sound, Honest
    <3>2. ASSUME NEW c \in Client PROVE Stamped(call[c])'
      BY <1>1 DEF IInv, RequestsOK, archiveSide, engineSide, Stamped, AtLeast, Honest
    <3>3. ASSUME NEW c \in Client, NEW d \in Client PROVE Behind(call[c], call[d])'
      BY <1>1 DEF IInv, RequestsOK, archiveSide, Behind, AtLeast, Honest
    <3> QED
      BY <3>1, <3>2, <3>3 DEF RequestsOK
  <2>2. CommandOK'
    BY <1>1, <1>3 DEF CommandOK, Sound, Agrees, Honest, archiveSide
  <2> QED
    BY <2>1, <2>2, <2>3, <2>4 DEF IInv
<1>4. Fine(NoCommand, derived)
  BY <1>1, <1>2 DEF CommandOK, Sound
<1>5. CASE Rebuild
  <2> DEFINE q == [NoCommand EXCEPT !.at = "read"]
             m == [q EXCEPT !.rev = index.rev]
  <2>1. q \in Command /\ q.at = "read" /\ q.aside = Absent /\ q.seen = <<>>
    BY <1>2 DEF Command
  <2> HIDE DEF q
  <2>2. m \in Command /\ m.at = "read" /\ m.aside = Absent /\ m.seen = <<>> /\ m.rev = index.rev
    BY <1>1, <2>1 DEF Command
  <2>3. command' = m /\ derived' = derived
    BY <1>5 DEF Rebuild, Commands, q
  <2> HIDE DEF m
  <2>4. Len(<<>>) < Races /\ Agrees(index.rev, <<>>)
    BY <1>1, AnalyticsAssumption DEF Agrees
  <2> QED
    BY <1>1, <1>3, <2>2, <2>3, <2>4 DEF CommandOK, Sound
<1>6. CASE RebuildRace
  <2> DEFINE old == command.seen
             seen == Append(old, tables[Len(old) + 1])
             to == IF Len(seen) = Races THEN "publish" ELSE "read"
             q == [command EXCEPT !.seen = seen]
             m == [q EXCEPT !.at = to]
  <2>1. command.at = "read" /\ old \in Seq(Nat) /\ Len(old) \in Nat /\ Len(old) < Races
    BY <1>1, <1>6, LenProperties DEF RebuildRace, CommandOK, Command
  <2>2. tables[Len(old) + 1] \in Nat
    BY <1>1, <2>1, AnalyticsAssumption
  <2>3. /\ seen \in Seq(Nat) /\ Len(seen) = Len(old) + 1
        /\ \A i \in 1..Len(old) : seen[i] = old[i]
        /\ seen[Len(old) + 1] = tables[Len(old) + 1]
    BY <2>1, <2>2, AppendProperties
  <2>4. DOMAIN old = 1..Len(old) /\ DOMAIN seen = 1..Len(seen)
    BY <2>1, <2>3, LenProperties
  <2>5. Agrees(command.rev, seen)
    BY <1>1, <2>1, <2>3, <2>4 DEF CommandOK, Agrees
  <2>6. command' = m /\ derived' = derived
    BY <1>6 DEF RebuildRace, Commands
  <2> HIDE DEF seen
  <2>7. \/ to = "publish" /\ Len(seen) = Races
        \/ to = "read" /\ Len(seen) < Races
    <3>1. Len(seen) = Races \/ Len(seen) < Races
      BY <2>1, <2>3, AnalyticsAssumption
    <3>2. Len(seen) < Races => Len(seen) # Races
      BY <2>1, <2>3, AnalyticsAssumption
    <3> QED
      BY <3>1, <3>2
  <2> HIDE DEF to
  <2>8. q \in Command /\ q.rev = command.rev /\ q.seen = seen /\ q.aside = command.aside
    BY <1>1, <2>3 DEF Command
  <2> HIDE DEF q
  <2>9. m \in Command /\ m.at = to /\ m.rev = command.rev /\ m.seen = seen /\ m.aside = command.aside
    BY <2>7, <2>8 DEF Command
  <2> HIDE DEF m
  <2> QED
    BY <1>1, <1>3, <2>5, <2>6, <2>7, <2>9 DEF CommandOK
<1>7. CASE MoveAside
  <2> DEFINE q == [command EXCEPT !.at = "move"]
             m == [q EXCEPT !.aside = derived]
  <2>1. q \in Command /\ q.at = "move" /\ q.rev = command.rev /\ q.seen = command.seen
    BY <1>1 DEF Command
  <2>2. command' = m /\ derived' = Absent /\ command.at = "publish"
    BY <1>7 DEF MoveAside, Commands
  <2> HIDE DEF q
  <2>3. /\ m \in Command /\ m.at = "move" /\ m.rev = command.rev /\ m.seen = command.seen
        /\ m.aside = derived
    BY <1>1, <2>1 DEF Command
  <2> HIDE DEF m
  <2> QED
    BY <1>1, <1>3, <2>2, <2>3 DEF CommandOK, Sound, MaybeSnapshot
<1>8. CASE MoveIn
  <2> DEFINE d == Built(command.rev, command.seen)
  <2>1. command.at \in {"publish", "move"} /\ derived' = d /\ command' = NoCommand
    BY <1>8 DEF MoveIn, Commands
  <2>2. command.seen \in [1..Races -> Nat]
    BY <1>1, <2>1, LenProperties DEF CommandOK, Command
  <2>3. d \in Snapshots /\ d.rev = command.rev /\ d.seen = command.seen
    BY <1>1, <2>2 DEF Built, Snapshots, Command
  <2>4. Agrees(d.rev, d.seen)
    BY <1>1, <2>1, <2>3 DEF CommandOK
  <2> HIDE DEF d
  <2> QED
    BY <1>2, <1>3, <2>1, <2>3, <2>4 DEF Sound, MaybeSnapshot
<1>9. CASE MoveInFails
  BY <1>1, <1>2, <1>3, <1>9 DEF MoveInFails, Commands, CommandOK, Command, Sound
<1>10. CASE RebuildDies
  BY <1>3, <1>4, <1>10 DEF RebuildDies, Commands
<1> QED
  BY <1>5, <1>6, <1>7, <1>8, <1>9, <1>10

(* A restart of the process keeps it. *)
LEMMA RestartInv ==
  ASSUME IInv, RestartAPI
  PROVE  IInv'
<1>1. /\ snapshot' = Absent /\ stamp' = 0 /\ answers' = <<>> /\ UNCHANGED <<archiveSide, commandSide>>
      /\ \A c \in Client : call'[c] = NoCall
      /\ call' = [c \in Client |-> NoCall]
  BY DEF RestartAPI
<1>2. Types'
  BY <1>1, NoCallIsCall DEF IInv, Types, archiveSide, commandSide, MaybeSnapshot
<1>3. EngineOK'
  BY <1>1 DEF EngineOK, EntriesOK, Sound
<1>4. CommandOK'
  BY <1>1 DEF archiveSide, commandSide, IInv, CommandOK, Sound, Agrees, Honest
<1>5. RequestsOK'
  <2>1. ASSUME NEW c \in Client PROVE RequestOK(call[c])'
    BY <1>1, <1>2, NoCallIsCall DEF RequestOK, Fetching, Types
  <2>2. ASSUME NEW c \in Client PROVE Stamped(call[c])'
    BY <1>1 DEF Stamped
  <2>3. ASSUME NEW c \in Client, NEW d \in Client PROVE Behind(call[c], call[d])'
    BY <1>1, NoCallIsCall DEF Behind
  <2> QED
    BY <2>1, <2>2, <2>3 DEF RequestsOK
<1> QED
  BY <1>2, <1>3, <1>4, <1>5 DEF IInv

(* Every step keeps it. *)
LEMMA NextIInv == IInv /\ [AnalyticsNext]_analyticsVars => IInv'
<1> SUFFICES ASSUME IInv, [AnalyticsNext]_analyticsVars PROVE IInv'
  OBVIOUS
<1>1. CASE ArchiveStep
  BY <1>1, ArchiveStepInv
<1>2. CASE \E c \in Client : ClientStep(c)
  BY <1>2, ClientStepInv
<1>3. CASE RestartAPI
  BY <1>3, RestartInv
<1>4. CASE Rebuild \/ RebuildRace \/ MoveAside \/ MoveIn \/ MoveInFails \/ RebuildDies
  BY <1>4, CommandStepInv
<1>5. CASE UNCHANGED analyticsVars
  BY <1>5 DEF analyticsVars, archiveSide, engineSide, commandSide, IInv, Types, EngineOK, CommandOK,
     RequestsOK, RequestOK, Stamped, Behind, EntriesOK, Parts, AtLeast, Agrees, Sound, Honest
<1> QED
  BY <1>1, <1>2, <1>3, <1>4, <1>5 DEF AnalyticsNext, ArchiveStep

(* It holds at the start. *)
LEMMA InitIInv == AnalyticsInit => IInv
<1> SUFFICES ASSUME AnalyticsInit PROVE IInv
  OBVIOUS
<1> USE DEF AnalyticsInit
<1>1. Types
  <2>1. tables \in [1..Races -> Nat] /\ index \in [rev : Nat, no : Nat] /\ stamp \in 0..index.no
    OBVIOUS
  <2>2. answers \in Seq(Entry) /\ call \in [Client -> Call]
    BY NoCallIsCall
  <2>3. command \in Command
    BY DEF NoCommand, Command, MaybeSnapshot
  <2> QED
    BY <2>1, <2>2, <2>3 DEF Types, MaybeSnapshot
<1>2. EngineOK /\ CommandOK
  BY DEF EngineOK, CommandOK, EntriesOK, Sound, NoCommand
<1>3. RequestsOK
  BY <1>1, NoCallOK, NoCallIsCall DEF RequestsOK, Stamped, Behind
<1> QED
  BY <1>1, <1>2, <1>3 DEF IInv

(* A request that nothing overlapped is answered from one snapshot, which   *)
(* is that of the catalog and the tables that are there.                    *)
THEOREM AnswersAreFresh == AnalyticsSpec => []FreshAnswers
<1>1. IInv => FreshAnswers
  <2> SUFFICES ASSUME IInv, NEW c \in Client, call[c].at = "answered", call[c].calm, Honest,
                      NEW i \in DOMAIN call[c].parts
               PROVE  call[c].parts[i] = Built(index.rev, tables)
    BY DEF FreshAnswers, Honest
  <2> DEFINE s == call[c].parts[i]
  <2>1. call[c].parts \in Seq(Snapshots) /\ RequestOK(call[c]) /\ tables \in [1..Races -> Nat]
    BY DEF IInv, Types, Call, RequestsOK
  <2>2. i \in 1..Len(call[c].parts) /\ s \in Snapshots
    BY <2>1, LenProperties
  <2>3. s.rev = index.rev /\ Agrees(s.rev, s.seen) /\ ~ pending
    BY <2>1, <2>2 DEF RequestOK
  <2>4. \A j \in 1..Races : s.seen[j] = tables[j]
    BY <2>2, <2>3 DEF Agrees, Snapshots
  <2> HIDE DEF s
  <2>5. s.seen = tables
    <3> DEFINE f == s.seen
    <3>1. f \in [1..Races -> Nat] /\ \A j \in 1..Races : f[j] = tables[j]
      BY <2>2, <2>4 DEF Snapshots
    <3> HIDE DEF f
    <3>2. f = [j \in 1..Races |-> f[j]] /\ tables = [j \in 1..Races |-> tables[j]]
      BY <2>1, <3>1
    <3>3. f = tables
      BY <3>1, <3>2, Zenon
    <3> QED
      BY <3>3 DEF f
  <2>6. s = Built(index.rev, tables)
    BY <2>2, <2>3, <2>5 DEF Snapshots, Built
  <2> QED
    BY <2>6 DEF s
<1> QED
  BY <1>1, InitIInv, NextIInv, PTL DEF AnalyticsSpec
================================================================================
