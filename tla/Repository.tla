------------------------------ MODULE Repository ------------------------------
(***************************************************************************)
(* Ingesting a session from its provider into the canonical repository     *)
(* (ingestion.py, storage/raw.py, storage/repository.py).                  *)
(*                                                                         *)
(* Nothing here takes a lock.  What a provider said is kept as a snapshot  *)
(* whose name is a digest of it, what was made of a snapshot as a dataset  *)
(* whose name is a digest of that, each moved into place by one rename.    *)
(* Then the session's pointer is replaced, and then the alias by which the *)
(* session was asked for.  Two of these may run side by side, and each may *)
(* die anywhere.                                                           *)
(***************************************************************************)
EXTENDS Naturals, FiniteSets

CONSTANTS
    Session,     \* canonical names of sessions
    Name,        \* the names they are asked for by, the canonical ones included
    Content,     \* what the provider may say
    Canon,       \* the session that a content is of, by its metadata
    Ingest,      \* the commands that may run
    None,
    MaxIngests, MaxTrouble        \* bounds of the instance

\* The requested name and the retrieval time are part of what is stored, and
\* so of the digests, except that a snapshot's name leaves its time out.
Snapshot == [name : Name, content : Content]
Dataset == [name : Name, content : Content, at : 1..MaxIngests]

ASSUME RepositoryAssumption ==
    /\ Session \subseteq Name
    /\ Canon \in [Content -> Session]
    /\ None \notin Name \cup Ingest \cup Dataset
    /\ MaxIngests \in Nat /\ MaxTrouble \in Nat

VARIABLES
    raw,         \* when the content of each snapshot was first retrieved
    datasets,    \* the datasets in place
    spoiled,     \* the snapshots and datasets whose checksums fail
    pointer,     \* active.json of each session
    alias,       \* the alias of each name
    ing,         \* the running commands
    ingests, trouble

repoVars == <<raw, datasets, spoiled, pointer, alias, ing, ingests, trouble>>

SessionOf(d) == Canon[d.content]

Doing(pc, name, content, at) == [pc |-> pc, name |-> name, content |-> content, at |-> at]
NoIngest == Doing("off", None, None, 0)

RepoInit ==
    /\ raw = [n \in Snapshot |-> 0]
    /\ datasets = {} /\ spoiled = {}
    /\ pointer = [s \in Session |-> None]
    /\ alias = [n \in Name |-> None]
    /\ ing = [p \in Ingest |-> NoIngest]
    /\ ingests = 0 /\ trouble = 0

SnapshotOf(p) == [name |-> ing[p].name, content |-> ing[p].content]
DatasetOf(p) == [name |-> ing[p].name, content |-> ing[p].content, at |-> ing[p].at]

Goes(p, from, to) ==
    /\ ing[p].pc = from
    /\ ing' = [ing EXCEPT ![p].pc = to]
    /\ UNCHANGED <<spoiled, ingests>>

Ends(p) == ing' = [ing EXCEPT ![p] = NoIngest]

-----------------------------------------------------------------------------
(* Reading.  A name without an alias stands for itself. *)
ResolveSessionId(n) == IF alias[n] = None THEN n ELSE alias[n]

ActiveDataset(n) ==
    LET s == ResolveSessionId(n) IN IF s \in Session THEN pointer[s] ELSE None

Readable(d) == d \in datasets /\ d \notin spoiled

-----------------------------------------------------------------------------
Begin(p) ==
    /\ ing[p].pc = "off"
    /\ ingests < MaxIngests
    /\ ingests' = ingests + 1
    /\ \E n \in Name, pc \in {"check", "fetch"} :     \* "fetch": --force
         ing' = [ing EXCEPT ![p] = Doing(pc, n, None, 0)]
    /\ UNCHANGED <<raw, datasets, spoiled, pointer, alias, trouble>>

(* Without --force a session that can be read is not fetched again; one that *)
(* cannot be verified is an error.                                           *)
CheckCache(p) ==
    /\ ing[p].pc = "check"
    /\ IF ActiveDataset(ing[p].name) = None
       THEN ing' = [ing EXCEPT ![p].pc = "fetch"]
       ELSE Ends(p)
    /\ UNCHANGED <<raw, datasets, spoiled, pointer, alias, ingests, trouble>>

LoadFromProvider(p) ==
    /\ ing[p].pc = "fetch"
    /\ \E c \in Content :
         ing' = [ing EXCEPT ![p] = Doing("snapshot", ing[p].name, c, ingests)]
    /\ UNCHANGED <<raw, datasets, spoiled, pointer, alias, ingests, trouble>>

(* Who finds the snapshot in place, or loses the race to rename, uses it. *)
CommitRawSnapshot(p) ==
    /\ Goes(p, "snapshot", "load")
    /\ raw' = IF raw[SnapshotOf(p)] = 0 THEN [raw EXCEPT ![SnapshotOf(p)] = ing[p].at] ELSE raw
    /\ UNCHANGED <<datasets, pointer, alias, trouble>>

(* The session goes on as it is stored, with the time of the first retrieval. *)
MutLoadRawSnapshot(p) ==
    /\ Goes(p, "load", "dataset")
    /\ SnapshotOf(p) \notin spoiled
    /\ UNCHANGED <<raw, datasets, pointer, alias, trouble>>
LoadRawSnapshot(p) ==
    /\ ing[p].pc = "load"
    /\ SnapshotOf(p) \notin spoiled
    /\ ing' = [ing EXCEPT ![p] =
                  Doing("dataset", ing[p].name, ing[p].content, raw[SnapshotOf(p)])]
    /\ UNCHANGED <<raw, datasets, spoiled, pointer, alias, ingests, trouble>>

(* Normalized and written out; again the first one stays. *)
CommitDataset(p) ==
    /\ Goes(p, "dataset", "verify")
    /\ datasets' = datasets \cup {DatasetOf(p)}
    /\ UNCHANGED <<raw, pointer, alias, trouble>>

MutVerifyManifest(p) ==
    /\ Goes(p, "verify", "alias")
    /\ UNCHANGED <<raw, datasets, pointer, alias, trouble>>
VerifyManifest(p) ==
    /\ Goes(p, "verify", "point")
    /\ Readable(DatasetOf(p))
    /\ UNCHANGED <<raw, datasets, pointer, alias, trouble>>

PointAt(p) ==
    /\ Goes(p, "point", "alias")
    /\ pointer' = [pointer EXCEPT ![SessionOf(ing[p])] = DatasetOf(p)]
    /\ UNCHANGED <<raw, datasets, alias, trouble>>

WriteAlias(p) ==
    /\ ing[p].pc = "alias"
    /\ alias' = [alias EXCEPT ![ing[p].name] = SessionOf(ing[p])]
    /\ Ends(p)
    /\ UNCHANGED <<raw, datasets, spoiled, pointer, ingests, trouble>>

(* A check fails. *)
Refuse(p) ==
    /\ \/ ing[p].pc = "load" /\ SnapshotOf(p) \in spoiled
       \/ ing[p].pc = "verify" /\ ~ Readable(DatasetOf(p))
    /\ Ends(p)
    /\ UNCHANGED <<raw, datasets, spoiled, pointer, alias, ingests, trouble>>

(* An exception, or a crash: a staging directory that is left is never read. *)
Die(p) ==
    /\ ing[p].pc # "off"
    /\ trouble < MaxTrouble
    /\ trouble' = trouble + 1
    /\ Ends(p)
    /\ UNCHANGED <<raw, datasets, spoiled, pointer, alias, ingests>>

Spoil ==
    /\ trouble < MaxTrouble
    /\ trouble' = trouble + 1
    /\ \E x \in {n \in Snapshot : raw[n] # 0} \cup datasets : spoiled' = spoiled \cup {x}
    /\ UNCHANGED <<raw, datasets, pointer, alias, ing, ingests>>

IngestStep(p) ==
    \/ Begin(p) \/ CheckCache(p) \/ LoadFromProvider(p)
    \/ CommitRawSnapshot(p) \/ LoadRawSnapshot(p)
    \/ CommitDataset(p) \/ VerifyManifest(p) \/ PointAt(p) \/ WriteAlias(p)
    \/ Refuse(p) \/ Die(p)

RepoNext == (\E p \in Ingest : IngestStep(p)) \/ Spoil

-----------------------------------------------------------------------------
(* Fetching the same content again, at another time, by another process or    *)
(* after a crash, makes no second dataset of it: everything downstream of a   *)
(* snapshot is computed from the snapshot as stored, never from what this      *)
(* command received (ingestion.py passes raw.session on).                      *)
OneDatasetPerSnapshot ==
    \A d, e \in datasets : d.name = e.name /\ d.content = e.content => d = e

(* Whatever was interrupted, an alias leads to a session with a pointer, a     *)
(* pointer to a dataset of that session, and a dataset to the snapshot it was  *)
(* made of: what can be named can be traced to what the provider said.         *)
PointersBacked ==
    /\ \A n \in Name : alias[n] # None => pointer[alias[n]] # None
    /\ \A s \in Session :
         pointer[s] # None => pointer[s] \in datasets /\ SessionOf(pointer[s]) = s
    /\ \A d \in datasets : raw[[name |-> d.name, content |-> d.content]] = d.at
=============================================================================
