----------------------------- MODULE DetailedStore ----------------------------
(***************************************************************************)
(* The detailed telemetry of a session (detailed/storage.py) and the       *)
(* service that answers from it (apps/api/app/services/telemetry_service   *)
(* .py, telemetry/reader.py).                                              *)
(*                                                                         *)
(* A revision is named by the digest of its content and is put in place by *)
(* one rename; active.json then names it.  A caller may name the revision  *)
(* it wants; one that does not is pinned to what is active when it begins, *)
(* and everything it reads, in several reads, is of that revision.  Answers *)
(* are kept in a small cache, the least recently used of them going first. *)
(***************************************************************************)
EXTENDS Naturals, Sequences, SequencesExt

CONSTANTS
    Revision, Publisher, Worker, None,
    Product,        \* what may be asked for: a trace, a comparison, corners...
    CacheLimit,     \* cache_limit (16)
    MaxFaults       \* a bound of the instance

ASSUME StoreAssumption ==
    /\ CacheLimit \in Nat \ {0} /\ MaxFaults \in Nat
    /\ None \notin Revision

VARIABLES
    placed,         \* the revisions in place
    spoiled,        \* those with a file that fails its checksum
    active,         \* what active.json names
    publishing,     \* the running publish() of each publisher
    call,           \* the request each worker is answering
    cache,          \* _cache, the least recently used first
    storeFaults

storeVars == <<placed, spoiled, active, publishing, call, cache, storeFaults>>
storeSide == <<placed, spoiled, active, publishing, storeFaults>>

NotPublishing == [pc |-> "off", revision |-> None]
NoCall == [pc |-> "off", product |-> None, asked |-> None, pinned |-> None, read |-> {}]

StoreInit ==
    /\ placed = {} /\ spoiled = {} /\ active = None
    /\ publishing = [p \in Publisher |-> NotPublishing]
    /\ call = [w \in Worker |-> NoCall]
    /\ cache = <<>>
    /\ storeFaults = 0

Moves(p, from, to) ==
    /\ publishing[p].pc = from
    /\ publishing' = [publishing EXCEPT ![p].pc = to]
    /\ UNCHANGED <<spoiled, call, cache, storeFaults>>

-----------------------------------------------------------------------------
(* publish: the tables are written to a staging directory and read back. *)
Publish(p) ==
    /\ publishing[p].pc = "off"
    /\ \E r \in Revision :
         publishing' = [publishing EXCEPT ![p] = [pc |-> "place", revision |-> r]]
    /\ UNCHANGED <<placed, spoiled, active, call, cache, storeFaults>>

(* A revision that is there, or that another publisher's rename put there *)
(* first, is validated.                                                    *)
Put(p) ==
    /\ IF publishing[p].revision \in placed
       THEN Moves(p, "place", "validate") /\ UNCHANGED placed
       ELSE Moves(p, "place", "point") /\ placed' = placed \cup {publishing[p].revision}
    /\ UNCHANGED active

Validate(p) ==
    /\ Moves(p, "validate", "point")
    /\ publishing[p].revision \notin spoiled
    /\ UNCHANGED <<placed, active>>

PointAt(p) ==
    /\ publishing[p].pc = "point"
    /\ active' = publishing[p].revision
    /\ publishing' = [publishing EXCEPT ![p] = NotPublishing]
    /\ UNCHANGED <<placed, spoiled, call, cache, storeFaults>>

(* A check fails, the disk is full, or the process dies. *)
Abandon(p) ==
    /\ publishing[p].pc # "off"
    /\ IF publishing[p].pc = "validate" /\ publishing[p].revision \in spoiled
       THEN UNCHANGED storeFaults
       ELSE storeFaults < MaxFaults /\ storeFaults' = storeFaults + 1
    /\ publishing' = [publishing EXCEPT ![p] = NotPublishing]
    /\ UNCHANGED <<placed, spoiled, active, call, cache>>

SpoilRevision ==
    /\ storeFaults < MaxFaults
    /\ storeFaults' = storeFaults + 1
    /\ \E r \in placed : spoiled' = spoiled \cup {r}
    /\ UNCHANGED <<placed, active, publishing, call, cache>>

-----------------------------------------------------------------------------
(* A request, for a revision it names or for none in particular. *)
Ask(w) ==
    /\ call[w].pc = "off"
    /\ \E a \in Revision \cup {None}, x \in Product :
         call' = [call EXCEPT ![w] = [NoCall EXCEPT !.pc = "pin", !.asked = a, !.product = x]]
    /\ UNCHANGED <<storeSide, cache>>

\* The revision a read is of: manifest() follows the pointer only if none is given.
Manifest(asked) == IF asked = None THEN active ELSE asked

(* _pin: what is not there is a 404. *)
Pin(w) ==
    LET r == Manifest(call[w].asked)
    IN /\ call[w].pc = "pin"
       /\ call' = [call EXCEPT ![w] = IF r \in placed
                     THEN [call[w] EXCEPT !.pc = "cached", !.pinned = r] ELSE NoCall]
       /\ UNCHANGED <<storeSide, cache>>

Key(w) == <<call[w].product, call[w].pinned>>
Held(key) == {i \in 1..Len(cache) : cache[i].key = key}
Others(key) == IF Held(key) = {} THEN cache ELSE RemoveAt(cache, CHOOSE i \in Held(key) : TRUE)

(* _cached: an answer that is kept becomes the most recently used. *)
Lookup(w) ==
    /\ call[w].pc = "cached"
    /\ \/ /\ \E i \in Held(Key(w)) : cache' = Append(RemoveAt(cache, i), cache[i])
          /\ call' = [call EXCEPT ![w] = NoCall]
       \/ /\ Held(Key(w)) = {}
          /\ call' = [call EXCEPT ![w].pc = "laps"]
          /\ UNCHANGED cache
    /\ UNCHANGED storeSide

MutReads(w, from, to) ==
    /\ call[w].pc = from
    /\ LET r == Manifest(None)
       IN call' = [call EXCEPT ![w] = IF r \in spoiled THEN NoCall
                     ELSE [call[w] EXCEPT !.pc = to, !.read = call[w].read \cup {r}]]
    /\ UNCHANGED <<storeSide, cache>>
(* The laps, the samples of a car and of its position, each a read of its *)
(* own; a file that fails its checksum is an error.                       *)
Reads(w, from, to) ==
    /\ call[w].pc = from
    /\ LET r == Manifest(call[w].pinned)
       IN call' = [call EXCEPT ![w] = IF r \in spoiled THEN NoCall
                     ELSE [call[w] EXCEPT !.pc = to, !.read = call[w].read \cup {r}]]
    /\ UNCHANGED <<storeSide, cache>>
ReadLaps(w) == Reads(w, "laps", "samples")
ReadSamples(w) == Reads(w, "samples", "keep")

\* The last CacheLimit of a sequence.
Newest(s) == SubSeq(s, (IF Len(s) > CacheLimit THEN Len(s) - CacheLimit ELSE 0) + 1, Len(s))

Keep(w) ==
    /\ call[w].pc = "keep"
    /\ cache' = Newest(Append(Others(Key(w)), [key |-> Key(w), read |-> call[w].read]))
    /\ call' = [call EXCEPT ![w] = NoCall]
    /\ UNCHANGED storeSide

-----------------------------------------------------------------------------
PublisherStep(p) == Publish(p) \/ Put(p) \/ Validate(p) \/ PointAt(p) \/ Abandon(p)
WorkerStep(w) == Ask(w) \/ Pin(w) \/ Lookup(w) \/ ReadLaps(w) \/ ReadSamples(w) \/ Keep(w)

StoreNext ==
    \/ \E p \in Publisher : PublisherStep(p)
    \/ \E w \in Worker : WorkerStep(w)
    \/ SpoilRevision

(* An answer labelled with a revision was computed from that revision only,    *)
(* whatever was published between its reads, and whichever call computed it    *)
(* ("A consumer can pin a revision across requests", storage.py).  Both the    *)
(* answers kept and the ones being computed are meant.                         *)
PinnedAnswers ==
    /\ \A i \in DOMAIN cache : cache[i].read = {cache[i].key[2]}
    /\ \A w \in Worker : call[w].read \subseteq {call[w].pinned}
=============================================================================
