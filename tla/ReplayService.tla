---------------------------- MODULE ReplayService -----------------------------
(***************************************************************************)
(* The API's replay service (apps/api/app/services/replay_service.py) over *)
(* a repository that is being ingested into.                               *)
(*                                                                         *)
(* An engine is built from two separate reads of the repository, the       *)
(* session and its events, each of which follows the active pointer.  The  *)
(* service therefore reads the pointer before and after, and starts again  *)
(* if it moved.  Engines are kept by session and dataset.                  *)
(***************************************************************************)
EXTENDS Repository

CONSTANTS Thread      \* the API's worker threads

VARIABLES
    engines,     \* _engines: the dataset that is the key, and what was loaded
    req          \* a request: the name, its session and key, what it has read,
                 \* and "moves": 0 while the session leads to the key's dataset, 1
                 \* once it leads elsewhere, 2 when it has moved again since

serviceVars == <<engines, req>>

NoRequest == [pc |-> "idle", name |-> None, session |-> None, key |-> None,
              laps |-> None, events |-> None, moves |-> 0]

ServiceInit ==
    /\ engines = {}
    /\ req = [t \in Thread |-> NoRequest]

Answer(t) == req' = [req EXCEPT ![t] = NoRequest]

Asks(n) == [NoRequest EXCEPT !.pc = "resolve", !.name = n]

Ask(t) ==
    /\ req[t].pc = "idle"
    /\ \E n \in Name : req' = [req EXCEPT ![t] = Asks(n)]
    /\ UNCHANGED engines

(* active_dataset_identity: a session that has no pointer is an error. *)
Resolve(t) ==
    LET s == ResolveSessionId(req[t].name)
    IN /\ req[t].pc = "resolve"
       /\ IF s \in Session /\ pointer[s] # None
          THEN req' = [req EXCEPT ![t].pc = "identity", ![t].session = s]
          ELSE Answer(t)
       /\ UNCHANGED engines

ActiveIdentity(t) ==
    LET d == pointer[req[t].session]
    IN /\ req[t].pc = "identity"
       /\ req' = [req EXCEPT ![t].pc = "cached", ![t].key = d,
                     ![t].moves = IF ActiveDataset(req[t].session) = d THEN 0 ELSE 1]
       /\ UNCHANGED engines

Kept(d) == \E e \in engines : e.key = d

Cached(t) ==
    /\ req[t].pc = "cached"
    /\ IF Kept(req[t].key) THEN Answer(t) ELSE req' = [req EXCEPT ![t].pc = "session"]
    /\ UNCHANGED engines

(* A dataset that cannot be verified is an error. *)
LoadSession(t) ==
    LET d == ActiveDataset(req[t].session)
    IN /\ req[t].pc = "session"
       /\ IF Readable(d) THEN req' = [req EXCEPT ![t].pc = "events", ![t].laps = d]
                         ELSE Answer(t)
       /\ UNCHANGED engines

LoadEvents(t) ==
    LET d == ActiveDataset(req[t].session)
    IN /\ req[t].pc = "events"
       /\ IF Readable(d) THEN req' = [req EXCEPT ![t].pc = "again", ![t].events = d]
                         ELSE Answer(t)
       /\ UNCHANGED engines

MutIdentityAgain(t) ==
    /\ req[t].pc = "again"
    /\ req' = [req EXCEPT ![t].pc = "store"]
    /\ UNCHANGED engines
IdentityAgain(t) ==
    /\ req[t].pc = "again"
    /\ req' = [req EXCEPT ![t] = IF ActiveDataset(req[t].session) = req[t].key
                                 THEN [req[t] EXCEPT !.pc = "store"] ELSE Asks(req[t].name)]
    /\ UNCHANGED engines

(* Another thread may have stored one; otherwise the session's others go. *)
Store(t) ==
    LET r == req[t]
        engine == [key |-> r.key, laps |-> r.laps, events |-> r.events, moves |-> r.moves]
    IN /\ r.pc = "store"
       /\ engines' = IF Kept(r.key) THEN engines
                     ELSE {e \in engines : SessionOf(e.key) # SessionOf(r.key)} \cup {engine}
       /\ Answer(t)

ServiceStep(t) ==
    \/ Ask(t) \/ Resolve(t) \/ ActiveIdentity(t) \/ Cached(t)
    \/ LoadSession(t) \/ LoadEvents(t) \/ IdentityAgain(t) \/ Store(t)

\* The requests under way take note of a session that moves (not in the code).
Note ==
    LET moved == {s \in Session : ActiveDataset(s)' # ActiveDataset(s)}
    IN req' = [t \in Thread |->
                 IF req[t].key # None /\ req[t].session \in moved /\ req[t].moves < 2
                 THEN [req[t] EXCEPT !.moves = @ + 1] ELSE req[t]]

Init == RepoInit /\ ServiceInit

Next ==
    \/ \E t \in Thread : ServiceStep(t) /\ UNCHANGED repoVars
    \/ RepoNext /\ Note /\ UNCHANGED engines

Spec == Init /\ [][Next]_<<repoVars, serviceVars>>

-----------------------------------------------------------------------------
(* An engine served for a dataset was built from that dataset, session and    *)
(* events alike, although each was read through a pointer that ingests move:   *)
(* reading the pointer again afterwards catches every mixture but one, where   *)
(* it left and came back meanwhile.                                            *)
EngineIsItsDataset ==
    \A e \in engines : (e.laps = e.key /\ e.events = e.key) \/ e.moves = 2
=============================================================================
