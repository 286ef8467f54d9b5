-------------------------- MODULE ArchiveSyncProofs ---------------------------
(***************************************************************************)
(* Proofs about the historical archive and its synchronization             *)
(* (ArchiveSync), for any number of sessions, processes, readers, deaths,  *)
(* faults and damages: readers without a lock are not disturbed, a repair  *)
(* of one session keeps the others, and a run that ends complete tells the *)
(* truth.                                                                  *)
(***************************************************************************)
EXTENDS ArchiveSync, FiniteSetTheorems, TLAPS

(* Types. *)
Condition == {"whole", "tables", "manifest"}
Partial(S, T) == UNION {[D -> T] : D \in SUBSET S}
Said == [is : Status, source : Nat]
Entries == Partial(Session, Event)
Catalogs == [built : BOOLEAN, events : Entries]
Run ==
    [target : Session \cup {None}, range : SUBSET Session, upcoming : BOOLEAN, rebuild : BOOLEAN,
     src : Partial(Session, Said), detailed : SUBSET Session, base : Catalogs, next : Nat \ {0},
     events : Entries, failed : SUBSET Session, since : Nat]
WriteCall == [on : Session \cup {None}, rev : Revision \cup {None}, aside : Condition \cup {None}]
Place == {"off", "waiting", "fetching", "dump", "schedule", "select", "races", "lock session",
      "publish",
          "move in", "point", "read back", "failed", "report", "final", "unlock", "rebuild"}
ReadCall == [at : {"idle", "pointer", "manifest", "table", "unreadable"}, on : Session \cup {None},
      pointer : Revision \cup {None}]

ArchiveType ==
    /\ revisions \in [Session -> SUBSET [rev : Revision, is : Condition]]
    /\ active \in [Session -> Revision \cup {None, Garbled}]
    /\ slock \in [Session -> Process \cup {None}]
    /\ pc \in [Process -> Place]
    /\ write \in [Process -> WriteCall]
    /\ reader \in [Reader -> ReadCall]
    /\ \A r \in Reader : reader[r].at \in {"pointer", "manifest", "table"} => reader[r].on # None
    /\ damages \in Nat
    /\ truth \in [Session -> Status] /\ dump \in [no : Nat, says : [Session -> Status]]
    /\ detailed \subseteq Session
    /\ run \in [Process -> Run]
    /\ catalog \in Catalogs

(* Who is past the lock has it, so that nobody else is. *)
AtWork(p) == pc[p] \notin {"off", "waiting"}
SlotInv == \A p \in Process : AtWork(p) => slotted = p

(* Where the loop over the races stands. *)
Writing == {"lock session", "publish", "move in", "point", "read back", "failed"}
InLoop == {"races"} \cup Writing

(* The race that is written is the one the loop has come to. *)
WriteInv(p) ==
    pc[p] \in Writing =>
        /\ More(p) /\ Here(p) \in DOMAIN run[p].src /\ run[p].src[Here(p)].is = "raced"
        /\ write[p].on = Here(p) /\ write[p].rev # None
        /\ write[p].rev.source = run[p].src[Here(p)].source
        /\ write[p].aside # None => pc[p] = "move in"

(* Before the loop nothing has been done; a rebuild goes its own way. *)
FreshInv(p) ==
    /\ pc[p] \in {"fetching", "dump", "schedule", "select"} =>
        run[p].rebuild = FALSE /\ run[p].next = 1 /\ DOMAIN run[p].events = {}
    /\ pc[p] = "rebuild" => run[p].rebuild = TRUE

(* A repair has the catalog it read, and nothing to say but of its race. *)
LoopInv(p) ==
    pc[p] \in InLoop =>
        /\ run[p].rebuild = FALSE
        /\ DOMAIN run[p].events \subseteq DOMAIN run[p].src
        /\ run[p].target # None => run[p].base = catalog /\ DOMAIN run[p].src = {run[p].target}

(* What was written of a race is there, and whole while nothing went bad. *)
Intact(s, v, since) ==
    /\ active[s] \in {v, Garbled}
    /\ damages = since => active[s] = v /\ Valid(s, v)
Stands(r, s) ==
    /\ s \in DOMAIN r.events /\ r.events[s].rev \in Revision
    /\ r.events[s].rev.source = r.src[s].source
    /\ Intact(s, r.events[s].rev, r.since)
Behind(r) == {Order[i] : i \in 1 .. r.next - 1}
Done(r) == \A s \in Behind(r) : s \in DOMAIN r.src /\ r.src[s].is = "raced" /\ s \notin r.failed =>
      Stands(r, s)

PointInv(p) ==
    /\ pc[p] = "point" /\ damages = run[p].since => Valid(write[p].on, write[p].rev)
    /\ pc[p] = "read back" => Intact(write[p].on, write[p].rev, run[p].since)

DoneInv(p) == pc[p] \in InLoop \cup {"report", "final"} /\ ~ run[p].rebuild => Done(run[p])
SavedInv(p) ==
    /\ pc[p] = "final" => run[p].rebuild = FALSE
    /\ pc[p] \in {"report", "final"} /\ ~ run[p].rebuild =>
        /\ ~ More(p)
        /\ \A s \in DOMAIN run[p].events : s \in DOMAIN catalog.events
              /\ catalog.events[s] = run[p].events[s]

ProcessInv(p) ==
    AtWork(p) =>
        /\ run[p].since <= damages
        /\ FreshInv(p) /\ WriteInv(p) /\ LoopInv(p) /\ PointInv(p) /\ DoneInv(p) /\ SavedInv(p)

(* As long as nothing went bad, nothing that was pointed at goes. *)
Backed(events) == \A s \in DOMAIN events : events[s].rev # None => active[s] # None
Good(s) ==
    /\ \A r \in revisions[s] : r.is = "whole"
    /\ active[s] # None => active[s] \in There(s)
GoodWork(p) ==
    AtWork(p) =>
        /\ Backed(run[p].events) /\ pc[p] # "move in"
        /\ pc[p] = "point" => write[p].rev \in There(write[p].on)
GoodRead(r) ==
    /\ reader[r].at # "unreadable"
    /\ reader[r].at = "pointer" => active[reader[r].on] # None
    /\ reader[r].at \in {"manifest", "table"} => reader[r].pointer \in There(reader[r].on)
UndamagedInv ==
    damages = 0 =>
        /\ Backed(catalog.events) /\ \A s \in Session : Good(s)
        /\ \A p \in Process : GoodWork(p)
        /\ \A r \in Reader : GoodRead(r)

ArchiveInv == ArchiveType /\ SlotInv /\ (\A p \in Process : ProcessInv(p)) /\ UndamagedInv

(* What the writing of a session leaves alone. *)
StoreStays(p) == UNCHANGED <<world, slotted, run, files, runs, crashes>>

(* The markers are not confused with what they stand beside. *)
LEMMA NotNone ==
  /\ \A x \in Session \cup Process \cup Revision \cup Condition : x # None
  /\ \A x \in Revision \cup {None} : x # Garbled
  BY ArchiveAssumption DEF Condition

(* The order lists every session once. *)
LEMMA OrderProperties ==
  /\ Len(Order) \in Nat /\ Order \in [1..Len(Order) -> Session]
  /\ \A s \in Session : \E i \in 1..Len(Order) : Order[i] = s
  /\ \A i, j \in 1..Len(Order) : Order[i] = Order[j] => i = j
<1>1. Cardinality(Session) \in Nat
  BY ArchiveAssumption, FS_CardinalityType
<1>2. Order \in Seq(Session) /\ Len(Order) = Cardinality(Session)
  BY <1>1, ArchiveAssumption
<1> QED
  BY <1>1, <1>2, ArchiveAssumption

(* Functions on part of a set. *)
LEMMA PartialProperties ==
  ASSUME NEW S, NEW T, NEW f
  PROVE  f \in Partial(S, T) <=> DOMAIN f \subseteq S /\ f \in [DOMAIN f -> T]
  BY DEF Partial

LEMMA NothingIsPartial ==
  ASSUME NEW S, NEW T
  PROVE  [s \in {} |-> None] \in Partial(S, T)
<1>1. [s \in {} |-> None] \in [{} -> T]
  OBVIOUS
<1> QED
  BY <1>1 DEF Partial

LEMMA NoRunTyped == NoRun \in Run /\ NoCatalog \in Catalogs
<1>1. [s \in {} |-> None] \in Entries /\ [s \in {} |-> None] \in Partial(Session, Said)
  BY NothingIsPartial DEF Entries
<1>2. NoCatalog \in Catalogs
  BY <1>1 DEF NoCatalog, Catalogs
<1> QED
  BY <1>1, <1>2 DEF NoRun, Run

(* What the operators return. *)
LEMMA EntryTyped ==
  ASSUME NEW r \in Run, NEW s \in Session, NEW event \in Event
  PROVE  /\ With(r, s, event) \in Run
         /\ \A q \in DOMAIN r.events : q # s => With(r, s, event).events[q] = r.events[q]
         /\ DOMAIN With(r, s, event).events = DOMAIN r.events \cup {s}
         /\ With(r, s, event).events[s] = event
         /\ With(r, s, event) = [r EXCEPT !.events = With(r, s, event).events]
<1> DEFINE g == [x \in DOMAIN r.events \cup {s} |-> IF x = s THEN event ELSE r.events[x]]
<1>1. DOMAIN r.events \subseteq Session /\ r.events \in [DOMAIN r.events -> Event]
  BY PartialProperties DEF Run, Entries
<1>2. g \in [DOMAIN g -> Event] /\ DOMAIN g = DOMAIN r.events \cup {s}
  BY <1>1
<1>3. g \in Entries
  BY <1>1, <1>2, PartialProperties DEF Entries
<1>4. With(r, s, event) = [r EXCEPT !.events = g]
  BY DEF With
<1>5. g[s] = event /\ \A q \in DOMAIN r.events : q # s => g[q] = r.events[q]
  OBVIOUS
<1> HIDE DEF g
<1>6. With(r, s, event).events = g /\ With(r, s, event) \in Run
  BY <1>3, <1>4 DEF Run
<1> QED
  BY <1>2, <1>4, <1>5, <1>6

LEMMA PassedDoes ==
  ASSUME run \in [Process -> Run], NEW p \in Process, NEW r \in Run, Passed(p, r)
  PROVE  /\ run' \in [Process -> Run]
         /\ \A q \in Process : q # p => run'[q] = run[q]
         /\ run'[p] = [r EXCEPT !.next = r.next + 1]
         /\ run'[p].next = r.next + 1
         /\ run'[p].src = r.src /\ run'[p].events = r.events /\ run'[p].failed = r.failed
         /\ run'[p].target = r.target /\ run'[p].base = r.base /\ run'[p].rebuild = r.rebuild
         /\ run'[p].since = r.since
         /\ UNCHANGED <<catalog, slotted>>
<1>1. run' = [run EXCEPT ![p] = [r EXCEPT !.next = r.next + 1]] /\ UNCHANGED <<catalog, slotted>>
  BY DEF Passed
<1>2. [r EXCEPT !.next = r.next + 1] \in Run
  BY DEF Run
<1> QED
  BY <1>1, <1>2 DEF Run

LEMMA PutDoes ==
  ASSUME revisions \in [Session -> SUBSET [rev : Revision, is : Condition]],
         NEW s \in Session, NEW v \in Revision, NEW is \in Condition, Put(s, v, is)
  PROVE  /\ revisions' \in [Session -> SUBSET [rev : Revision, is : Condition]]
         /\ v \in There(s)' /\ There(s) \subseteq There(s)'
         /\ \A t \in Session : t # s => revisions'[t] = revisions[t]
         /\ \A r \in revisions'[s] : r \in revisions[s] \/ r.is = is
         /\ is = "whole" => Valid(s, v)'
<1>1. revisions' = [revisions EXCEPT ![s] = Without(s, v) \cup {[rev |-> v, is |-> is]}]
  BY DEF Put
<1>2. revisions'[s] = Without(s, v) \cup {[rev |-> v, is |-> is]}
  BY <1>1
<1>3. \A r \in revisions'[s] : r.rev = v => r = [rev |-> v, is |-> is]
  BY <1>2 DEF Without
<1>4. revisions' \in [Session -> SUBSET [rev : Revision, is : Condition]]
  BY <1>1 DEF Without
<1>5. [rev |-> v, is |-> is] \in revisions'[s] /\ v \in There(s)'
  BY <1>2 DEF There
<1>6. There(s) \subseteq There(s)'
  <2> SUFFICES ASSUME NEW r \in revisions[s] PROVE \E x \in revisions'[s] : x.rev = r.rev
    BY DEF There
  <2>1. CASE r.rev = v
    BY <1>5, <2>1
  <2>2. CASE r.rev # v
    BY <1>2, <2>2 DEF Without
  <2> QED
    BY <2>1, <2>2
<1>7. StateOf(s, v)' = is
  BY <1>3, <1>5 DEF StateOf
<1> QED
  BY <1>1, <1>2, <1>4, <1>5, <1>6, <1>7 DEF Without, Valid


LEMMA ActiveStateTyped ==
  ASSUME revisions \in [Session -> SUBSET [rev : Revision, is : Condition]],
         NEW s \in Session, NEW v, v \in There(s)
  PROVE  StateOf(s, v) \in Condition
<1>1. PICK x \in revisions[s] : x.rev = v
  BY DEF There
<1>2. (CHOOSE r \in revisions[s] : r.rev = v) \in revisions[s]
  BY <1>1
<1> QED
  BY <1>2 DEF StateOf

LEMMA HereIsASession ==
  ASSUME ArchiveType, NEW p \in Process, More(p)
  PROVE  Here(p) \in Session /\ run[p].next \in 1..Len(Order) /\ run[p] \in Run
  BY OrderProperties DEF ArchiveType, Run, Here, More

LEMMA SaidTyped ==
  ASSUME NEW r \in Run, NEW s \in DOMAIN r.src
  PROVE  s \in Session /\ r.src[s] \in Said
  BY PartialProperties DEF Run

LEMMA FetchedTyped ==
  ASSUME ArchiveType, NEW p \in Process
  PROVE  /\ FetchDump(p) => run' \in [Process -> Run]
         /\ FetchSchedule(p) => run' \in [Process -> Run]
<1>1. run \in [Process -> Run] /\ run[p] \in Run
  BY DEF ArchiveType
<1>2. dump.no \in Nat /\ dump.says \in [Session -> Status] /\ truth \in [Session -> Status]
  BY DEF ArchiveType
<1>3. ASSUME FetchDump(p) PROVE run' \in [Process -> Run]
  <2>1. run[p].range \subseteq Session
    BY <1>1 DEF Run
  <2> DEFINE D == {x \in run[p].range : dump.says[x] # "unknown"}
             g == [s \in D |-> IF dump.says[s] = "raced" THEN Raced(dump.no) ELSE Fetched(dump.says[s])]
  <2>2. \A s \in D : Raced(dump.no) \in Said /\ Fetched(dump.says[s]) \in Said
    BY <1>2, <2>1 DEF Raced, Fetched, Said, Status
  <2>3. g \in [D -> Said] /\ D \subseteq Session
    BY <2>1, <2>2
  <2>4. run' = [run EXCEPT ![p].src = g]
    BY <1>3 DEF FetchDump, DumpRaces
  <2>5. g \in Partial(Session, Said)
    BY <2>3, PartialProperties
  <2> HIDE DEF g
  <2>6. [run[p] EXCEPT !.src = g] \in Run
    BY <1>1, <2>5 DEF Run
  <2> QED
    BY <1>1, <2>4, <2>6
<1>4. ASSUME FetchSchedule(p) PROVE run' \in [Process -> Run]
  <2> DEFINE src == run[p].src
             listed == SeasonSchedule \cap run[p].range
             said(s) == IF s \in DOMAIN src THEN src[s] ELSE CurrentScheduleRace(s)
             D == DOMAIN src \cup listed
             g == [s \in D |-> IF s \in listed THEN Patched(s, said(s)) ELSE src[s]]
  <2>1. DOMAIN src \subseteq Session /\ src \in [DOMAIN src -> Said]
    BY <1>1, PartialProperties DEF Run
  <2>2. listed \subseteq Session
    BY ArchiveAssumption DEF SeasonSchedule
  <2>3. \A s \in listed : said(s) \in Said
    BY <2>1 DEF CurrentScheduleRace, Fetched, Said, Status
  <2>4. \A s \in listed : Patched(s, said(s)) \in Said
    BY <2>3 DEF Patched, Raced, Said, Status
  <2>5. g \in [D -> Said] /\ D \subseteq Session
    BY <2>1, <2>2, <2>4
  <2>6. run' = [run EXCEPT ![p].src = g]
    BY <1>4 DEF FetchSchedule
  <2>7. g \in Partial(Session, Said)
    BY <2>5, PartialProperties
  <2> HIDE DEF g
  <2>8. [run[p] EXCEPT !.src = g] \in Run
    BY <1>1, <2>7 DEF Run
  <2> QED
    BY <1>1, <2>6, <2>8
<1> QED
  BY <1>3, <1>4

LEMMA MergedTyped ==
  ASSUME NEW r \in Run
  PROVE  Merged(r) \in Entries
<1>1. /\ DOMAIN r.events \subseteq Session /\ r.events \in [DOMAIN r.events -> Event]
      /\ DOMAIN r.base.events \subseteq Session /\ r.base.events \in [DOMAIN r.base.events -> Event]
  BY PartialProperties DEF Run, Entries, Catalogs
<1>2. CASE r.target = None
  BY <1>2 DEF Merged, Run
<1>3. CASE r.target # None
  <2> DEFINE D == (DOMAIN r.base.events \ {r.target}) \cup DOMAIN r.events
             g == [s \in D |-> IF s \in DOMAIN r.events THEN r.events[s] ELSE r.base.events[s]]
  <2>1. g \in [D -> Event] /\ D \subseteq Session
    BY <1>1
  <2>2. Merged(r) = g
    BY <1>3 DEF Merged
  <2> HIDE DEF g
  <2> QED
    BY <2>1, <2>2, PartialProperties DEF Entries
<1> QED
  BY <1>2, <1>3

LEMMA RebuiltTyped ==
  ASSUME ArchiveType, \A s \in Active : active[s] # Garbled
  PROVE  Rebuilt \in Entries
<1>1. DOMAIN catalog.events \subseteq Session /\ catalog.events \in [DOMAIN catalog.events -> Event]
  BY PartialProperties DEF ArchiveType, Entries, Catalogs
<1>2. \A s \in Active : s \in Session /\ active[s] \in Revision
  BY DEF ArchiveType, Active
<1>3. \A s \in Active : Published(active[s]) \in Event
  BY <1>2 DEF Published, Event
<1> DEFINE D == Active \cup {x \in DOMAIN catalog.events : catalog.events[x].status # "completed"}
           g == [s \in D |-> IF s \in Active THEN Published(active[s]) ELSE catalog.events[s]]
<1>4. g \in [D -> Event] /\ D \subseteq Session
  BY <1>1, <1>2, <1>3
<1>5. Rebuilt = g
  BY DEF Rebuilt
<1> HIDE DEF g
<1> QED
  BY <1>4, <1>5, PartialProperties DEF Entries

(* Where a process goes, it goes alone. *)
LEMMA GoesDoes ==
  ASSUME NEW S, pc \in [Process -> S], NEW p \in Process, NEW from, NEW to, Goes(p, from, to)
  PROVE  /\ pc[p] = from /\ pc'[p] = to /\ \A q \in Process \ {p} : pc'[q] = pc[q]
         /\ to \in S => pc' \in [Process -> S]
         /\ revisions' = revisions /\ active' = active /\ slock' = slock /\ reader' = reader
         /\ damages' = damages /\ truth' = truth /\ dump' = dump /\ detailed' = detailed
  BY DEF Goes, storeRest, store, world

LEMMA WriteGoesDoes ==
  ASSUME NEW S, pc \in [Process -> S], NEW p \in Process, NEW from, NEW to, WriteGoes(p, from, to)
  PROVE  /\ pc[p] = from /\ pc'[p] = to /\ \A q \in Process \ {p} : pc'[q] = pc[q]
         /\ to \in S => pc' \in [Process -> S]
         /\ reader' = reader /\ damages' = damages
  BY DEF WriteGoes

(* From where to where each step leads its process. *)
LEMMA Places ==
  ASSUME NEW S, pc \in [Process -> S], NEW p \in Process
  PROVE  /\ Start(p) => pc[p] = "off" /\ pc'[p] = "waiting"
         /\ Take(p) => pc[p] = "waiting" /\ pc'[p] \in {"fetching", "rebuild"}
         /\ GiveUp(p) => pc[p] = "waiting" /\ pc'[p] = "off"
         /\ WriteFetching(p) => pc[p] = "fetching" /\ pc'[p] = "dump"
         /\ FetchDump(p) => pc[p] = "dump" /\ pc'[p] = "schedule"
         /\ FetchSchedule(p) => pc[p] = "schedule" /\ pc'[p] = "select"
         /\ Select(p) => pc[p] = "select" /\ pc'[p] = "races"
         /\ Refuse(p) => pc[p] = "select" /\ pc'[p] = "off"
         /\ PassOver(p) => pc[p] = "races" /\ pc'[p] = "races"
         /\ ListUnraced(p) => pc[p] = "races" /\ pc'[p] = "races"
         /\ BeginWrite(p) => pc[p] = "races" /\ pc'[p] = "lock session"
         /\ LockSession(p) => pc[p] = "lock session" /\ pc'[p] = "publish"
         /\ Publish(p) => pc[p] = "publish" /\ pc'[p] = "point"
         /\ MoveAside(p) => pc[p] = "publish" /\ pc'[p] = "move in"
         /\ MoveIn(p) => pc[p] = "move in" /\ pc'[p] = "point"
         /\ Point(p) => pc[p] = "point" /\ pc'[p] = "read back"
         /\ WriteFails(p) => pc[p] \in {"lock session", "publish", "move in", "point"}
               /\ pc'[p] = "failed"
         /\ ReadBack(p) => pc[p] = "read back" /\ pc'[p] = "races"
         /\ FailRace(p) => pc[p] \in {"failed", "read back"} /\ pc'[p] = "races"
         /\ SaveCatalog(p) => pc[p] = "races" /\ pc'[p] = "report"
         /\ SaveReport(p) => pc[p] = "report" /\ pc'[p] = IF run[p].rebuild THEN "unlock" ELSE "final"
         /\ Final(p) => pc[p] = "final" /\ pc'[p] = "unlock"
         /\ Unlock(p) => pc[p] = "unlock" /\ pc'[p] = "off"
         /\ Rebuild(p) => pc[p] = "rebuild" /\ pc'[p] = "report"
         /\ RebuildRefused(p) => pc[p] = "rebuild" /\ pc'[p] = "off"
         /\ Abort(p) => pc'[p] = "off" /\ pc[p] \in {"fetching", "dump", "schedule", "select",
               "races", "report", "final", "rebuild"}
         /\ Crash(p) => pc[p] # "off" /\ pc'[p] = "off"
<1>1. Start(p) => pc[p] = "off" /\ pc'[p] = "waiting"
  BY DEF Start
<1>2. Take(p) => pc[p] = "waiting" /\ pc'[p] \in {"fetching", "rebuild"}
  BY DEF Take, Begin
<1>3. GiveUp(p) => pc[p] = "waiting" /\ pc'[p] = "off"
  BY GoesDoes DEF GiveUp
<1>4. WriteFetching(p) => pc[p] = "fetching" /\ pc'[p] = "dump"
  BY GoesDoes DEF WriteFetching
<1>5. FetchDump(p) => pc[p] = "dump" /\ pc'[p] = "schedule"
  BY GoesDoes DEF FetchDump
<1>6. FetchSchedule(p) => pc[p] = "schedule" /\ pc'[p] = "select"
  BY GoesDoes DEF FetchSchedule
<1>7. Select(p) => pc[p] = "select" /\ pc'[p] = "races"
  BY GoesDoes DEF Select
<1>8. Refuse(p) => pc[p] = "select" /\ pc'[p] = "off"
  BY GoesDoes DEF Refuse
<1>9. PassOver(p) => pc[p] = "races" /\ pc'[p] = "races"
  BY GoesDoes DEF PassOver
<1>10. ListUnraced(p) => pc[p] = "races" /\ pc'[p] = "races"
  BY GoesDoes DEF ListUnraced
<1>11. BeginWrite(p) => pc[p] = "races" /\ pc'[p] = "lock session"
  BY GoesDoes DEF BeginWrite
<1>12. LockSession(p) => pc[p] = "lock session" /\ pc'[p] = "publish"
  BY WriteGoesDoes DEF LockSession
<1>13. Publish(p) => pc[p] = "publish" /\ pc'[p] = "point"
  BY WriteGoesDoes DEF Publish
<1>14. MoveAside(p) => pc[p] = "publish" /\ pc'[p] = "move in"
  BY WriteGoesDoes DEF MoveAside
<1>15. MoveIn(p) => pc[p] = "move in" /\ pc'[p] = "point"
  BY WriteGoesDoes DEF MoveIn
<1>16. Point(p) => pc[p] = "point" /\ pc'[p] = "read back"
  BY WriteGoesDoes DEF Point
<1>17. WriteFails(p) => pc[p] \in {"lock session", "publish", "move in", "point"} /\ pc'[p] = "failed"
  BY DEF WriteFails
<1>18. ReadBack(p) => pc[p] = "read back" /\ pc'[p] = "races"
  BY GoesDoes DEF ReadBack
<1>19. FailRace(p) => pc[p] \in {"failed", "read back"} /\ pc'[p] = "races"
  BY GoesDoes DEF FailRace
<1>20. SaveCatalog(p) => pc[p] = "races" /\ pc'[p] = "report"
  BY GoesDoes DEF SaveCatalog
<1>21. SaveReport(p) => pc[p] = "report" /\ pc'[p] = IF run[p].rebuild THEN "unlock" ELSE "final"
  BY GoesDoes DEF SaveReport
<1>22. Final(p) => pc[p] = "final" /\ pc'[p] = "unlock"
  BY GoesDoes DEF Final
<1>23. Unlock(p) => pc[p] = "unlock" /\ pc'[p] = "off"
  BY GoesDoes DEF Unlock
<1>24. Rebuild(p) => pc[p] = "rebuild" /\ pc'[p] = "report"
  BY GoesDoes DEF Rebuild
<1>25. RebuildRefused(p) => pc[p] = "rebuild" /\ pc'[p] = "off"
  BY GoesDoes DEF RebuildRefused
<1>26. Abort(p) => pc'[p] = "off" /\ pc[p] \in {"fetching", "dump", "schedule", "select", "races",
      "report", "final", "rebuild"}
  BY GoesDoes DEF Abort
<1>27. Crash(p) => pc[p] # "off" /\ pc'[p] = "off"
  BY DEF Crash
<1> QED
  BY <1>1, <1>2, <1>3, <1>4, <1>5, <1>6, <1>7, <1>8, <1>9, <1>10, <1>11, <1>12, <1>13, <1>14,
     <1>15, <1>16, <1>17, <1>18, <1>19, <1>20, <1>21, <1>22, <1>23, <1>24, <1>25, <1>26, <1>27

LEMMA PlacesMove ==
  ASSUME NEW p \in Process, pc \in [Process -> Place], Work(p)
  PROVE  pc' \in [Process -> Place] /\ \A q \in Process \ {p} : pc'[q] = pc[q]
<1>1. ASSUME Start(p) \/ Crash(p)
      PROVE  pc' \in [Process -> Place] /\ \A q \in Process \ {p} : pc'[q] = pc[q]
  BY <1>1 DEF Start, Crash, Place
<1>2. ASSUME Take(p)
      PROVE  pc' \in [Process -> Place] /\ \A q \in Process \ {p} : pc'[q] = pc[q]
  BY <1>2 DEF Take, Begin, Place
<1>3. ASSUME GiveUp(p) \/ WriteFetching(p) \/ FetchDump(p) \/ FetchSchedule(p)
      PROVE  pc' \in [Process -> Place] /\ \A q \in Process \ {p} : pc'[q] = pc[q]
  BY <1>3, Places, GoesDoes DEF GiveUp, WriteFetching, FetchDump, FetchSchedule, Place
<1>4. ASSUME Select(p) \/ Refuse(p) \/ PassOver(p) \/ ListUnraced(p)
      PROVE  pc' \in [Process -> Place] /\ \A q \in Process \ {p} : pc'[q] = pc[q]
  BY <1>4, Places, GoesDoes DEF Select, Refuse, PassOver, ListUnraced, Place
<1>5. ASSUME BeginWrite(p) \/ ReadBack(p) \/ FailRace(p) \/ SaveCatalog(p)
      PROVE  pc' \in [Process -> Place] /\ \A q \in Process \ {p} : pc'[q] = pc[q]
  BY <1>5, Places, GoesDoes DEF BeginWrite, ReadBack, FailRace, SaveCatalog, Place
<1>6. ASSUME LockSession(p) \/ Publish(p) \/ MoveAside(p) \/ MoveIn(p), StoreStays(p)
      PROVE  pc' \in [Process -> Place] /\ \A q \in Process \ {p} : pc'[q] = pc[q]
  BY <1>6, Places, WriteGoesDoes DEF LockSession, Publish, MoveAside, MoveIn, StoreStays, Place
<1>7. ASSUME Point(p), StoreStays(p)
      PROVE  pc' \in [Process -> Place] /\ \A q \in Process \ {p} : pc'[q] = pc[q]
  BY <1>7, Places, WriteGoesDoes DEF Point, StoreStays, Place
<1>8. ASSUME WriteFails(p), StoreStays(p)
      PROVE  pc' \in [Process -> Place] /\ \A q \in Process \ {p} : pc'[q] = pc[q]
  BY <1>8 DEF WriteFails, StoreStays, Place
<1>9. ASSUME SaveReport(p) \/ Final(p) \/ Unlock(p) \/ Rebuild(p)
      PROVE  pc' \in [Process -> Place] /\ \A q \in Process \ {p} : pc'[q] = pc[q]
  BY <1>9, Places, GoesDoes DEF SaveReport, Final, Unlock, Rebuild, Place
<1>10. ASSUME RebuildRefused(p) \/ Abort(p)
      PROVE  pc' \in [Process -> Place] /\ \A q \in Process \ {p} : pc'[q] = pc[q]
  BY <1>10, Places, GoesDoes DEF RebuildRefused, Abort, Place
<1> QED
  BY <1>1, <1>2, <1>3, <1>4, <1>5, <1>6, <1>7, <1>8, <1>9, <1>10 DEF Work, StoreSteps, StoreStays

LEMMA OtherRunsStay ==
  ASSUME NEW p \in Process, NEW S, run \in [Process -> S], Work(p)
  PROVE  \A q \in Process \ {p} : run'[q] = run[q]
<1>1. ASSUME Start(p) \/ GiveUp(p) \/ WriteFetching(p) \/ FetchDump(p)
      PROVE  \A q \in Process \ {p} : run'[q] = run[q]
  BY <1>1 DEF Start, GiveUp, WriteFetching, FetchDump, Passed
<1>2. ASSUME Take(p)
      PROVE  \A q \in Process \ {p} : run'[q] = run[q]
  BY <1>2 DEF Take, Begin
<1>3. ASSUME FetchSchedule(p) \/ Select(p) \/ Refuse(p) \/ PassOver(p)
      PROVE  \A q \in Process \ {p} : run'[q] = run[q]
  BY <1>3 DEF FetchSchedule, Select, Refuse, PassOver, Passed
<1>4. ASSUME ListUnraced(p) \/ BeginWrite(p) \/ ReadBack(p) \/ FailRace(p)
      PROVE  \A q \in Process \ {p} : run'[q] = run[q]
  BY <1>4 DEF ListUnraced, BeginWrite, ReadBack, FailRace, Passed
<1>5. ASSUME LockSession(p) \/ Publish(p) \/ MoveAside(p) \/ MoveIn(p), StoreStays(p)
      PROVE  \A q \in Process \ {p} : run'[q] = run[q]
  BY <1>5 DEF LockSession, Publish, MoveAside, MoveIn, StoreStays, Passed
<1>6. ASSUME Point(p) \/ WriteFails(p), StoreStays(p)
      PROVE  \A q \in Process \ {p} : run'[q] = run[q]
  BY <1>6 DEF Point, WriteFails, StoreStays, Passed
<1>7. ASSUME SaveCatalog(p) \/ SaveReport(p) \/ Final(p) \/ Unlock(p)
      PROVE  \A q \in Process \ {p} : run'[q] = run[q]
  BY <1>7 DEF SaveCatalog, SaveReport, Final, Unlock, Passed
<1>8. ASSUME Rebuild(p) \/ RebuildRefused(p) \/ Abort(p) \/ Crash(p)
      PROVE  \A q \in Process \ {p} : run'[q] = run[q]
  BY <1>8 DEF Rebuild, RebuildRefused, Abort, Crash, Passed
<1> QED
  BY <1>1, <1>2, <1>3, <1>4, <1>5, <1>6, <1>7, <1>8 DEF Work, StoreSteps, StoreStays

LEMMA OtherCallsStay ==
  ASSUME NEW p \in Process, NEW S, write \in [Process -> S], Work(p)
  PROVE  \A q \in Process \ {p} : write'[q] = write[q]
<1>1. ASSUME Start(p) \/ Take(p) \/ GiveUp(p) \/ WriteFetching(p)
      PROVE  \A q \in Process \ {p} : write'[q] = write[q]
  BY <1>1 DEF Start, Take, GiveUp, WriteFetching
<1>2. ASSUME FetchDump(p) \/ FetchSchedule(p) \/ Select(p) \/ Refuse(p)
      PROVE  \A q \in Process \ {p} : write'[q] = write[q]
  BY <1>2 DEF FetchDump, FetchSchedule, Select, Refuse
<1>3. ASSUME PassOver(p) \/ ListUnraced(p) \/ BeginWrite(p) \/ ReadBack(p)
      PROVE  \A q \in Process \ {p} : write'[q] = write[q]
  BY <1>3 DEF PassOver, ListUnraced, BeginWrite, ReadBack
<1>4. ASSUME LockSession(p) \/ Publish(p) \/ MoveAside(p) \/ MoveIn(p), StoreStays(p)
      PROVE  \A q \in Process \ {p} : write'[q] = write[q]
  BY <1>4 DEF LockSession, Publish, MoveAside, MoveIn, StoreStays
<1>5. ASSUME Point(p) \/ WriteFails(p), StoreStays(p)
      PROVE  \A q \in Process \ {p} : write'[q] = write[q]
  BY <1>5 DEF Point, WriteFails, StoreStays
<1>6. ASSUME FailRace(p) \/ SaveCatalog(p) \/ SaveReport(p) \/ Final(p)
      PROVE  \A q \in Process \ {p} : write'[q] = write[q]
  BY <1>6 DEF FailRace, SaveCatalog, SaveReport, Final
<1>7. ASSUME Unlock(p) \/ Rebuild(p) \/ RebuildRefused(p) \/ Abort(p)
      PROVE  \A q \in Process \ {p} : write'[q] = write[q]
  BY <1>7 DEF Unlock, Rebuild, RebuildRefused, Abort
<1>8. ASSUME Crash(p)
      PROVE  \A q \in Process \ {p} : write'[q] = write[q]
  BY <1>8 DEF Crash
<1> QED
  BY <1>1, <1>2, <1>3, <1>4, <1>5, <1>6, <1>7, <1>8 DEF Work, StoreSteps, StoreStays


(* A process that writes is at work on the race the loop has come to. *)
LEMMA AtRace ==
  ASSUME ArchiveInv, NEW p \in Process, pc[p] \in Writing
  PROVE  /\ AtWork(p) /\ slotted = p /\ ProcessInv(p)
         /\ run[p] \in Run /\ More(p) /\ Here(p) \in Session
         /\ Here(p) \in DOMAIN run[p].src /\ run[p].src[Here(p)] \in Said
         /\ write[p].on = Here(p) /\ write[p].rev \in Revision
         /\ write[p].rev.source = run[p].src[Here(p)].source
         /\ write[p].aside \in Condition \cup {None}
         /\ write[p].aside # None => pc[p] = "move in"
<1>1. AtWork(p)
  BY DEF AtWork, Writing
<1>2. ProcessInv(p) /\ slotted = p
  BY <1>1 DEF ArchiveInv, SlotInv
<1>3. WriteInv(p)
  BY <1>1, <1>2 DEF ProcessInv
<1>4. run[p] \in Run /\ write[p] \in WriteCall
  BY DEF ArchiveInv, ArchiveType
<1>5. More(p) /\ Here(p) \in DOMAIN run[p].src
  BY <1>3 DEF WriteInv
<1>6. Here(p) \in Session /\ run[p].src[Here(p)] \in Said
  BY <1>4, <1>5, HereIsASession, SaidTyped DEF ArchiveInv
<1> QED
  BY <1>1, <1>2, <1>3, <1>4, <1>5, <1>6 DEF WriteInv, WriteCall

(* Types are kept: the runs, the writes, the archive, the rest. *)
LEMMA RunTyped ==
  ASSUME NEW p \in Process, ArchiveInv, ArchiveType, run \in [Process -> Run], Work(p)
  PROVE  run' \in [Process -> Run]
<1> USE NoRunTyped
<1>1. ASSUME Start(p)
      PROVE  run' \in [Process -> Run]
  BY <1>1 DEF Start
<1>2. ASSUME Take(p)
      PROVE  run' \in [Process -> Run]
  <2>1. damages \in Nat
    BY DEF ArchiveType
  <2>2. CASE run' = [run EXCEPT ![p] = [NoRun EXCEPT !.rebuild = TRUE]]
    <3>1. [NoRun EXCEPT !.rebuild = TRUE] \in Run
      BY NoRunTyped DEF Run
    <3> QED
      BY <2>2, <3>1
  <2>3. ASSUME NEW c \in Command,
               run' = [run EXCEPT ![p] = [NoRun EXCEPT !.target = c.target, !.range = c.range,
                                                       !.upcoming = c.upcoming, !.since = damages]]
        PROVE  run' \in [Process -> Run]
    <3>1. c \in [range : SUBSET Session, target : Session \cup {None}, upcoming : BOOLEAN]
      BY ArchiveAssumption
    <3>2. [NoRun EXCEPT !.target = c.target, !.range = c.range, !.upcoming = c.upcoming,
          !.since = damages] \in Run
      BY <2>1, <3>1, NoRunTyped DEF Run
    <3> QED
      BY <2>3, <3>2
  <2> QED
    BY <1>2, <2>2, <2>3 DEF Take, Begin
<1>3. ASSUME GiveUp(p) \/ WriteFetching(p) \/ Refuse(p) \/ BeginWrite(p)
      PROVE  run' \in [Process -> Run]
  BY <1>3 DEF GiveUp, WriteFetching, Refuse, BeginWrite
<1>4. ASSUME FetchDump(p) \/ FetchSchedule(p)
      PROVE  run' \in [Process -> Run]
  BY <1>4, FetchedTyped
<1>5. ASSUME Select(p)
      PROVE  run' \in [Process -> Run]
  <2>1. run[p] \in Run /\ catalog \in Catalogs /\ detailed \subseteq Session
    BY DEF ArchiveType
  <2> DEFINE t == run[p].target
             base == IF t = None THEN NoCatalog ELSE catalog
             src == IF t = None THEN run[p].src ELSE [s \in {t} |-> run[p].src[t]]
  <2>2. base \in Catalogs
    BY <2>1, NoRunTyped
  <2>3. src \in Partial(Session, Said)
    <3>1. CASE t = None
      BY <2>1, <3>1 DEF Run
    <3>2. CASE t # None
      <4>1. t \in DOMAIN run[p].src
        BY <1>5, <3>2 DEF Select
      <4>2. t \in Session /\ run[p].src[t] \in Said
        BY <2>1, <4>1, SaidTyped
      <4>3. src \in [{t} -> Said] /\ {t} \subseteq Session
        BY <3>2, <4>2
      <4> QED
        BY <4>3 DEF Partial
    <3> QED
      BY <3>1, <3>2
  <2>4. run' = [run EXCEPT ![p].detailed = detailed, ![p].base = base, ![p].src = src]
    BY <1>5 DEF Select, DetailedSessions
  <2> HIDE DEF base, src
  <2>5. [run[p] EXCEPT !.detailed = detailed, !.base = base, !.src = src] \in Run
    BY <2>1, <2>2, <2>3 DEF Run
  <2>6. run' = [run EXCEPT ![p] = [run[p] EXCEPT !.detailed = detailed, !.base = base, !.src = src]]
    BY <2>4
  <2> QED
    BY <2>5, <2>6
<1>6. ASSUME PassOver(p)
      PROVE  run' \in [Process -> Run]
  BY <1>6, PassedDoes, HereIsASession DEF PassOver
<1>7. ASSUME ListUnraced(p)
      PROVE  run' \in [Process -> Run]
  <2>1. Here(p) \in Session /\ run[p] \in Run
    BY <1>7, HereIsASession DEF ListUnraced
  <2>2. Shown("cancelled", "skipped") \in Event /\ Shown("upcoming", "discovered") \in Event
    BY DEF Shown, Event
  <2>3. PICK event \in Event : Passed(p, With(run[p], Here(p), event))
    BY <1>7, <2>2 DEF ListUnraced
  <2> QED
    BY <2>1, <2>3, EntryTyped, PassedDoes
<1>8. ASSUME LockSession(p) \/ Publish(p) \/ MoveAside(p) \/ MoveIn(p), StoreStays(p)
      PROVE  run' \in [Process -> Run]
  BY <1>8 DEF LockSession, Publish, MoveAside, MoveIn, StoreStays
<1>9. ASSUME Point(p) \/ WriteFails(p), StoreStays(p)
      PROVE  run' \in [Process -> Run]
  BY <1>9 DEF Point, WriteFails, StoreStays
<1>10. ASSUME ReadBack(p)
      PROVE  run' \in [Process -> Run]
  <2>1. Here(p) \in Session /\ run[p] \in Run /\ write[p].on = Here(p)
    BY <1>10, Places, AtRace DEF ArchiveType, Writing
  <2>2. active[Here(p)] \in Revision
    BY <1>10, <2>1 DEF ReadBack, ArchiveType
  <2>3. Published(active[Here(p)]) \in Event
    BY <2>2 DEF Published, Event
  <2>4. Passed(p, With(run[p], Here(p), Published(active[Here(p)])))
    BY <1>10, <2>1 DEF ReadBack
  <2> QED
    BY <2>1, <2>3, <2>4, EntryTyped, PassedDoes
<1>11. ASSUME FailRace(p)
      PROVE  run' \in [Process -> Run]
  <2>1. Here(p) \in Session /\ run[p] \in Run /\ write[p].on = Here(p)
    BY <1>11, Places, AtRace DEF ArchiveType, Writing
  <2>2. Shown("completed", "failed") \in Event
    BY DEF Shown, Event
  <2>3. With(run[p], Here(p), Shown("completed", "failed")) \in Run
    BY <2>1, <2>2, EntryTyped
  <2>4. PICK r : r = With(run[p], Here(p), Shown("completed", "failed"))
    OBVIOUS
  <2>5. [r EXCEPT !.failed = r.failed \cup {Here(p)}] \in Run
    BY <2>1, <2>3, <2>4 DEF Run
  <2>6. Passed(p, [r EXCEPT !.failed = r.failed \cup {Here(p)}])
    BY <1>11, <2>1, <2>4 DEF FailRace
  <2> QED
    BY <2>5, <2>6, PassedDoes
<1>12. ASSUME SaveCatalog(p) \/ SaveReport(p) \/ Final(p) \/ Unlock(p)
      PROVE  run' \in [Process -> Run]
  BY <1>12 DEF SaveCatalog, SaveReport, Final, Unlock
<1>13. ASSUME Rebuild(p) \/ RebuildRefused(p) \/ Abort(p) \/ Crash(p)
      PROVE  run' \in [Process -> Run]
  BY <1>13 DEF Rebuild, RebuildRefused, Abort, Crash
<1> QED
  BY <1>1, <1>2, <1>3, <1>4, <1>5, <1>6, <1>7, <1>8, <1>9, <1>10, <1>11, <1>12, <1>13 DEF Work,
     StoreSteps, StoreStays


LEMMA RevisionMade ==
  ASSUME NEW n \in Nat, NEW x, NEW X
  PROVE  [source |-> n, detailed |-> x \in X] \in Revision
<1>1. CASE x \in X
  <2>1. (x \in X) = TRUE
    BY <1>1
  <2> QED
    BY <2>1 DEF Revision
<1>2. CASE x \notin X
  <2>1. (x \in X) = FALSE
    BY <1>2
  <2> QED
    BY <2>1 DEF Revision
<1> QED
  BY <1>1, <1>2

LEMMA CallsTyped ==
  ASSUME NEW p \in Process, ArchiveInv, ArchiveType, write \in [Process -> WriteCall], Work(p)
  PROVE  write' \in [Process -> WriteCall]
<1>1. ASSUME Start(p) \/ Take(p) \/ GiveUp(p) \/ WriteFetching(p)
      PROVE  write' \in [Process -> WriteCall]
  BY <1>1 DEF Start, Take, GiveUp, WriteFetching
<1>2. ASSUME FetchDump(p) \/ FetchSchedule(p) \/ Select(p) \/ Refuse(p)
      PROVE  write' \in [Process -> WriteCall]
  BY <1>2 DEF FetchDump, FetchSchedule, Select, Refuse
<1>3. ASSUME PassOver(p) \/ ListUnraced(p) \/ SaveCatalog(p) \/ SaveReport(p)
      PROVE  write' \in [Process -> WriteCall]
  BY <1>3 DEF PassOver, ListUnraced, SaveCatalog, SaveReport
<1>4. ASSUME BeginWrite(p)
      PROVE  write' \in [Process -> WriteCall]
  <2>1. Here(p) \in Session /\ run[p] \in Run /\ Here(p) \in DOMAIN run[p].src
    BY <1>4, HereIsASession DEF BeginWrite
  <2>2. run[p].src[Here(p)].source \in Nat
    BY <2>1, SaidTyped DEF Said
  <2>3. PICK v : v = [source |-> run[p].src[Here(p)].source, detailed |-> Here(p) \in run[p].detailed]
    OBVIOUS
  <2>4. v \in Revision
    BY <2>2, <2>3, RevisionMade
  <2>5. [on |-> Here(p), aside |-> None, rev |-> v] \in WriteCall
    BY <2>1, <2>4 DEF WriteCall
  <2>6. write' = [write EXCEPT ![p] = [on |-> Here(p), aside |-> None, rev |-> v]]
    BY <1>4, <2>3 DEF BeginWrite
  <2> QED
    BY <2>5, <2>6
<1>5. ASSUME LockSession(p) \/ Publish(p) \/ Point(p), StoreStays(p)
      PROVE  write' \in [Process -> WriteCall]
  BY <1>5 DEF LockSession, Publish, Point, StoreStays
<1>6. ASSUME MoveAside(p), StoreStays(p)
      PROVE  write' \in [Process -> WriteCall]
  <2>1. write[p].on \in Session /\ write[p] \in WriteCall
    BY <1>6, Places, AtRace DEF ArchiveType, Writing
  <2>2. StateOf(write[p].on, write[p].rev) \in Condition
    BY <1>6, <2>1, ActiveStateTyped DEF MoveAside, ArchiveType
  <2> QED
    BY <1>6, <2>1, <2>2 DEF MoveAside, WriteCall
<1>7. ASSUME MoveIn(p), StoreStays(p)
      PROVE  write' \in [Process -> WriteCall]
  BY <1>7 DEF MoveIn, WriteCall
<1>8. ASSUME WriteFails(p), StoreStays(p)
      PROVE  write' \in [Process -> WriteCall]
  BY <1>8 DEF WriteFails, WriteCall
<1>9. ASSUME ReadBack(p)
      PROVE  write' \in [Process -> WriteCall]
  BY <1>9 DEF ReadBack, NoWrite, WriteCall
<1>10. ASSUME FailRace(p)
      PROVE  write' \in [Process -> WriteCall]
  BY <1>10 DEF FailRace, NoWrite, WriteCall
<1>11. ASSUME Final(p) \/ Unlock(p) \/ Rebuild(p) \/ RebuildRefused(p)
      PROVE  write' \in [Process -> WriteCall]
  BY <1>11 DEF Final, Unlock, Rebuild, RebuildRefused
<1>12. ASSUME Abort(p)
      PROVE  write' \in [Process -> WriteCall]
  BY <1>12 DEF Abort
<1>13. ASSUME Crash(p)
      PROVE  write' \in [Process -> WriteCall]
  BY <1>13 DEF Crash, NoWrite, WriteCall
<1> QED
  BY <1>1, <1>2, <1>3, <1>4, <1>5, <1>6, <1>7, <1>8, <1>9, <1>10, <1>11, <1>12, <1>13 DEF Work,
     StoreSteps, StoreStays

LEMMA RevisionsTyped ==
  ASSUME NEW p \in Process, revisions \in [Session -> SUBSET [rev : Revision, is : Condition]],
         pc \in [Process -> Place], ArchiveInv, Work(p)
  PROVE  revisions' \in [Session -> SUBSET [rev : Revision, is : Condition]]
<1>1. ASSUME Start(p) \/ Take(p) \/ Crash(p)
      PROVE  revisions' \in [Session -> SUBSET [rev : Revision, is : Condition]]
  BY <1>1 DEF Start, Take, Crash, storeRest, store
<1>2. ASSUME GiveUp(p) \/ WriteFetching(p) \/ FetchDump(p) \/ FetchSchedule(p)
      PROVE  revisions' \in [Session -> SUBSET [rev : Revision, is : Condition]]
  BY <1>2, GoesDoes DEF GiveUp, WriteFetching, FetchDump, FetchSchedule
<1>3. ASSUME Select(p) \/ Refuse(p) \/ PassOver(p) \/ ListUnraced(p)
      PROVE  revisions' \in [Session -> SUBSET [rev : Revision, is : Condition]]
  BY <1>3, GoesDoes DEF Select, Refuse, PassOver, ListUnraced
<1>4. ASSUME BeginWrite(p) \/ ReadBack(p) \/ FailRace(p) \/ SaveCatalog(p)
      PROVE  revisions' \in [Session -> SUBSET [rev : Revision, is : Condition]]
  BY <1>4, GoesDoes DEF BeginWrite, ReadBack, FailRace, SaveCatalog
<1>5. ASSUME LockSession(p), StoreStays(p)
      PROVE  revisions' \in [Session -> SUBSET [rev : Revision, is : Condition]]
  BY <1>5 DEF LockSession, StoreStays, store
<1>6. ASSUME Publish(p) \/ MoveIn(p), StoreStays(p)
      PROVE  revisions' \in [Session -> SUBSET [rev : Revision, is : Condition]]
  <2>1. write[p].on \in Session /\ write[p].rev \in Revision /\ "whole" \in Condition
    BY <1>6, Places, AtRace DEF ArchiveType, Writing, Condition
  <2>2. Put(write[p].on, write[p].rev, "whole") =>
        revisions' \in [Session -> SUBSET [rev : Revision, is : Condition]]
    BY <2>1, PutDoes
  <2> QED
    BY <1>6, <2>2 DEF Publish, MoveIn, StoreStays
<1>7. ASSUME MoveAside(p), StoreStays(p)
      PROVE  revisions' \in [Session -> SUBSET [rev : Revision, is : Condition]]
  BY <1>7 DEF MoveAside, Without
<1>8. ASSUME Point(p), StoreStays(p)
      PROVE  revisions' \in [Session -> SUBSET [rev : Revision, is : Condition]]
  BY <1>8 DEF Point, StoreStays
<1>9. ASSUME WriteFails(p), StoreStays(p)
      PROVE  revisions' \in [Session -> SUBSET [rev : Revision, is : Condition]]
  <2>1. /\ write[p].on \in Session /\ write[p].rev \in Revision
        /\ write[p].aside \in Condition \cup {None}
    BY <1>9, AtRace DEF WriteFails, ArchiveType, Writing
  <2>2. write[p].aside # None /\ Put(write[p].on, write[p].rev, write[p].aside) =>
        revisions' \in [Session -> SUBSET [rev : Revision, is : Condition]]
    BY <2>1, PutDoes
  <2> QED
    BY <1>9, <2>2 DEF WriteFails
<1>10. ASSUME SaveReport(p) \/ Final(p) \/ Unlock(p) \/ Rebuild(p)
      PROVE  revisions' \in [Session -> SUBSET [rev : Revision, is : Condition]]
  BY <1>10, GoesDoes DEF SaveReport, Final, Unlock, Rebuild
<1>11. ASSUME RebuildRefused(p) \/ Abort(p)
      PROVE  revisions' \in [Session -> SUBSET [rev : Revision, is : Condition]]
  BY <1>11, GoesDoes DEF RebuildRefused, Abort
<1> QED
  BY <1>1, <1>2, <1>3, <1>4, <1>5, <1>6, <1>7, <1>8, <1>9, <1>10, <1>11 DEF Work, StoreSteps, StoreStays

LEMMA PointersTyped ==
  ASSUME NEW p \in Process, active \in [Session -> Revision \cup {None, Garbled}],
         pc \in [Process -> Place], ArchiveInv, Work(p)
  PROVE  active' \in [Session -> Revision \cup {None, Garbled}] /\ reader' = reader
         /\ damages' = damages
<1>1. ASSUME Start(p) \/ Take(p) \/ Crash(p)
      PROVE  active' \in [Session -> Revision \cup {None, Garbled}] /\ reader' = reader
             /\ damages' = damages
  BY <1>1 DEF Start, Take, Crash, storeRest, store
<1>2. ASSUME GiveUp(p) \/ WriteFetching(p) \/ FetchDump(p) \/ FetchSchedule(p)
      PROVE  active' \in [Session -> Revision \cup {None, Garbled}] /\ reader' = reader
             /\ damages' = damages
  BY <1>2, GoesDoes DEF GiveUp, WriteFetching, FetchDump, FetchSchedule
<1>3. ASSUME Select(p) \/ Refuse(p) \/ PassOver(p) \/ ListUnraced(p)
      PROVE  active' \in [Session -> Revision \cup {None, Garbled}] /\ reader' = reader
             /\ damages' = damages
  BY <1>3, GoesDoes DEF Select, Refuse, PassOver, ListUnraced
<1>4. ASSUME BeginWrite(p) \/ ReadBack(p) \/ FailRace(p) \/ SaveCatalog(p)
      PROVE  active' \in [Session -> Revision \cup {None, Garbled}] /\ reader' = reader
             /\ damages' = damages
  BY <1>4, GoesDoes DEF BeginWrite, ReadBack, FailRace, SaveCatalog
<1>5. ASSUME LockSession(p) \/ Publish(p) \/ MoveAside(p) \/ MoveIn(p), StoreStays(p)
      PROVE  active' \in [Session -> Revision \cup {None, Garbled}] /\ reader' = reader
             /\ damages' = damages
  BY <1>5, WriteGoesDoes DEF LockSession, Publish, MoveAside, MoveIn, StoreStays, store
<1>6. ASSUME Point(p), StoreStays(p)
      PROVE  active' \in [Session -> Revision \cup {None, Garbled}] /\ reader' = reader
             /\ damages' = damages
  <2>1. write[p].on \in Session /\ write[p].rev \in Revision
    BY <1>6, Places, AtRace DEF ArchiveType, Writing
  <2> QED
    BY <1>6, <2>1, WriteGoesDoes DEF Point
<1>7. ASSUME WriteFails(p), StoreStays(p)
      PROVE  active' \in [Session -> Revision \cup {None, Garbled}] /\ reader' = reader
             /\ damages' = damages
  BY <1>7 DEF WriteFails, StoreStays
<1>8. ASSUME SaveReport(p) \/ Final(p) \/ Unlock(p) \/ Rebuild(p)
      PROVE  active' \in [Session -> Revision \cup {None, Garbled}] /\ reader' = reader
             /\ damages' = damages
  BY <1>8, GoesDoes DEF SaveReport, Final, Unlock, Rebuild
<1>9. ASSUME RebuildRefused(p) \/ Abort(p)
      PROVE  active' \in [Session -> Revision \cup {None, Garbled}] /\ reader' = reader
             /\ damages' = damages
  BY <1>9, GoesDoes DEF RebuildRefused, Abort
<1> QED
  BY <1>1, <1>2, <1>3, <1>4, <1>5, <1>6, <1>7, <1>8, <1>9 DEF Work, StoreSteps, StoreStays

LEMMA LocksTyped ==
  ASSUME NEW p \in Process, slock \in [Session -> Process \cup {None}], pc \in [Process -> Place],
         Work(p)
  PROVE  slock' \in [Session -> Process \cup {None}]
<1>1. ASSUME Start(p) \/ Take(p) \/ Crash(p)
      PROVE  slock' \in [Session -> Process \cup {None}]
  BY <1>1 DEF Start, Take, Crash, storeRest, store
<1>2. ASSUME GiveUp(p) \/ WriteFetching(p) \/ FetchDump(p) \/ FetchSchedule(p)
      PROVE  slock' \in [Session -> Process \cup {None}]
  BY <1>2, GoesDoes DEF GiveUp, WriteFetching, FetchDump, FetchSchedule
<1>3. ASSUME Select(p) \/ Refuse(p) \/ PassOver(p) \/ ListUnraced(p)
      PROVE  slock' \in [Session -> Process \cup {None}]
  BY <1>3, GoesDoes DEF Select, Refuse, PassOver, ListUnraced
<1>4. ASSUME BeginWrite(p) \/ ReadBack(p) \/ FailRace(p) \/ SaveCatalog(p)
      PROVE  slock' \in [Session -> Process \cup {None}]
  BY <1>4, GoesDoes DEF BeginWrite, ReadBack, FailRace, SaveCatalog
<1>5. ASSUME LockSession(p) \/ Publish(p) \/ MoveAside(p) \/ MoveIn(p), StoreStays(p)
      PROVE  slock' \in [Session -> Process \cup {None}]
  BY <1>5 DEF LockSession, Publish, MoveAside, MoveIn, StoreStays, store
<1>6. ASSUME Point(p) \/ WriteFails(p), StoreStays(p)
      PROVE  slock' \in [Session -> Process \cup {None}]
  BY <1>6 DEF Point, WriteFails, StoreStays, store
<1>7. ASSUME SaveReport(p) \/ Final(p) \/ Unlock(p) \/ Rebuild(p)
      PROVE  slock' \in [Session -> Process \cup {None}]
  BY <1>7, GoesDoes DEF SaveReport, Final, Unlock, Rebuild
<1>8. ASSUME RebuildRefused(p) \/ Abort(p)
      PROVE  slock' \in [Session -> Process \cup {None}]
  BY <1>8, GoesDoes DEF RebuildRefused, Abort
<1> QED
  BY <1>1, <1>2, <1>3, <1>4, <1>5, <1>6, <1>7, <1>8 DEF Work, StoreSteps, StoreStays

LEMMA WorldStays ==
  ASSUME NEW p \in Process, pc \in [Process -> Place], Work(p)
  PROVE  truth' = truth /\ dump' = dump /\ detailed' = detailed
<1>1. ASSUME Start(p) \/ Take(p) \/ Crash(p)
      PROVE  truth' = truth /\ dump' = dump /\ detailed' = detailed
  BY <1>1 DEF Start, Take, Crash, storeRest, world, files
<1>2. ASSUME GiveUp(p) \/ WriteFetching(p) \/ FetchDump(p) \/ FetchSchedule(p)
      PROVE  truth' = truth /\ dump' = dump /\ detailed' = detailed
  BY <1>2, GoesDoes DEF GiveUp, WriteFetching, FetchDump, FetchSchedule, files
<1>3. ASSUME Select(p) \/ Refuse(p) \/ BeginWrite(p) \/ SaveCatalog(p)
      PROVE  truth' = truth /\ dump' = dump /\ detailed' = detailed
  BY <1>3, GoesDoes DEF Select, Refuse, BeginWrite, SaveCatalog, files
<1>4. ASSUME PassOver(p) \/ ListUnraced(p) \/ ReadBack(p) \/ FailRace(p)
      PROVE  truth' = truth /\ dump' = dump /\ detailed' = detailed
  BY <1>4, GoesDoes DEF PassOver, ListUnraced, ReadBack, FailRace, Passed
<1>5. ASSUME LockSession(p) \/ Publish(p) \/ MoveAside(p) \/ MoveIn(p), StoreStays(p)
      PROVE  truth' = truth /\ dump' = dump /\ detailed' = detailed
  BY <1>5 DEF StoreStays, world, files
<1>6. ASSUME Point(p) \/ WriteFails(p), StoreStays(p)
      PROVE  truth' = truth /\ dump' = dump /\ detailed' = detailed
  BY <1>6 DEF StoreStays, world, files
<1>7. ASSUME SaveReport(p) \/ Final(p) \/ Unlock(p) \/ Rebuild(p)
      PROVE  truth' = truth /\ dump' = dump /\ detailed' = detailed
  BY <1>7, GoesDoes DEF SaveReport, Final, Unlock, Rebuild, files
<1>8. ASSUME RebuildRefused(p) \/ Abort(p)
      PROVE  truth' = truth /\ dump' = dump /\ detailed' = detailed
  BY <1>8, GoesDoes DEF RebuildRefused, Abort, files
<1> QED
  BY <1>1, <1>2, <1>3, <1>4, <1>5, <1>6, <1>7, <1>8 DEF Work, StoreSteps, StoreStays

LEMMA CatalogTyped ==
  ASSUME NEW p \in Process, ArchiveType, catalog \in Catalogs, Work(p)
  PROVE  catalog' \in Catalogs
<1>1. ASSUME Start(p) \/ Take(p) \/ GiveUp(p) \/ WriteFetching(p)
      PROVE  catalog' \in Catalogs
  BY <1>1 DEF Start, Take, GiveUp, WriteFetching, files
<1>2. ASSUME FetchDump(p) \/ FetchSchedule(p) \/ Select(p) \/ Refuse(p)
      PROVE  catalog' \in Catalogs
  BY <1>2 DEF FetchDump, FetchSchedule, Select, Refuse, files
<1>3. ASSUME PassOver(p) \/ ListUnraced(p) \/ ReadBack(p) \/ FailRace(p)
      PROVE  catalog' \in Catalogs
  BY <1>3 DEF PassOver, ListUnraced, ReadBack, FailRace, Passed
<1>4. ASSUME BeginWrite(p) \/ SaveReport(p) \/ Final(p) \/ Unlock(p)
      PROVE  catalog' \in Catalogs
  BY <1>4 DEF BeginWrite, SaveReport, Final, Unlock, files
<1>5. ASSUME LockSession(p) \/ Publish(p) \/ MoveAside(p) \/ MoveIn(p), StoreStays(p)
      PROVE  catalog' \in Catalogs
  BY <1>5 DEF StoreStays, files
<1>6. ASSUME Point(p) \/ WriteFails(p), StoreStays(p)
      PROVE  catalog' \in Catalogs
  BY <1>6 DEF StoreStays, files
<1>7. ASSUME SaveCatalog(p)
      PROVE  catalog' \in Catalogs
  <2>1. Merged(run[p]) \in Entries
    BY MergedTyped DEF ArchiveType
  <2> QED
    BY <1>7, <2>1 DEF SaveCatalog, Catalogs
<1>8. ASSUME Rebuild(p)
      PROVE  catalog' \in Catalogs
  <2>1. Rebuilt \in Entries
    BY <1>8, RebuiltTyped DEF Rebuild
  <2> QED
    BY <1>8, <2>1 DEF Rebuild, Catalogs
<1>9. ASSUME RebuildRefused(p) \/ Abort(p) \/ Crash(p)
      PROVE  catalog' \in Catalogs
  BY <1>9 DEF RebuildRefused, Abort, Crash, files
<1> QED
  BY <1>1, <1>2, <1>3, <1>4, <1>5, <1>6, <1>7, <1>8, <1>9 DEF Work, StoreSteps, StoreStays


LEMMA StepTyped ==
  ASSUME ArchiveInv, NEW p \in Process, Work(p)
  PROVE  ArchiveType'
<1>1. ArchiveType
  BY DEF ArchiveInv
<1>2. pc' \in [Process -> Place] /\ run' \in [Process -> Run] /\ write' \in [Process -> WriteCall]
  BY <1>1, PlacesMove, RunTyped, CallsTyped DEF ArchiveType
<1>3. /\ revisions' \in [Session -> SUBSET [rev : Revision, is : Condition]]
      /\ active' \in [Session -> Revision \cup {None, Garbled}] /\ reader' = reader
            /\ damages' = damages
      /\ slock' \in [Session -> Process \cup {None}]
  BY <1>1, RevisionsTyped, PointersTyped, LocksTyped DEF ArchiveType
<1>4. catalog' \in Catalogs /\ truth' = truth /\ dump' = dump /\ detailed' = detailed
  BY <1>1, CatalogTyped, WorldStays DEF ArchiveType
<1> QED
  BY <1>1, <1>2, <1>3, <1>4 DEF ArchiveType

(* The slot: one process at work. *)
LEMMA SlotStep ==
  ASSUME NEW p \in Process, ArchiveInv, ArchiveType, pc \in [Process -> Place], AtWork(p) =>
         slotted = p, Work(p)
  PROVE  AtWork(p)' => slotted' = p
<1>1. ASSUME Start(p) \/ Take(p) \/ GiveUp(p) \/ WriteFetching(p)
      PROVE  AtWork(p)' => slotted' = p
  BY <1>1, Places DEF Start, Take, GiveUp, WriteFetching, AtWork, files
<1>2. ASSUME FetchDump(p) \/ FetchSchedule(p) \/ Select(p) \/ Refuse(p)
      PROVE  AtWork(p)' => slotted' = p
  BY <1>2, Places DEF FetchDump, FetchSchedule, Select, Refuse, AtWork, files
<1>3. ASSUME PassOver(p) \/ ListUnraced(p) \/ ReadBack(p) \/ FailRace(p)
      PROVE  AtWork(p)' => slotted' = p
  BY <1>3, Places DEF PassOver, ListUnraced, ReadBack, FailRace, AtWork, Passed
<1>4. ASSUME BeginWrite(p) \/ SaveCatalog(p) \/ SaveReport(p) \/ Final(p)
      PROVE  AtWork(p)' => slotted' = p
  BY <1>4, Places DEF BeginWrite, SaveCatalog, SaveReport, Final, AtWork, files
<1>5. ASSUME LockSession(p) \/ Publish(p) \/ MoveAside(p) \/ MoveIn(p), StoreStays(p)
      PROVE  AtWork(p)' => slotted' = p
  BY <1>5, Places DEF StoreStays, AtWork
<1>6. ASSUME Point(p) \/ WriteFails(p), StoreStays(p)
      PROVE  AtWork(p)' => slotted' = p
  BY <1>6, Places DEF StoreStays, AtWork
<1>7. ASSUME Unlock(p) \/ Rebuild(p) \/ RebuildRefused(p) \/ Abort(p)
      PROVE  AtWork(p)' => slotted' = p
  BY <1>7, Places DEF Unlock, Rebuild, RebuildRefused, Abort, AtWork, files
<1>8. ASSUME Crash(p)
      PROVE  AtWork(p)' => slotted' = p
  BY <1>8, Places DEF AtWork
<1> QED
  BY <1>1, <1>2, <1>3, <1>4, <1>5, <1>6, <1>7, <1>8 DEF Work, StoreSteps, StoreStays


(* While one is at work, whoever else does something is not at work, and    *)
(* changes nothing that concerns it.                                        *)
LEMMA OthersStandBy ==
  ASSUME ArchiveInv, NEW p \in Process, Work(p), NEW q \in Process \ {p}, AtWork(q)
  PROVE  /\ pc[p] \in {"off", "waiting"}
         /\ revisions' = revisions /\ active' = active /\ damages' = damages /\ catalog' = catalog
         /\ run'[q] = run[q] /\ write'[q] = write[q] /\ pc'[q] = pc[q] /\ slotted' = slotted
<1>1. ArchiveType /\ slotted = q /\ q # None /\ q # p
  BY NotNone DEF ArchiveInv, SlotInv
<1>2. ~ AtWork(p)
  BY <1>1 DEF ArchiveInv, SlotInv
<1>3. pc[p] \in {"off", "waiting"} /\ pc \in [Process -> Place]
  BY <1>1, <1>2 DEF AtWork, ArchiveType
<1>4. Start(p) \/ Take(p) \/ GiveUp(p) \/ Crash(p)
  <2>1. pc[p] \notin Writing
    BY <1>3 DEF Writing
  <2>2. ~ StoreSteps(p)
    BY <1>3, Places DEF StoreSteps
  <2>3. ~ (WriteFetching(p) \/ FetchDump(p) \/ FetchSchedule(p) \/ Select(p) \/ Refuse(p)
        \/ PassOver(p))
    BY <1>3, Places
  <2>4. ~ (ListUnraced(p) \/ BeginWrite(p) \/ ReadBack(p) \/ FailRace(p) \/ SaveCatalog(p)
        \/ SaveReport(p))
    BY <1>3, Places
  <2>5. ~ (Final(p) \/ Unlock(p) \/ Rebuild(p) \/ RebuildRefused(p) \/ Abort(p))
    BY <1>3, Places
  <2> QED
    BY <2>2, <2>3, <2>4, <2>5 DEF Work
<1>5. ~ Take(p)
  BY <1>1 DEF Take
<1>6. run'[q] = run[q] /\ write'[q] = write[q] /\ pc'[q] = pc[q]
  BY <1>1, OtherRunsStay, OtherCallsStay, PlacesMove DEF ArchiveType
<1>7. CASE Start(p)
  BY <1>3, <1>6, <1>7 DEF Start, store, files
<1>8. CASE GiveUp(p)
  BY <1>3, <1>6, <1>8, GoesDoes DEF GiveUp, files
<1>9. CASE Crash(p)
  BY <1>1, <1>3, <1>6, <1>9 DEF Crash, store, files
<1> QED
  BY <1>3, <1>4, <1>5, <1>7, <1>8, <1>9

LEMMA SlotKept ==
  ASSUME ArchiveInv, NEW p \in Process, Work(p)
  PROVE  SlotInv'
<1> SUFFICES ASSUME NEW q \in Process, AtWork(q)' PROVE slotted' = q
  BY DEF SlotInv
<1>1. CASE q = p
  BY <1>1, SlotStep DEF ArchiveInv, ArchiveType, SlotInv
<1>2. CASE q # p
  <2>1. AtWork(q)
    BY <1>2, PlacesMove DEF AtWork, ArchiveInv, ArchiveType
  <2> QED
    BY <1>2, <2>1, OthersStandBy DEF ArchiveInv, SlotInv
<1> QED
  BY <1>1, <1>2

(* What is known of a process stays as long as what it is known of does. *)
LEMMA ProcessStays ==
  ASSUME NEW q, AtWork(q) => ProcessInv(q),
         revisions' = revisions, active' = active, damages' = damages, catalog' = catalog,
         run'[q] = run[q], write'[q] = write[q], pc'[q] = pc[q]
  PROVE  ProcessInv(q)'
<1> SUFFICES ASSUME AtWork(q)' PROVE ProcessInv(q)'
  BY DEF ProcessInv
<1>1. AtWork(q) /\ ProcessInv(q)
  BY DEF AtWork
<1>2. run'[q].since <= damages' /\ FreshInv(q)'
  BY <1>1 DEF ProcessInv, FreshInv
<1>3. WriteInv(q)' /\ LoopInv(q)'
  BY <1>1 DEF ProcessInv, WriteInv, LoopInv, More, Here
<1>4. PointInv(q)'
  BY <1>1 DEF ProcessInv, PointInv, Intact, Valid, There, StateOf
<1>5. DoneInv(q)'
  BY <1>1 DEF ProcessInv, DoneInv, Done, Behind, Stands, Intact, Valid, There, StateOf
<1>6. SavedInv(q)'
  BY <1>1 DEF ProcessInv, SavedInv, More
<1> QED
  BY <1>2, <1>3, <1>4, <1>5, <1>6 DEF ProcessInv

(* What is known of the process that takes the step, one part at a time. *)
LEMMA FreshStep ==
  ASSUME NEW p \in Process, ArchiveInv, ArchiveType, pc \in [Process -> Place], AtWork(p) =>
         ProcessInv(p), run \in [Process -> Run], Work(p)
  PROVE  FreshInv(p)'
<1>1. ASSUME Start(p) \/ GiveUp(p) \/ Select(p) \/ Refuse(p) \/ PassOver(p) \/ ListUnraced(p)
      \/ BeginWrite(p) \/ ReadBack(p) \/ FailRace(p) \/ SaveCatalog(p) \/ SaveReport(p)
            \/ Final(p) \/ Unlock(p) \/ Rebuild(p) \/ RebuildRefused(p) \/ Abort(p) \/ Crash(p)
      PROVE  FreshInv(p)'
  BY <1>1, Places DEF FreshInv
<1>2. ASSUME Take(p)
      PROVE  FreshInv(p)'
  <2>1. CASE pc'[p] = "fetching"
    <3>1. \E c \in Command :
            run' = [run EXCEPT ![p] = [NoRun EXCEPT !.target = c.target, !.range = c.range,
                                                    !.upcoming = c.upcoming, !.since = damages]]
      BY <1>2, <2>1 DEF Take, Begin
    <3>2. /\ run'[p].rebuild = NoRun.rebuild /\ run'[p].next = NoRun.next
          /\ run'[p].events = NoRun.events
      BY <3>1, NoRunTyped DEF Run
    <3>3. NoRun.rebuild = FALSE /\ NoRun.next = 1 /\ DOMAIN NoRun.events = {}
      BY DEF NoRun
    <3> QED
      BY <2>1, <3>2, <3>3 DEF FreshInv
  <2>2. CASE pc'[p] = "rebuild"
    BY <1>2, <2>2 DEF Take, Begin, FreshInv, NoRun
  <2> QED
    BY <1>2, <2>1, <2>2, Places
<1>3. ASSUME WriteFetching(p)
      PROVE  FreshInv(p)'
  <2>1. FreshInv(p) /\ pc[p] = "fetching" /\ pc'[p] = "dump" /\ run' = run
    BY <1>3, Places DEF WriteFetching, ProcessInv, AtWork
  <2> QED
    BY <2>1 DEF FreshInv
<1>4. ASSUME FetchDump(p)
      PROVE  FreshInv(p)'
  <2>1. FreshInv(p) /\ pc[p] = "dump" /\ pc'[p] = "schedule"
    BY <1>4, Places DEF ProcessInv, AtWork
  <2>2. run' = [run EXCEPT ![p].src = DumpRaces(run[p].range)]
    BY <1>4 DEF FetchDump
  <2> QED
    BY <2>1, <2>2 DEF FreshInv, Run
<1>5. ASSUME FetchSchedule(p)
      PROVE  FreshInv(p)'
  <2>1. FreshInv(p) /\ pc[p] = "schedule" /\ pc'[p] = "select"
    BY <1>5, Places DEF ProcessInv, AtWork
  <2>2. \E src : run' = [run EXCEPT ![p].src = src]
    BY <1>5 DEF FetchSchedule
  <2> QED
    BY <2>1, <2>2 DEF FreshInv, Run
<1>6. ASSUME LockSession(p) \/ Publish(p) \/ MoveAside(p) \/ MoveIn(p) \/ Point(p)
      \/ WriteFails(p), StoreStays(p)
      PROVE  FreshInv(p)'
  BY <1>6, Places DEF FreshInv
<1> QED
  BY <1>1, <1>2, <1>3, <1>4, <1>5, <1>6 DEF Work, StoreSteps, StoreStays

LEMMA WriteStep ==
  ASSUME NEW p \in Process, ArchiveInv, ArchiveType, pc \in [Process -> Place], AtWork(p) =>
         ProcessInv(p), run \in [Process -> Run], write \in [Process -> WriteCall], Work(p)
  PROVE  WriteInv(p)'
<1>1. ASSUME Start(p) \/ Take(p) \/ GiveUp(p) \/ WriteFetching(p) \/ FetchDump(p)
      \/ FetchSchedule(p) \/ Select(p) \/ Refuse(p) \/ PassOver(p) \/ ListUnraced(p)
            \/ ReadBack(p) \/ FailRace(p) \/ SaveCatalog(p) \/ SaveReport(p) \/ Final(p)
                  \/ Unlock(p) \/ Rebuild(p) \/ RebuildRefused(p) \/ Abort(p) \/ Crash(p)
      PROVE  WriteInv(p)'
  BY <1>1, Places DEF WriteInv, Writing
<1>2. ASSUME BeginWrite(p)
      PROVE  WriteInv(p)'
  <2>1. More(p) /\ Here(p) \in DOMAIN run[p].src /\ run[p].src[Here(p)].is = "raced" /\ run' = run
    BY <1>2 DEF BeginWrite
  <2>2. PICK v : v = [source |-> run[p].src[Here(p)].source, detailed |-> Here(p) \in run[p].detailed]
    OBVIOUS
  <2>3. v.source = run[p].src[Here(p)].source /\ v \in Revision
    <3>1. run[p] \in Run /\ run[p].src[Here(p)] \in Said
      BY <2>1, SaidTyped
    <3> QED
      BY <2>2, <3>1, RevisionMade DEF Said
  <2>4. write' = [write EXCEPT ![p] = [on |-> Here(p), aside |-> None, rev |-> v]]
    BY <1>2, <2>2 DEF BeginWrite
  <2>5. write'[p].on = Here(p) /\ write'[p].rev = v /\ write'[p].aside = None
    BY <2>4
  <2>6. v # None
    BY <2>3, NotNone
  <2> QED
    BY <2>1, <2>3, <2>5, <2>6 DEF WriteInv, More, Here
<1>3. ASSUME LockSession(p) \/ Publish(p) \/ MoveAside(p), StoreStays(p)
      PROVE  WriteInv(p)'
  <2>1. WriteInv(p) /\ pc[p] \in Writing \ {"failed", "read back"} /\ run' = run
    BY <1>3, Places DEF ProcessInv, AtWork, StoreStays, Writing
  <2>2. /\ write'[p].on = write[p].on /\ write'[p].rev = write[p].rev
        /\ write'[p].aside # None => pc'[p] = "move in"
    BY <1>3, <2>1, Places DEF LockSession, Publish, MoveAside, StoreStays, WriteInv, WriteCall
  <2> QED
    BY <2>1, <2>2 DEF WriteInv, More, Here, Writing
<1>4. ASSUME MoveIn(p) \/ Point(p), StoreStays(p)
      PROVE  WriteInv(p)'
  <2>1. WriteInv(p) /\ pc[p] \in Writing \ {"failed", "read back"} /\ run' = run
    BY <1>4, Places DEF ProcessInv, AtWork, StoreStays, Writing
  <2>2. /\ write'[p].on = write[p].on /\ write'[p].rev = write[p].rev
        /\ write'[p].aside # None => pc'[p] = "move in"
    BY <1>4, <2>1, Places DEF MoveIn, Point, StoreStays, WriteInv, WriteCall
  <2> QED
    BY <2>1, <2>2 DEF WriteInv, More, Here, Writing
<1>5. ASSUME WriteFails(p), StoreStays(p)
      PROVE  WriteInv(p)'
  <2>1. WriteInv(p) /\ pc[p] \in Writing \ {"failed", "read back"} /\ run' = run
    BY <1>5, Places DEF ProcessInv, AtWork, StoreStays, Writing
  <2>2. write' = [write EXCEPT ![p].aside = None]
    BY <1>5 DEF WriteFails
  <2>3. write'[p].on = write[p].on /\ write'[p].rev = write[p].rev /\ write'[p].aside = None
    BY <2>2 DEF WriteCall
  <2> QED
    BY <2>1, <2>3 DEF WriteInv, More, Here, Writing
<1> QED
  BY <1>1, <1>2, <1>3, <1>4, <1>5 DEF Work, StoreSteps, StoreStays


(* The loop has gone on to the next race; of the one it was at, the catalog *)
(* will say this.                                                           *)
GoneOn(p) ==
    /\ More(p) /\ Here(p) \in Session /\ run[p] \in Run /\ run'[p] \in Run
    /\ run'[p].next = run[p].next + 1 /\ run'[p].src = run[p].src
    /\ run'[p].target = run[p].target /\ run'[p].base = run[p].base
    /\ run'[p].rebuild = run[p].rebuild /\ run'[p].since = run[p].since
    /\ catalog' = catalog
Entered(p, event, failed) ==
    /\ GoneOn(p) /\ Here(p) \in DOMAIN run[p].src
    /\ \A s \in DOMAIN run[p].events : s # Here(p) => run'[p].events[s] = run[p].events[s]
    /\ DOMAIN run'[p].events = DOMAIN run[p].events \cup {Here(p)}
    /\ run'[p].events[Here(p)] = event /\ run'[p].failed = failed

LEMMA PassOverDoes ==
  ASSUME ArchiveInv, NEW p \in Process, PassOver(p)
  PROVE  /\ GoneOn(p) /\ run'[p].events = run[p].events /\ run'[p].failed = run[p].failed
         /\ ~ (Here(p) \in DOMAIN run[p].src /\ run[p].src[Here(p)].is = "raced")
<1>1. More(p) /\ Passed(p, run[p])
  BY DEF PassOver
<1>2. Here(p) \in Session /\ run[p] \in Run /\ run \in [Process -> Run]
  BY <1>1, HereIsASession DEF ArchiveInv, ArchiveType
<1>3. ~ (Here(p) \in DOMAIN run[p].src /\ run[p].src[Here(p)].is = "raced")
  BY DEF PassOver
<1>4. GoneOn(p) /\ run'[p].events = run[p].events /\ run'[p].failed = run[p].failed
  <2>1. run'[p] \in Run
    BY <1>1, <1>2, PassedDoes
  <2> QED
    BY <1>1, <1>2, <2>1, PassedDoes DEF GoneOn
<1> QED
  BY <1>3, <1>4

LEMMA Enters ==
  ASSUME NEW p \in Process, run \in [Process -> Run], More(p), Here(p) \in Session,
         Here(p) \in DOMAIN run[p].src, NEW event \in Event, NEW failed \in SUBSET Session,
         NEW r, r = With(run[p], Here(p), event), Passed(p, [r EXCEPT !.failed = failed])
  PROVE  Entered(p, event, failed)
<1>1. PICK x : x = [r EXCEPT !.failed = failed]
  OBVIOUS
<1>2. /\ \A q \in DOMAIN run[p].events : q # Here(p) => r.events[q] = run[p].events[q]
      /\ DOMAIN r.events = DOMAIN run[p].events \cup {Here(p)}
      /\ r.events[Here(p)] = event
      /\ r = [run[p] EXCEPT !.events = r.events] /\ r \in Run
  BY EntryTyped
<1>3. x \in Run
  BY <1>1, <1>2 DEF Run
<1>4. /\ run'[p].next = x.next + 1 /\ run'[p].src = x.src /\ run'[p].events = x.events
      /\ run'[p].failed = x.failed /\ run'[p].target = x.target /\ run'[p].base = x.base
      /\ run'[p].rebuild = x.rebuild /\ run'[p].since = x.since /\ run'[p] \in Run
      /\ catalog' = catalog
  BY <1>1, <1>3, PassedDoes
<1>5. /\ x.next = r.next /\ x.src = r.src /\ x.events = r.events /\ x.failed = failed
      /\ x.target = r.target /\ x.base = r.base /\ x.rebuild = r.rebuild /\ x.since = r.since
  BY <1>1, <1>2 DEF Run
<1>6. /\ r.next = run[p].next /\ r.src = run[p].src /\ r.target = run[p].target
      /\ r.base = run[p].base /\ r.rebuild = run[p].rebuild /\ r.since = run[p].since
      /\ run[p] \in Run
  BY <1>2 DEF Run
<1>7. GoneOn(p)
  BY <1>4, <1>5, <1>6 DEF GoneOn
<1> QED
  BY <1>2, <1>4, <1>5, <1>7 DEF Entered

LEMMA EntersOnly ==
  ASSUME NEW p \in Process, run \in [Process -> Run], More(p), Here(p) \in Session,
         Here(p) \in DOMAIN run[p].src, NEW event \in Event,
         Passed(p, With(run[p], Here(p), event))
  PROVE  Entered(p, event, run[p].failed)
<1>1. PICK r : r = With(run[p], Here(p), event)
  OBVIOUS
<1>2. r \in Run /\ r = [run[p] EXCEPT !.events = r.events]
  BY <1>1, EntryTyped
<1>3. r.failed = run[p].failed /\ run[p].failed \in SUBSET Session
  BY <1>2 DEF Run
<1>4. r = [r EXCEPT !.failed = run[p].failed]
  BY <1>2, <1>3 DEF Run
<1> QED
  BY <1>1, <1>3, <1>4, Enters

LEMMA ListUnracedDoes ==
  ASSUME ArchiveInv, NEW p \in Process, ListUnraced(p)
  PROVE  /\ \E event \in Event : event.rev = None /\ Entered(p, event, run[p].failed)
         /\ run[p].src[Here(p)].is # "raced"
<1>1. More(p) /\ Here(p) \in DOMAIN run[p].src /\ run[p].src[Here(p)].is # "raced"
  BY DEF ListUnraced
<1>2. Here(p) \in Session /\ run \in [Process -> Run]
  BY <1>1, HereIsASession DEF ArchiveInv, ArchiveType
<1>3. /\ Shown("cancelled", "skipped") \in Event /\ Shown("upcoming", "discovered") \in Event
      /\ Shown("cancelled", "skipped").rev = None /\ Shown("upcoming", "discovered").rev = None
  BY DEF Shown, Event
<1>4. PICK event \in Event : event.rev = None /\ Passed(p, With(run[p], Here(p), event))
  BY <1>3 DEF ListUnraced
<1> QED
  BY <1>1, <1>2, <1>4, EntersOnly

LEMMA ReadBackDoes ==
  ASSUME ArchiveInv, NEW p \in Process, ReadBack(p)
  PROVE  /\ active[Here(p)] \in Revision /\ Published(active[Here(p)]) \in Event
         /\ Entered(p, Published(active[Here(p)]), run[p].failed)
<1>1. /\ Here(p) \in Session /\ More(p) /\ Here(p) \in DOMAIN run[p].src /\ write[p].on = Here(p)
      /\ run \in [Process -> Run] /\ active[Here(p)] \in Revision \cup {None, Garbled}
  BY Places, AtRace DEF ArchiveInv, ArchiveType, Writing
<1>2. active[Here(p)] \in Revision
  BY <1>1 DEF ReadBack
<1>3. Published(active[Here(p)]) \in Event
  BY <1>2 DEF Published, Event
<1>4. Passed(p, With(run[p], Here(p), Published(active[Here(p)])))
  BY <1>1 DEF ReadBack
<1> QED
  BY <1>1, <1>2, <1>3, <1>4, EntersOnly

LEMMA FailRaceDoes ==
  ASSUME ArchiveInv, NEW p \in Process, FailRace(p)
  PROVE  \E event \in Event : event.rev = None /\ Entered(p, event, run[p].failed \cup {Here(p)})
<1>1. /\ Here(p) \in Session /\ More(p) /\ Here(p) \in DOMAIN run[p].src /\ write[p].on = Here(p)
      /\ run \in [Process -> Run] /\ run[p] \in Run
  BY Places, AtRace DEF ArchiveInv, ArchiveType, Writing
<1>2. PICK event : event = Shown("completed", "failed")
  OBVIOUS
<1>3. event \in Event /\ event.rev = None
  BY <1>2 DEF Shown, Event
<1>4. PICK r : r = With(run[p], Here(p), event)
  OBVIOUS
<1>5. r \in Run /\ r = [run[p] EXCEPT !.events = r.events]
  BY <1>1, <1>3, <1>4, EntryTyped
<1>6. r.failed = run[p].failed /\ run[p].failed \cup {Here(p)} \in SUBSET Session
  BY <1>1, <1>5 DEF Run
<1>7. Passed(p, [r EXCEPT !.failed = run[p].failed \cup {Here(p)}])
  BY <1>1, <1>2, <1>4, <1>6 DEF FailRace
<1>8. Entered(p, event, run[p].failed \cup {Here(p)})
  BY <1>1, <1>3, <1>4, <1>6, <1>7, Enters
<1> QED
  BY <1>3, <1>8


LEMMA SelectDoes ==
  ASSUME NEW p \in Process, run \in [Process -> Run], Select(p)
  PROVE  /\ run'[p].rebuild = run[p].rebuild /\ run'[p].next = run[p].next
         /\ run'[p].events = run[p].events /\ run'[p].target = run[p].target
         /\ run[p].target # None => run'[p].base = catalog /\ DOMAIN run'[p].src = {run[p].target}
         /\ run'[p].since = run[p].since /\ catalog' = catalog
<1>1. PICK t : t = run[p].target
  OBVIOUS
<1>2. PICK base, src :
          /\ base = (IF t = None THEN NoCatalog ELSE catalog)
          /\ src = (IF t = None THEN run[p].src ELSE [s \in {t} |-> run[p].src[t]])
  OBVIOUS
<1>3. run' = [run EXCEPT ![p].detailed = detailed, ![p].base = base, ![p].src = src]
  BY <1>1, <1>2 DEF Select, DetailedSessions
<1>4. catalog' = catalog
  BY DEF Select
<1>5. t # None => base = catalog /\ DOMAIN src = {t}
  BY <1>2
<1> QED
  BY <1>1, <1>3, <1>4, <1>5 DEF Run

LEMMA LoopStep ==
  ASSUME NEW p \in Process, ArchiveInv, ArchiveType, pc \in [Process -> Place], AtWork(p) =>
         ProcessInv(p), run \in [Process -> Run], Work(p)
  PROVE  LoopInv(p)'
<1>1. ASSUME Start(p) \/ Take(p) \/ GiveUp(p) \/ WriteFetching(p) \/ FetchDump(p)
      \/ FetchSchedule(p) \/ Refuse(p) \/ SaveCatalog(p) \/ SaveReport(p) \/ Final(p)
            \/ Unlock(p) \/ Rebuild(p) \/ RebuildRefused(p) \/ Abort(p) \/ Crash(p)
      PROVE  LoopInv(p)'
  BY <1>1, Places DEF LoopInv, InLoop, Writing
<1>2. ASSUME Select(p)
      PROVE  LoopInv(p)'
  <2>1. FreshInv(p) /\ pc[p] = "select"
    BY <1>2, Places DEF ProcessInv, AtWork
  <2>2. run[p].rebuild = FALSE /\ DOMAIN run[p].events = {}
    BY <2>1 DEF FreshInv
  <2> QED
    BY <1>2, <2>2, SelectDoes DEF LoopInv
<1>3. ASSUME PassOver(p)
      PROVE  LoopInv(p)'
  <2>1. LoopInv(p) /\ pc[p] \in InLoop /\ pc'[p] = "races"
    BY <1>3, Places DEF ProcessInv, AtWork, Writing, InLoop
  <2>2. GoneOn(p) /\ DOMAIN run'[p].events \subseteq DOMAIN run[p].events \cup DOMAIN run[p].src
    BY <1>3, PassOverDoes
  <2> QED
    BY <2>1, <2>2 DEF LoopInv, GoneOn
<1>4. ASSUME ListUnraced(p)
      PROVE  LoopInv(p)'
  <2>1. LoopInv(p) /\ pc[p] \in InLoop /\ pc'[p] = "races"
    BY <1>4, Places DEF ProcessInv, AtWork, Writing, InLoop
  <2>2. GoneOn(p) /\ DOMAIN run'[p].events \subseteq DOMAIN run[p].events \cup DOMAIN run[p].src
    BY <1>4, ListUnracedDoes DEF Entered
  <2> QED
    BY <2>1, <2>2 DEF LoopInv, GoneOn
<1>5. ASSUME BeginWrite(p)
      PROVE  LoopInv(p)'
  <2>1. LoopInv(p) /\ pc[p] \in InLoop /\ run' = run /\ catalog' = catalog
    BY <1>5, Places DEF BeginWrite, files, ProcessInv, AtWork, InLoop
  <2> QED
    BY <2>1 DEF LoopInv
<1>6. ASSUME LockSession(p) \/ Publish(p) \/ MoveAside(p), StoreStays(p)
      PROVE  LoopInv(p)'
  <2>1. LoopInv(p) /\ pc[p] \in InLoop /\ run' = run /\ catalog' = catalog
    BY <1>6, Places DEF StoreStays, files, ProcessInv, AtWork, Writing, InLoop
  <2> QED
    BY <2>1 DEF LoopInv
<1>7. ASSUME MoveIn(p) \/ Point(p) \/ WriteFails(p), StoreStays(p)
      PROVE  LoopInv(p)'
  <2>1. LoopInv(p) /\ pc[p] \in InLoop /\ run' = run /\ catalog' = catalog
    BY <1>7, Places DEF StoreStays, files, ProcessInv, AtWork, Writing, InLoop
  <2> QED
    BY <2>1 DEF LoopInv
<1>8. ASSUME ReadBack(p)
      PROVE  LoopInv(p)'
  <2>1. LoopInv(p) /\ pc[p] \in InLoop /\ pc'[p] = "races"
    BY <1>8, Places DEF ProcessInv, AtWork, Writing, InLoop
  <2>2. GoneOn(p) /\ DOMAIN run'[p].events \subseteq DOMAIN run[p].events \cup DOMAIN run[p].src
    BY <1>8, ReadBackDoes DEF Entered
  <2> QED
    BY <2>1, <2>2 DEF LoopInv, GoneOn
<1>9. ASSUME FailRace(p)
      PROVE  LoopInv(p)'
  <2>1. LoopInv(p) /\ pc[p] \in InLoop /\ pc'[p] = "races"
    BY <1>9, Places DEF ProcessInv, AtWork, Writing, InLoop
  <2>2. GoneOn(p) /\ DOMAIN run'[p].events \subseteq DOMAIN run[p].events \cup DOMAIN run[p].src
    BY <1>9, FailRaceDoes DEF Entered
  <2> QED
    BY <2>1, <2>2 DEF LoopInv, GoneOn
<1> QED
  BY <1>1, <1>2, <1>3, <1>4, <1>5, <1>6, <1>7, <1>8, <1>9 DEF Work, StoreSteps, StoreStays


LEMMA WholeIsValid ==
  ASSUME revisions \in [Session -> SUBSET [rev : Revision, is : Condition]],
         NEW s \in Session, NEW v \in Revision, Put(s, v, "whole")
  PROVE  Valid(s, v)'
  BY PutDoes DEF Condition

(* What was found whole still is when nothing of that session changed. *)
LEMMA SameStore ==
  ASSUME NEW s, revisions'[s] = revisions[s]
  PROVE  /\ There(s)' = There(s)
         /\ \A v : (Valid(s, v)' <=> Valid(s, v)) /\ (ManifestReads(s, v)' <=> ManifestReads(s, v))
<1>1. There(s)' = There(s)
  BY DEF There
<1>2. \A v : StateOf(s, v)' = StateOf(s, v)
  BY DEF StateOf
<1> QED
  BY <1>1, <1>2 DEF Valid, ManifestReads

LEMMA PointStep ==
  ASSUME NEW p \in Process, ArchiveInv, ArchiveType, pc \in [Process -> Place], AtWork(p) =>
         ProcessInv(p), run \in [Process -> Run], write \in [Process -> WriteCall], Work(p)
  PROVE  PointInv(p)'
<1>1. ASSUME Start(p) \/ Take(p) \/ GiveUp(p) \/ WriteFetching(p) \/ FetchDump(p)
      \/ FetchSchedule(p) \/ Select(p) \/ Refuse(p) \/ PassOver(p) \/ ListUnraced(p)
            \/ BeginWrite(p) \/ ReadBack(p) \/ FailRace(p) \/ SaveCatalog(p) \/ SaveReport(p)
                  \/ Final(p) \/ Unlock(p) \/ Rebuild(p) \/ RebuildRefused(p) \/ Abort(p) \/ Crash(p)
      PROVE  PointInv(p)'
  BY <1>1, Places DEF PointInv
<1>2. ASSUME LockSession(p) \/ MoveAside(p) \/ WriteFails(p), StoreStays(p)
      PROVE  PointInv(p)'
  BY <1>2, Places DEF PointInv
<1>3. ASSUME Publish(p), StoreStays(p)
      PROVE  PointInv(p)'
  <2>1. write[p].on \in Session /\ write[p].rev \in Revision /\ run' = run /\ write' = write
    BY <1>3, Places, AtRace DEF Writing, Publish, StoreStays
  <2>2. Valid(write[p].on, write[p].rev)'
    <3>1. CASE Put(write[p].on, write[p].rev, "whole")
      BY <2>1, <3>1, WholeIsValid DEF ArchiveType
    <3>2. CASE Valid(write[p].on, write[p].rev) /\ revisions' = revisions
      BY <2>1, <3>2 DEF Valid, There, StateOf
    <3> QED
      BY <1>3, <3>1, <3>2 DEF Publish
  <2>3. pc'[p] = "point"
    BY <1>3, Places
  <2> QED
    BY <2>1, <2>2, <2>3 DEF PointInv, Valid, There, StateOf
<1>4. ASSUME MoveIn(p), StoreStays(p)
      PROVE  PointInv(p)'
  <2>1. PICK s \in Session, v \in Revision : s = write[p].on /\ v = write[p].rev
    BY <1>4, Places, AtRace DEF Writing
  <2>2. write'[p].on = s /\ write'[p].rev = v
    BY <1>4, <2>1 DEF MoveIn, WriteCall
  <2>3. Valid(s, v)'
    <3>1. Put(s, v, "whole")
      BY <1>4, <2>1 DEF MoveIn
    <3>2. revisions \in [Session -> SUBSET [rev : Revision, is : Condition]]
      BY DEF ArchiveType
    <3> QED
      BY <3>1, <3>2, WholeIsValid
  <2>4. pc'[p] = "point"
    BY <1>4, Places
  <2> QED
    BY <2>2, <2>3, <2>4 DEF PointInv, Valid, There, StateOf
<1>5. ASSUME Point(p), StoreStays(p)
      PROVE  PointInv(p)'
  <2>1. /\ write[p].on \in Session /\ write[p].rev \in Revision /\ run' = run /\ write' = write
        /\ PointInv(p) /\ pc[p] = "point" /\ pc'[p] = "read back"
        /\ revisions' = revisions /\ damages' = damages
    <3>1. pc[p] = "point" /\ pc'[p] = "read back"
      BY <1>5, Places
    <3>2. write[p].on \in Session /\ write[p].rev \in Revision /\ ProcessInv(p) /\ AtWork(p)
      BY <3>1, AtRace DEF Writing
    <3>3. run' = run /\ write' = write /\ revisions' = revisions /\ damages' = damages
      BY <1>5, WriteGoesDoes DEF Point, StoreStays
    <3>4. PointInv(p)
      BY <3>2 DEF ProcessInv
    <3> QED
      BY <3>1, <3>2, <3>3, <3>4
  <2>2. active'[write[p].on] = write[p].rev
    BY <1>5, <2>1 DEF Point, ArchiveType
  <2>3. damages' = run'[p].since => Valid(write[p].on, write[p].rev)
    BY <2>1 DEF PointInv
  <2> QED
    BY <2>1, <2>2, <2>3 DEF PointInv, Intact, Valid, There, StateOf
<1> QED
  BY <1>1, <1>2, <1>3, <1>4, <1>5 DEF Work, StoreSteps, StoreStays


(* The races behind stay done when nothing of them changes, on disk or in   *)
(* what the catalog will say.                                               *)
LEMMA DoneKept ==
  ASSUME ArchiveType, NEW p \in Process, run' = run, Done(run[p]), damages' = damages,
         \A s \in Behind(run[p]) : revisions'[s] = revisions[s] /\ active'[s] = active[s]
  PROVE  Done(run[p])'
<1>1. PICK r : r = run[p]
  OBVIOUS
<1>2. ASSUME NEW s \in Behind(r), Stands(r, s) PROVE Stands(r, s)'
  <2>1. revisions'[s] = revisions[s] /\ active'[s] = active[s]
    BY <1>1, <1>2
  <2>2. \A v : Valid(s, v)' <=> Valid(s, v)
    BY <2>1, SameStore
  <2> QED
    BY <1>2, <2>1, <2>2 DEF Stands, Intact
<1>3. Done(r)'
  BY <1>1, <1>2 DEF Done, Behind
<1> QED
  BY <1>1, <1>3 DEF Done, Behind, Stands, Intact

(* The race that is written is not behind. *)
LEMMA HereIsAhead ==
  ASSUME NEW r \in Run, r.next <= Len(Order), NEW r2, r2.next = r.next + 1
  PROVE  /\ Order[r.next] \notin Behind(r) /\ Order[r.next] \in Session
         /\ Behind(r2) = Behind(r) \cup {Order[r.next]}
<1>1. r.next \in 1..Len(Order) /\ r.next \in Nat
  BY OrderProperties DEF Run
<1>2. \A i \in 1..r.next - 1 : i \in 1..Len(Order) /\ i # r.next
  BY <1>1, OrderProperties
<1>3. Order[r.next] \notin Behind(r) /\ Order[r.next] \in Session
  BY <1>1, <1>2, OrderProperties DEF Behind
<1>4. 1..r2.next - 1 = (1..r.next - 1) \cup {r.next}
  BY <1>1
<1>5. Behind(r2) = Behind(r) \cup {Order[r.next]}
  BY <1>4 DEF Behind
<1> QED
  BY <1>3, <1>5

LEMMA DoneFurther ==
  ASSUME ArchiveInv, NEW p \in Process, GoneOn(p), Done(run[p]),
         revisions' = revisions, active' = active, damages' = damages,
         \A s \in DOMAIN run[p].events :
            s # Here(p) => s \in DOMAIN run'[p].events /\ run'[p].events[s] = run[p].events[s],
         run[p].failed \subseteq run'[p].failed,
         NEW h, h = Here(p),
         h \in DOMAIN run'[p].src /\ run'[p].src[h].is = "raced" /\ h \notin run'[p].failed =>
            Stands(run'[p], h)
  PROVE  Done(run[p])'
<1>1. PICK r, r2 : r = run[p] /\ r2 = run'[p]
  OBVIOUS
<1>2. /\ r \in Run /\ r.next <= Len(Order) /\ r2.next = r.next + 1 /\ r2.src = r.src
      /\ r2.since = r.since /\ h = Order[r.next]
  BY <1>1 DEF GoneOn, More, Here
<1>3. h \notin Behind(r) /\ Behind(r2) = Behind(r) \cup {h}
  BY <1>2, HereIsAhead
<1>4. ASSUME NEW s \in Behind(r2), s \in DOMAIN r2.src, r2.src[s].is = "raced", s \notin r2.failed
      PROVE  Stands(r2, s)
  <2>1. CASE s = h
    BY <1>1, <1>4, <2>1
  <2>2. CASE s # h
    <3>1. Stands(r, s)
      BY <1>1, <1>2, <1>3, <1>4, <2>2 DEF Done
    <3>2. s \in DOMAIN r2.events /\ r2.events[s] = r.events[s]
      BY <1>1, <2>2, <3>1 DEF Stands
    <3> QED
      BY <1>2, <3>1, <3>2 DEF Stands
  <2> QED
    BY <2>1, <2>2
<1>5. Done(r2)
  BY <1>4 DEF Done
<1> QED
  BY <1>1, <1>5 DEF Done, Behind, Stands, Intact, Valid, There, StateOf


LEMMA BehindIsBehind ==
  ASSUME NEW r \in Run, r.next <= Len(Order)
  PROVE  \A s \in Behind(r) : s \in Session /\ s # Order[r.next]
<1>1. \A i \in 1..r.next - 1 : i \in 1..Len(Order) /\ i # r.next
  BY OrderProperties DEF Run
<1>2. r.next \in 1..Len(Order)
  BY OrderProperties DEF Run
<1> QED
  BY <1>1, <1>2, OrderProperties DEF Behind

LEMMA DoneStep ==
  ASSUME NEW p \in Process, ArchiveInv, ArchiveType, pc \in [Process -> Place], AtWork(p) =>
         ProcessInv(p), run \in [Process -> Run], Work(p)
  PROVE  DoneInv(p)'
<1>1. ASSUME Start(p) \/ Take(p) \/ GiveUp(p) \/ WriteFetching(p) \/ FetchDump(p)
      \/ FetchSchedule(p) \/ Refuse(p) \/ Final(p) \/ Unlock(p) \/ RebuildRefused(p) \/ Abort(p)
            \/ Crash(p)
      PROVE  DoneInv(p)'
  BY <1>1, Places DEF DoneInv, InLoop, Writing
<1>2. ASSUME Select(p)
      PROVE  DoneInv(p)'
  <2>1. FreshInv(p) /\ pc[p] = "select"
    BY <1>2, Places DEF ProcessInv, AtWork
  <2>2. run'[p].next = 1
    BY <1>2, <2>1, SelectDoes DEF FreshInv
  <2>3. Behind(run[p])' = {}
    BY <2>2 DEF Behind
  <2> QED
    BY <2>3 DEF DoneInv, Done
<1>3. ASSUME PassOver(p)
      PROVE  DoneInv(p)'
  <2>1. /\ DoneInv(p) /\ run[p].rebuild = FALSE /\ pc[p] \in InLoop
        /\ revisions' = revisions /\ active' = active /\ damages' = damages
    <3>1. pc[p] \in InLoop
      BY <1>3, Places DEF InLoop, Writing
    <3>2. ProcessInv(p) /\ AtWork(p)
      BY <3>1 DEF AtWork, InLoop, Writing
    <3>3. DoneInv(p) /\ LoopInv(p)
      BY <3>2 DEF ProcessInv
    <3>4. revisions' = revisions /\ active' = active /\ damages' = damages
      BY <1>3, GoesDoes DEF PassOver
    <3> QED
      BY <3>1, <3>3, <3>4 DEF LoopInv
  <2>2. Done(run[p]) /\ run[p] \in Run
    BY <2>1 DEF DoneInv
  <2>3. GoneOn(p) /\ run'[p].events = run[p].events /\ run'[p].failed = run[p].failed
    BY <1>3, PassOverDoes
  <2>4. ~ (Here(p) \in DOMAIN run'[p].src /\ run'[p].src[Here(p)].is = "raced")
    BY <1>3, PassOverDoes DEF GoneOn
  <2> QED
    BY <2>1, <2>2, <2>3, <2>4, DoneFurther DEF DoneInv
<1>4. ASSUME ListUnraced(p)
      PROVE  DoneInv(p)'
  <2>1. /\ DoneInv(p) /\ run[p].rebuild = FALSE /\ pc[p] \in InLoop
        /\ revisions' = revisions /\ active' = active /\ damages' = damages
    <3>1. pc[p] \in InLoop
      BY <1>4, Places DEF InLoop, Writing
    <3>2. ProcessInv(p) /\ AtWork(p)
      BY <3>1 DEF AtWork, InLoop, Writing
    <3>3. DoneInv(p) /\ LoopInv(p)
      BY <3>2 DEF ProcessInv
    <3>4. revisions' = revisions /\ active' = active /\ damages' = damages
      BY <1>4, GoesDoes DEF ListUnraced
    <3> QED
      BY <3>1, <3>3, <3>4 DEF LoopInv
  <2>2. Done(run[p]) /\ run[p] \in Run
    BY <2>1 DEF DoneInv
  <2>3. PICK event \in Event : Entered(p, event, run[p].failed)
    BY <1>4, ListUnracedDoes
  <2>4. ~ (Here(p) \in DOMAIN run'[p].src /\ run'[p].src[Here(p)].is = "raced")
    BY <1>4, <2>3, ListUnracedDoes DEF GoneOn, Entered
  <2>5. GoneOn(p) /\ run'[p].failed = run[p].failed
    BY <2>3 DEF Entered
  <2>6. \A s \in DOMAIN run[p].events :
           s # Here(p) => s \in DOMAIN run'[p].events /\ run'[p].events[s] = run[p].events[s]
    BY <2>3 DEF Entered
  <2> QED
    BY <2>1, <2>2, <2>4, <2>5, <2>6, DoneFurther DEF DoneInv
<1>5. ASSUME BeginWrite(p) \/ SaveCatalog(p) \/ SaveReport(p)
      PROVE  DoneInv(p)'
  <2>1. DoneInv(p) /\ pc[p] \in InLoop \cup {"report", "final"} /\ run' = run
    BY <1>5, Places DEF BeginWrite, SaveCatalog, SaveReport, ProcessInv, AtWork, InLoop
  <2>2. revisions' = revisions /\ active' = active /\ damages' = damages
    BY <1>5, GoesDoes DEF BeginWrite, SaveCatalog, SaveReport
  <2> QED
    BY <2>1, <2>2, DoneKept DEF DoneInv
<1>6. ASSUME LockSession(p) \/ Publish(p) \/ MoveAside(p), StoreStays(p)
      PROVE  DoneInv(p)'
  <2>1. DoneInv(p) /\ pc[p] \in Writing /\ run' = run /\ damages' = damages
    <3>1. pc[p] \in Writing
      BY <1>6, Places DEF Writing
    <3>2. DoneInv(p)
      BY <3>1, AtRace DEF ProcessInv
    <3>3. run' = run /\ damages' = damages
      BY <1>6, WriteGoesDoes DEF LockSession, Publish, MoveAside, StoreStays
    <3> QED
      BY <3>1, <3>2, <3>3
  <2>2. run[p] \in Run /\ write[p].on = Order[run[p].next] /\ run[p].next <= Len(Order)
    BY <2>1, AtRace DEF More, Here
  <2>3. \A s \in Session : s # write[p].on => revisions'[s] = revisions[s] /\ active'[s] = active[s]
    BY <1>6 DEF LockSession, Publish, MoveAside, StoreStays, Put, Without, store, ArchiveType
  <2>4. \A s \in Behind(run[p]) : s \in Session /\ s # write[p].on
    BY <2>2, BehindIsBehind
  <2> QED
    BY <2>1, <2>3, <2>4, DoneKept DEF DoneInv, InLoop
<1>7. ASSUME MoveIn(p) \/ Point(p) \/ WriteFails(p), StoreStays(p)
      PROVE  DoneInv(p)'
  <2>1. DoneInv(p) /\ pc[p] \in Writing /\ run' = run /\ damages' = damages
    <3>1. pc[p] \in Writing
      BY <1>7, Places DEF Writing
    <3>2. DoneInv(p)
      BY <3>1, AtRace DEF ProcessInv
    <3>3. run' = run /\ damages' = damages
      BY <1>7, WriteGoesDoes DEF MoveIn, Point, WriteFails, StoreStays
    <3> QED
      BY <3>1, <3>2, <3>3
  <2>2. run[p] \in Run /\ write[p].on = Order[run[p].next] /\ run[p].next <= Len(Order)
    BY <2>1, AtRace DEF More, Here
  <2>3. \A s \in Session : s # write[p].on => revisions'[s] = revisions[s] /\ active'[s] = active[s]
    BY <1>7 DEF MoveIn, Point, WriteFails, StoreStays, Put, Without, store, ArchiveType
  <2>4. \A s \in Behind(run[p]) : s \in Session /\ s # write[p].on
    BY <2>2, BehindIsBehind
  <2> QED
    BY <2>1, <2>3, <2>4, DoneKept DEF DoneInv, InLoop
<1>8. ASSUME ReadBack(p)
      PROVE  DoneInv(p)'
  <2>1. /\ DoneInv(p) /\ run[p].rebuild = FALSE /\ pc[p] \in InLoop
        /\ revisions' = revisions /\ active' = active /\ damages' = damages
    <3>1. pc[p] \in InLoop
      BY <1>8, Places DEF InLoop, Writing
    <3>2. ProcessInv(p) /\ AtWork(p)
      BY <3>1 DEF AtWork, InLoop, Writing
    <3>3. DoneInv(p) /\ LoopInv(p)
      BY <3>2 DEF ProcessInv
    <3>4. revisions' = revisions /\ active' = active /\ damages' = damages
      BY <1>8, GoesDoes DEF ReadBack
    <3> QED
      BY <3>1, <3>3, <3>4 DEF LoopInv
  <2>2. Done(run[p]) /\ run[p] \in Run
    BY <2>1 DEF DoneInv
  <2>3. /\ Entered(p, Published(active[Here(p)]), run[p].failed)
        /\ active[Here(p)] \in Revision
    BY <1>8, ReadBackDoes
  <2>4. GoneOn(p) /\ run'[p].failed = run[p].failed
    BY <2>3 DEF Entered
  <2>5. \A s \in DOMAIN run[p].events :
           s # Here(p) => s \in DOMAIN run'[p].events /\ run'[p].events[s] = run[p].events[s]
    BY <2>3 DEF Entered
  <2>6. /\ pc[p] = "read back" /\ PointInv(p) /\ write[p].on = Here(p)
        /\ write[p].rev.source = run[p].src[Here(p)].source
    BY <1>8, Places, AtRace DEF Writing, ProcessInv
  <2>7. Intact(Here(p), write[p].rev, run[p].since)
    BY <2>6 DEF PointInv
  <2>8. active[Here(p)] = write[p].rev
    BY <2>3, <2>7, NotNone DEF Intact
  <2>9. Stands(run'[p], Here(p))
    <3>1. Here(p) \in DOMAIN run'[p].events /\ run'[p].events[Here(p)].rev = active[Here(p)]
      BY <2>3 DEF Entered, Published
    <3>2. run'[p].src = run[p].src /\ run'[p].since = run[p].since
      BY <2>4 DEF GoneOn
    <3> QED
      BY <2>3, <2>6, <2>7, <2>8, <3>1, <3>2 DEF Stands
  <2> QED
    BY <2>1, <2>2, <2>4, <2>5, <2>9, DoneFurther DEF DoneInv
<1>9. ASSUME FailRace(p)
      PROVE  DoneInv(p)'
  <2>1. /\ DoneInv(p) /\ run[p].rebuild = FALSE /\ pc[p] \in InLoop
        /\ revisions' = revisions /\ active' = active /\ damages' = damages
    <3>1. pc[p] \in InLoop
      BY <1>9, Places DEF InLoop, Writing
    <3>2. ProcessInv(p) /\ AtWork(p)
      BY <3>1 DEF AtWork, InLoop, Writing
    <3>3. DoneInv(p) /\ LoopInv(p)
      BY <3>2 DEF ProcessInv
    <3>4. revisions' = revisions /\ active' = active /\ damages' = damages
      BY <1>9, GoesDoes DEF FailRace
    <3> QED
      BY <3>1, <3>3, <3>4 DEF LoopInv
  <2>2. Done(run[p]) /\ run[p] \in Run
    BY <2>1 DEF DoneInv
  <2>3. PICK event \in Event : Entered(p, event, run[p].failed \cup {Here(p)})
    BY <1>9, FailRaceDoes
  <2>4. GoneOn(p) /\ run'[p].failed = run[p].failed \cup {Here(p)}
    BY <2>3 DEF Entered
  <2>5. \A s \in DOMAIN run[p].events :
           s # Here(p) => s \in DOMAIN run'[p].events /\ run'[p].events[s] = run[p].events[s]
    BY <2>3 DEF Entered
  <2> QED
    BY <2>1, <2>2, <2>4, <2>5, DoneFurther DEF DoneInv
<1>10. ASSUME Rebuild(p)
      PROVE  DoneInv(p)'
  <2>1. FreshInv(p) /\ pc[p] = "rebuild" /\ run' = run /\ pc'[p] = "report"
    BY <1>10, Places DEF ProcessInv, AtWork, Rebuild
  <2> QED
    BY <2>1 DEF FreshInv, DoneInv
<1> QED
  BY <1>1, <1>2, <1>3, <1>4, <1>5, <1>6, <1>7, <1>8, <1>9, <1>10 DEF Work, StoreSteps, StoreStays

LEMMA SavedStep ==
  ASSUME NEW p \in Process, ArchiveInv, ArchiveType, pc \in [Process -> Place], AtWork(p) =>
         ProcessInv(p), run \in [Process -> Run], Work(p)
  PROVE  SavedInv(p)'
<1>1. ASSUME Start(p) \/ Take(p) \/ GiveUp(p) \/ WriteFetching(p) \/ FetchDump(p)
      \/ FetchSchedule(p) \/ Select(p) \/ Refuse(p) \/ PassOver(p) \/ ListUnraced(p)
            \/ BeginWrite(p) \/ ReadBack(p) \/ FailRace(p) \/ Final(p) \/ Unlock(p)
                  \/ RebuildRefused(p) \/ Abort(p) \/ Crash(p)
      PROVE  SavedInv(p)'
  BY <1>1, Places DEF SavedInv
<1>2. ASSUME LockSession(p) \/ Publish(p) \/ MoveAside(p) \/ MoveIn(p) \/ Point(p)
      \/ WriteFails(p), StoreStays(p)
      PROVE  SavedInv(p)'
  BY <1>2, Places DEF SavedInv
<1>3. ASSUME SaveCatalog(p)
      PROVE  SavedInv(p)'
  <2>1. ~ More(p) /\ run' = run /\ pc'[p] = "report" /\ catalog'.events = Merged(run[p])
    BY <1>3, Places DEF SaveCatalog
  <2>2. \A s \in DOMAIN run[p].events :
           s \in DOMAIN Merged(run[p]) /\ Merged(run[p])[s] = run[p].events[s]
    BY DEF Merged
  <2> QED
    BY <2>1, <2>2 DEF SavedInv, More
<1>4. ASSUME SaveReport(p)
      PROVE  SavedInv(p)'
  <2>1. SavedInv(p) /\ pc[p] = "report" /\ run' = run /\ catalog' = catalog
    BY <1>4, Places DEF SaveReport, ProcessInv, AtWork
  <2>2. pc'[p] = IF run[p].rebuild THEN "unlock" ELSE "final"
    BY <1>4, Places
  <2>3. run[p].rebuild \in BOOLEAN
    BY DEF ArchiveType, Run
  <2>4. CASE run[p].rebuild = TRUE
    BY <2>1, <2>2, <2>4 DEF SavedInv
  <2>5. CASE run[p].rebuild = FALSE
    BY <2>1, <2>2, <2>5 DEF SavedInv, More
  <2> QED
    BY <2>3, <2>4, <2>5
<1>5. ASSUME Rebuild(p)
      PROVE  SavedInv(p)'
  <2>1. FreshInv(p) /\ pc[p] = "rebuild" /\ run' = run /\ pc'[p] = "report"
    BY <1>5, Places DEF ProcessInv, AtWork, Rebuild
  <2> QED
    BY <2>1 DEF FreshInv, SavedInv
<1> QED
  BY <1>1, <1>2, <1>3, <1>4, <1>5 DEF Work, StoreSteps, StoreStays

LEMMA SinceStep ==
  ASSUME NEW p \in Process, ArchiveInv, ArchiveType, pc \in [Process -> Place], AtWork(p) =>
         ProcessInv(p), run \in [Process -> Run], Work(p)
  PROVE  AtWork(p)' => run'[p].since <= damages'
<1>1. ASSUME Start(p) \/ GiveUp(p) \/ Refuse(p) \/ Unlock(p) \/ RebuildRefused(p) \/ Abort(p)
      \/ Crash(p)
      PROVE  AtWork(p)' => run'[p].since <= damages'
  BY <1>1, Places DEF AtWork
<1>2. ASSUME Take(p)
      PROVE  AtWork(p)' => run'[p].since <= damages'
  <2>1. damages \in Nat /\ damages' = damages
    BY <1>2 DEF Take, storeRest, ArchiveType
  <2>2. run'[p].since \in {0, damages}
    BY <1>2 DEF Take, Begin, NoRun
  <2> QED
    BY <2>1, <2>2
<1>3. ASSUME WriteFetching(p) \/ BeginWrite(p) \/ SaveCatalog(p)
      PROVE  AtWork(p)' => run'[p].since <= damages'
  <2>1. run[p].since <= damages
    BY <1>3, Places DEF ProcessInv, AtWork
  <2>2. run'[p].since = run[p].since /\ damages' = damages
    BY <1>3, GoesDoes DEF WriteFetching, BeginWrite, SaveCatalog, Run
  <2> QED
    BY <2>1, <2>2
<1>4. ASSUME FetchDump(p) \/ FetchSchedule(p)
      PROVE  AtWork(p)' => run'[p].since <= damages'
  <2>1. run[p].since <= damages
    BY <1>4, Places DEF ProcessInv, AtWork
  <2>2. \E src : run' = [run EXCEPT ![p].src = src]
    BY <1>4 DEF FetchDump, FetchSchedule
  <2>3. run'[p].since = run[p].since
    BY <2>2 DEF Run
  <2>4. damages' = damages
    BY <1>4, GoesDoes DEF FetchDump, FetchSchedule
  <2> QED
    BY <2>1, <2>3, <2>4
<1>5. ASSUME Select(p)
      PROVE  AtWork(p)' => run'[p].since <= damages'
  <2>1. run[p].since <= damages
    BY <1>5, Places DEF ProcessInv, AtWork
  <2>2. run'[p].since = run[p].since /\ damages' = damages
    BY <1>5, GoesDoes, SelectDoes DEF Select
  <2> QED
    BY <2>1, <2>2
<1>6. ASSUME PassOver(p)
      PROVE  AtWork(p)' => run'[p].since <= damages'
  <2>1. run[p].since <= damages
    BY <1>6, Places DEF ProcessInv, AtWork
  <2>2. run'[p].since = run[p].since /\ damages' = damages
    BY <1>6, GoesDoes, PassOverDoes DEF PassOver, GoneOn
  <2> QED
    BY <2>1, <2>2
<1>7. ASSUME ListUnraced(p)
      PROVE  AtWork(p)' => run'[p].since <= damages'
  <2>1. run[p].since <= damages
    BY <1>7, Places DEF ProcessInv, AtWork
  <2>2. GoneOn(p) /\ damages' = damages
    BY <1>7, GoesDoes, ListUnracedDoes DEF ListUnraced, Entered
  <2> QED
    BY <2>1, <2>2 DEF GoneOn
<1>8. ASSUME LockSession(p) \/ Publish(p) \/ MoveAside(p), StoreStays(p)
      PROVE  AtWork(p)' => run'[p].since <= damages'
  <2>1. run[p].since <= damages
    BY <1>8, Places DEF ProcessInv, AtWork
  <2>2. run'[p].since = run[p].since /\ damages' = damages
    BY <1>8, WriteGoesDoes DEF LockSession, Publish, MoveAside, StoreStays
  <2> QED
    BY <2>1, <2>2
<1>9. ASSUME MoveIn(p) \/ Point(p), StoreStays(p)
      PROVE  AtWork(p)' => run'[p].since <= damages'
  <2>1. run[p].since <= damages
    BY <1>9, Places DEF ProcessInv, AtWork
  <2>2. run'[p].since = run[p].since /\ damages' = damages
    BY <1>9, WriteGoesDoes DEF MoveIn, Point, StoreStays
  <2> QED
    BY <2>1, <2>2
<1>10. ASSUME WriteFails(p), StoreStays(p)
      PROVE  AtWork(p)' => run'[p].since <= damages'
  <2>1. run[p].since <= damages
    BY <1>10, Places DEF ProcessInv, AtWork
  <2>2. run'[p].since = run[p].since /\ damages' = damages
    BY <1>10 DEF WriteFails, StoreStays
  <2> QED
    BY <2>1, <2>2
<1>11. ASSUME ReadBack(p)
      PROVE  AtWork(p)' => run'[p].since <= damages'
  <2>1. run[p].since <= damages
    BY <1>11, Places DEF ProcessInv, AtWork
  <2>2. GoneOn(p) /\ damages' = damages
    BY <1>11, GoesDoes, ReadBackDoes DEF ReadBack, Entered
  <2> QED
    BY <2>1, <2>2 DEF GoneOn
<1>12. ASSUME FailRace(p)
      PROVE  AtWork(p)' => run'[p].since <= damages'
  <2>1. run[p].since <= damages
    BY <1>12, Places DEF ProcessInv, AtWork
  <2>2. GoneOn(p) /\ damages' = damages
    BY <1>12, GoesDoes, FailRaceDoes DEF FailRace, Entered
  <2> QED
    BY <2>1, <2>2 DEF GoneOn
<1>13. ASSUME SaveReport(p) \/ Final(p) \/ Rebuild(p)
      PROVE  AtWork(p)' => run'[p].since <= damages'
  <2>1. run[p].since <= damages
    BY <1>13, Places DEF ProcessInv, AtWork
  <2>2. run'[p].since = run[p].since /\ damages' = damages
    BY <1>13, GoesDoes DEF SaveReport, Final, Rebuild, Run
  <2> QED
    BY <2>1, <2>2
<1> QED
  BY <1>1, <1>2, <1>3, <1>4, <1>5, <1>6, <1>7, <1>8, <1>9, <1>10, <1>11, <1>12, <1>13 DEF Work,
     StoreSteps, StoreStays

(* Together. *)
LEMMA OwnStep ==
  ASSUME ArchiveInv, NEW p \in Process, Work(p)
  PROVE  ProcessInv(p)'
<1>1. /\ ArchiveType /\ pc \in [Process -> Place] /\ run \in [Process -> Run]
      /\ write \in [Process -> WriteCall] /\ (AtWork(p) => ProcessInv(p))
  BY DEF ArchiveInv, ArchiveType
<1>2. FreshInv(p)' /\ WriteInv(p)' /\ LoopInv(p)'
  BY <1>1, FreshStep, WriteStep, LoopStep
<1>3. PointInv(p)' /\ DoneInv(p)' /\ SavedInv(p)'
  BY <1>1, PointStep, DoneStep, SavedStep
<1> QED
  BY <1>1, <1>2, <1>3, SinceStep DEF ProcessInv

LEMMA ProcessesKept ==
  ASSUME ArchiveInv, NEW p \in Process, Work(p)
  PROVE  \A q \in Process : ProcessInv(q)'
<1> SUFFICES ASSUME NEW q \in Process PROVE ProcessInv(q)'
  OBVIOUS
<1>1. CASE q = p
  BY <1>1, OwnStep
<1>2. CASE q # p /\ AtWork(q)
  BY <1>2, OthersStandBy, ProcessStays DEF ArchiveInv
<1>3. CASE q # p /\ ~ AtWork(q)
  <2>1. pc'[q] = pc[q]
    BY <1>3, PlacesMove DEF ArchiveInv, ArchiveType
  <2> QED
    BY <1>3, <2>1 DEF ProcessInv, AtWork
<1> QED
  BY <1>1, <1>2, <1>3


(* While nothing went bad, what is there is whole and what is pointed at is *)
(* there.                                                                   *)
LEMMA SoundStore ==
  ASSUME ArchiveInv, damages = 0, NEW s \in Session
  PROVE  /\ Good(s) /\ \A v \in There(s) : v \in Revision /\ Valid(s, v) /\ ManifestReads(s, v)
         /\ active[s] # None => active[s] \in Revision /\ active[s] # Garbled /\ active[s] \in There(s)
<1>1. Good(s)
  BY DEF ArchiveInv, UndamagedInv
<1>2. revisions[s] \subseteq [rev : Revision, is : Condition]
  BY DEF ArchiveInv, ArchiveType
<1>3. ASSUME NEW v \in There(s) PROVE v \in Revision /\ Valid(s, v) /\ ManifestReads(s, v)
  <2>1. PICK x \in revisions[s] : x.rev = v
    BY DEF There
  <2>2. (CHOOSE r \in revisions[s] : r.rev = v) \in revisions[s]
    BY <2>1
  <2>3. StateOf(s, v) = "whole"
    BY <1>1, <2>2 DEF Good, StateOf
  <2> QED
    BY <1>2, <2>1, <2>3 DEF Valid, ManifestReads
<1>4. active[s] # None => active[s] \in There(s)
  BY <1>1 DEF Good
<1> QED
  BY <1>1, <1>3, <1>4, NotNone

Grows(s) ==
    /\ Good(s)' /\ There(s) \subseteq There(s)'
    /\ active[s] # None => active'[s] # None

LEMMA SameGrows ==
  ASSUME ArchiveInv, damages = 0, NEW s \in Session, revisions'[s] = revisions[s],
         active'[s] = active[s]
  PROVE  Grows(s)
<1>1. Good(s)
  BY SoundStore
<1> QED
  BY <1>1 DEF Grows, Good, There

(* Of an archive that is whole nothing that is named goes away. *)
LEMMA StoreGrows ==
  ASSUME NEW p \in Process, ArchiveInv, ArchiveType, pc \in [Process -> Place], damages = 0, Work(p)
  PROVE  \A s \in Session : Grows(s)
<1>1. ASSUME Start(p) \/ Take(p) \/ Crash(p)
      PROVE  \A s \in Session : Grows(s)
  <2>1. revisions' = revisions /\ active' = active
    BY <1>1 DEF Start, Take, Crash, storeRest, store
  <2> QED
    BY <2>1, SameGrows
<1>2. ASSUME GiveUp(p) \/ WriteFetching(p) \/ FetchDump(p)
      PROVE  \A s \in Session : Grows(s)
  <2>1. revisions' = revisions /\ active' = active
    BY <1>2, GoesDoes DEF GiveUp, WriteFetching, FetchDump
  <2> QED
    BY <2>1, SameGrows
<1>3. ASSUME FetchSchedule(p) \/ Select(p) \/ Refuse(p)
      PROVE  \A s \in Session : Grows(s)
  <2>1. revisions' = revisions /\ active' = active
    BY <1>3, GoesDoes DEF FetchSchedule, Select, Refuse
  <2> QED
    BY <2>1, SameGrows
<1>4. ASSUME PassOver(p) \/ ListUnraced(p) \/ BeginWrite(p)
      PROVE  \A s \in Session : Grows(s)
  <2>1. revisions' = revisions /\ active' = active
    BY <1>4, GoesDoes DEF PassOver, ListUnraced, BeginWrite
  <2> QED
    BY <2>1, SameGrows
<1>5. ASSUME LockSession(p), StoreStays(p)
      PROVE  \A s \in Session : Grows(s)
  <2>1. revisions' = revisions /\ active' = active
    BY <1>5 DEF LockSession, StoreStays, store
  <2> QED
    BY <2>1, SameGrows
<1>6. ASSUME Publish(p), StoreStays(p)
      PROVE  \A s \in Session : Grows(s)
  <2>1. PICK t \in Session, v \in Revision : t = write[p].on /\ v = write[p].rev
    BY <1>6, Places, AtRace DEF Writing
  <2>2. active' = active
    BY <1>6 DEF Publish
  <2>3. CASE revisions' = revisions
    BY <2>2, <2>3, SameGrows
  <2>4. CASE Put(t, v, "whole")
    <3>1. /\ There(t) \subseteq There(t)' /\ \A s \in Session : s # t => revisions'[s] = revisions[s]
          /\ \A r \in revisions'[t] : r \in revisions[t] \/ r.is = "whole"
      BY <2>4, PutDoes DEF ArchiveType, Condition
    <3>2. Good(t)
      BY SoundStore
    <3>3. Good(t)'
      BY <2>2, <3>1, <3>2 DEF Good
    <3>4. Grows(t)
      BY <2>2, <3>1, <3>3 DEF Grows
    <3> QED
      BY <2>2, <3>1, <3>4, SameGrows
  <2> QED
    BY <1>6, <2>1, <2>3, <2>4 DEF Publish
<1>7. ASSUME MoveAside(p), StoreStays(p)
      PROVE  \A s \in Session : Grows(s)
  <2>1. write[p].on \in Session /\ pc[p] = "publish"
    BY <1>7, Places, AtRace DEF Writing
  <2>2. FALSE
    BY <1>7, <2>1, SoundStore DEF MoveAside, StoreStays
  <2> QED
    BY <2>2
<1>8. ASSUME MoveIn(p), StoreStays(p)
      PROVE  \A s \in Session : Grows(s)
  <2>1. pc[p] = "move in" /\ AtWork(p)
    BY <1>8, Places, AtRace DEF Writing
  <2>2. GoodWork(p)
    BY DEF ArchiveInv, UndamagedInv
  <2> QED
    BY <2>1, <2>2 DEF GoodWork
<1>9. ASSUME Point(p), StoreStays(p)
      PROVE  \A s \in Session : Grows(s)
  <2>1. PICK t \in Session, v \in Revision : t = write[p].on /\ v = write[p].rev
    BY <1>9, Places, AtRace DEF Writing
  <2>2. revisions' = revisions /\ active' = [active EXCEPT ![t] = v]
    BY <1>9, <2>1 DEF Point
  <2>3. AtWork(p) /\ pc[p] = "point" /\ GoodWork(p)
    BY <1>9, Places, AtRace DEF Writing, ArchiveInv, UndamagedInv
  <2>4. v \in There(t)
    BY <2>1, <2>3 DEF GoodWork
  <2>5. active'[t] = v /\ \A s \in Session : s # t => active'[s] = active[s]
    BY <2>2 DEF ArchiveType
  <2>6. Good(t)
    BY SoundStore
  <2>7. Grows(t)
    BY <2>2, <2>4, <2>5, <2>6, NotNone DEF Grows, Good, There
  <2> QED
    BY <2>2, <2>5, <2>7, SameGrows
<1>10. ASSUME WriteFails(p), StoreStays(p)
      PROVE  \A s \in Session : Grows(s)
  <2>1. AtWork(p) /\ GoodWork(p) /\ (write[p].aside # None => pc[p] = "move in")
    BY <1>10, AtRace DEF WriteFails, Writing, ArchiveInv, UndamagedInv
  <2>2. write[p].aside = None
    BY <2>1 DEF GoodWork
  <2>3. revisions' = revisions /\ active' = active
    BY <1>10, <2>2 DEF WriteFails
  <2> QED
    BY <2>3, SameGrows
<1>11. ASSUME ReadBack(p) \/ FailRace(p) \/ SaveCatalog(p)
      PROVE  \A s \in Session : Grows(s)
  <2>1. revisions' = revisions /\ active' = active
    BY <1>11, GoesDoes DEF ReadBack, FailRace, SaveCatalog
  <2> QED
    BY <2>1, SameGrows
<1>12. ASSUME SaveReport(p) \/ Final(p) \/ Unlock(p)
      PROVE  \A s \in Session : Grows(s)
  <2>1. revisions' = revisions /\ active' = active
    BY <1>12, GoesDoes DEF SaveReport, Final, Unlock
  <2> QED
    BY <2>1, SameGrows
<1>13. ASSUME Rebuild(p) \/ RebuildRefused(p) \/ Abort(p)
      PROVE  \A s \in Session : Grows(s)
  <2>1. revisions' = revisions /\ active' = active
    BY <1>13, GoesDoes DEF Rebuild, RebuildRefused, Abort
  <2> QED
    BY <2>1, SameGrows
<1> QED
  BY <1>1, <1>2, <1>3, <1>4, <1>5, <1>6, <1>7, <1>8, <1>9, <1>10, <1>11, <1>12, <1>13 DEF Work,
     StoreSteps, StoreStays


(* The entries of the catalog have sessions.                                *)
LEMMA EntriesOfSessions ==
  ASSUME ArchiveType
  PROVE  /\ DOMAIN catalog.events \subseteq Session
         /\ \A p \in Process : run[p] \in Run /\ DOMAIN run[p].events \subseteq Session
                               /\ DOMAIN run[p].base.events \subseteq Session
  BY PartialProperties DEF ArchiveType, Entries, Catalogs, Run

LEMMA BackedStays ==
  ASSUME NEW events, DOMAIN events \subseteq Session, Backed(events), \A s \in Session : Grows(s)
  PROVE  Backed(events)'
  BY DEF Backed, Grows

LEMMA CatalogBacked ==
  ASSUME NEW p \in Process, ArchiveInv, ArchiveType, pc \in [Process -> Place], damages = 0,
         \A s \in Session : Grows(s),
         DOMAIN catalog.events \subseteq Session, Backed(catalog.events), Work(p)
  PROVE  Backed(catalog.events)'
<1>1. ASSUME Start(p) \/ Take(p) \/ GiveUp(p)
      PROVE  Backed(catalog.events)'
  <2>1. catalog' = catalog
    BY <1>1 DEF Start, Take, GiveUp, files
  <2> QED
    BY <2>1 DEF Backed, Grows
<1>2. ASSUME WriteFetching(p) \/ FetchDump(p) \/ FetchSchedule(p)
      PROVE  Backed(catalog.events)'
  <2>1. catalog' = catalog
    BY <1>2 DEF WriteFetching, FetchDump, FetchSchedule, files
  <2> QED
    BY <2>1 DEF Backed, Grows
<1>3. ASSUME Select(p) \/ Refuse(p) \/ BeginWrite(p)
      PROVE  Backed(catalog.events)'
  <2>1. catalog' = catalog
    BY <1>3 DEF Select, Refuse, BeginWrite, files
  <2> QED
    BY <2>1 DEF Backed, Grows
<1>4. ASSUME PassOver(p) \/ ListUnraced(p) \/ ReadBack(p)
      PROVE  Backed(catalog.events)'
  <2>1. catalog' = catalog
    BY <1>4 DEF PassOver, ListUnraced, ReadBack, Passed
  <2> QED
    BY <2>1 DEF Backed, Grows
<1>5. ASSUME LockSession(p) \/ Publish(p) \/ MoveAside(p), StoreStays(p)
      PROVE  Backed(catalog.events)'
  <2>1. catalog' = catalog
    BY <1>5 DEF StoreStays, files
  <2> QED
    BY <2>1 DEF Backed, Grows
<1>6. ASSUME MoveIn(p) \/ Point(p) \/ WriteFails(p), StoreStays(p)
      PROVE  Backed(catalog.events)'
  <2>1. catalog' = catalog
    BY <1>6 DEF StoreStays, files
  <2> QED
    BY <2>1 DEF Backed, Grows
<1>7. ASSUME FailRace(p)
      PROVE  Backed(catalog.events)'
  <2>1. catalog' = catalog
    BY <1>7 DEF FailRace, Passed
  <2> QED
    BY <2>1 DEF Backed, Grows
<1>8. ASSUME SaveCatalog(p)
      PROVE  Backed(catalog.events)'
  <2>1. PICK r : r = run[p]
    OBVIOUS
  <2>2. r \in Run /\ DOMAIN r.events \subseteq Session /\ DOMAIN r.base.events \subseteq Session
    BY <2>1, EntriesOfSessions
  <2>3. catalog'.events = Merged(r)
    BY <1>8, <2>1 DEF SaveCatalog
  <2>4. /\ AtWork(p) /\ GoodWork(p) /\ ProcessInv(p) /\ pc[p] \in InLoop
    BY <1>8, Places DEF AtWork, InLoop, ArchiveInv, UndamagedInv
  <2>5. Backed(r.events)
    BY <2>1, <2>4 DEF GoodWork
  <2>6. r.target # None => r.base = catalog
    <3>1. LoopInv(p)
      BY <2>4 DEF ProcessInv
    <3> QED
      BY <2>1, <2>4, <3>1 DEF LoopInv
  <2>7. \A s \in DOMAIN Merged(r) : s \in Session /\ (Merged(r)[s].rev # None => active[s] # None)
    <3>1. CASE r.target = None
      BY <2>2, <2>5, <3>1 DEF Merged, Backed
    <3>2. CASE r.target # None
      <4>1. \A s \in DOMAIN r.base.events : r.base.events[s].rev # None => active[s] # None
        BY <2>6, <3>2 DEF Backed
      <4> QED
        BY <2>2, <2>5, <3>2, <4>1 DEF Merged, Backed
    <3> QED
      BY <3>1, <3>2
  <2> QED
    BY <2>3, <2>7 DEF Backed, Grows
<1>9. ASSUME SaveReport(p) \/ Final(p) \/ Unlock(p)
      PROVE  Backed(catalog.events)'
  <2>1. catalog' = catalog
    BY <1>9 DEF SaveReport, Final, Unlock, files
  <2> QED
    BY <2>1 DEF Backed, Grows
<1>10. ASSUME Rebuild(p)
      PROVE  Backed(catalog.events)'
  <2>1. catalog'.events = Rebuilt
    BY <1>10 DEF Rebuild
  <2>2. \A s \in DOMAIN Rebuilt : s \in Session /\ (Rebuilt[s].rev # None => active[s] # None)
    <3>1. \A s \in DOMAIN Rebuilt : s \in Active \cup DOMAIN catalog.events
      BY DEF Rebuilt
    <3>2. \A s \in Active : s \in Session /\ active[s] # None
      BY DEF Active
    <3>3. \A s \in DOMAIN Rebuilt : s \notin Active => Rebuilt[s] = catalog.events[s]
      BY DEF Rebuilt
    <3> QED
      BY <3>1, <3>2, <3>3, EntriesOfSessions DEF Backed
  <2> QED
    BY <2>1, <2>2 DEF Backed, Grows
<1>11. ASSUME RebuildRefused(p) \/ Abort(p) \/ Crash(p)
      PROVE  Backed(catalog.events)'
  <2>1. catalog' = catalog
    BY <1>11 DEF RebuildRefused, Abort, Crash, files
  <2> QED
    BY <2>1 DEF Backed, Grows
<1> QED
  BY <1>1, <1>2, <1>3, <1>4, <1>5, <1>6, <1>7, <1>8, <1>9, <1>10, <1>11 DEF Work, StoreSteps, StoreStays

(* Nor does what a process at work relies on. *)
LEMMA WorkBacked ==
  ASSUME NEW p \in Process, ArchiveInv, ArchiveType, pc \in [Process -> Place], damages = 0,
         \A s \in Session : Grows(s), Work(p)
  PROVE  GoodWork(p)'
<1>1. ASSUME Start(p) \/ GiveUp(p) \/ Refuse(p) \/ Unlock(p) \/ RebuildRefused(p) \/ Abort(p)
      \/ Crash(p)
      PROVE  GoodWork(p)'
  BY <1>1, Places DEF GoodWork, AtWork
<1>2. ASSUME Take(p)
      PROVE  GoodWork(p)'
  <2>1. DOMAIN run'[p].events = {}
    <3>1. CASE run' = [run EXCEPT ![p] = [NoRun EXCEPT !.rebuild = TRUE]]
      <4>1. run'[p].events = NoRun.events
        BY <3>1, NoRunTyped DEF ArchiveType, Run
      <4> QED
        BY <4>1 DEF NoRun
    <3>2. CASE \E c \in Command :
                  run' = [run EXCEPT ![p] = [NoRun EXCEPT !.target = c.target, !.range = c.range,
                                                          !.upcoming = c.upcoming, !.since = damages]]
      <4>1. run'[p].events = NoRun.events
        BY <3>2, NoRunTyped DEF ArchiveType, Run
      <4> QED
        BY <4>1 DEF NoRun
    <3> QED
      BY <1>2, <3>1, <3>2 DEF Take, Begin
  <2> QED
    BY <1>2, <2>1, Places DEF GoodWork, Backed
<1>3. ASSUME WriteFetching(p) \/ BeginWrite(p) \/ SaveCatalog(p)
      PROVE  GoodWork(p)'
  <2>1. AtWork(p) /\ GoodWork(p) /\ run' = run
    BY <1>3, Places DEF WriteFetching, BeginWrite, SaveCatalog, AtWork, ArchiveInv, UndamagedInv
  <2>2. Backed(run[p].events)'
    BY <2>1, EntriesOfSessions DEF GoodWork, Backed, Grows
  <2> QED
    BY <1>3, <2>2, Places DEF GoodWork
<1>4. ASSUME FetchDump(p)
      PROVE  GoodWork(p)'
  <2>1. AtWork(p) /\ GoodWork(p)
    BY <1>4, Places DEF AtWork, ArchiveInv, UndamagedInv
  <2>2. run'[p].events = run[p].events
    <3>1. \E src : run' = [run EXCEPT ![p].src = src]
      BY <1>4 DEF FetchDump
    <3>2. run \in [Process -> Run]
      BY DEF ArchiveType
    <3> QED
      BY <3>1, <3>2 DEF Run
  <2>3. Backed(run[p].events)'
    BY <2>1, <2>2, EntriesOfSessions DEF GoodWork, Backed, Grows
  <2> QED
    BY <1>4, <2>3, Places DEF GoodWork
<1>5. ASSUME FetchSchedule(p)
      PROVE  GoodWork(p)'
  <2>1. AtWork(p) /\ GoodWork(p)
    BY <1>5, Places DEF AtWork, ArchiveInv, UndamagedInv
  <2>2. run'[p].events = run[p].events
    <3>1. \E src : run' = [run EXCEPT ![p].src = src]
      BY <1>5 DEF FetchSchedule
    <3>2. run \in [Process -> Run]
      BY DEF ArchiveType
    <3> QED
      BY <3>1, <3>2 DEF Run
  <2>3. Backed(run[p].events)'
    BY <2>1, <2>2, EntriesOfSessions DEF GoodWork, Backed, Grows
  <2> QED
    BY <1>5, <2>3, Places DEF GoodWork
<1>6. ASSUME Select(p)
      PROVE  GoodWork(p)'
  <2>1. AtWork(p) /\ GoodWork(p)
    BY <1>6, Places DEF AtWork, ArchiveInv, UndamagedInv
  <2>2. run'[p].events = run[p].events
    BY <1>6, SelectDoes DEF ArchiveType
  <2>3. Backed(run[p].events)'
    BY <2>1, <2>2, EntriesOfSessions DEF GoodWork, Backed, Grows
  <2> QED
    BY <1>6, <2>3, Places DEF GoodWork
<1>7. ASSUME PassOver(p)
      PROVE  GoodWork(p)'
  <2>1. AtWork(p) /\ GoodWork(p)
    BY <1>7, Places DEF AtWork, ArchiveInv, UndamagedInv
  <2>2. run'[p].events = run[p].events
    BY <1>7, PassOverDoes
  <2>3. Backed(run[p].events)'
    BY <2>1, <2>2, EntriesOfSessions DEF GoodWork, Backed, Grows
  <2> QED
    BY <1>7, <2>3, Places DEF GoodWork
<1>8. ASSUME ListUnraced(p)
      PROVE  GoodWork(p)'
  <2>1. AtWork(p) /\ GoodWork(p)
    BY <1>8, Places DEF AtWork, ArchiveInv, UndamagedInv
  <2>2. Backed(run[p].events) /\ DOMAIN run[p].events \subseteq Session
    BY <2>1, EntriesOfSessions DEF GoodWork
  <2>3. PICK event, failed : Entered(p, event, failed) /\ (event.rev # None => active[Here(p)] # None)
    BY <1>8, ListUnracedDoes
  <2>4. PICK h, events : h = Here(p) /\ events = run'[p].events
    OBVIOUS
  <2>5. /\ h \in Session /\ DOMAIN events = DOMAIN run[p].events \cup {h} /\ events[h] = event
        /\ \A s \in DOMAIN run[p].events : s # h => events[s] = run[p].events[s]
    BY <2>3, <2>4 DEF Entered, GoneOn
  <2>6. \A s \in DOMAIN events : events[s].rev # None => s \in Session /\ active[s] # None
    BY <2>2, <2>3, <2>4, <2>5 DEF Backed
  <2>7. Backed(run[p].events)'
    BY <2>4, <2>6 DEF Backed, Grows
  <2> QED
    BY <1>8, <2>7, Places DEF GoodWork
<1>9. ASSUME LockSession(p) \/ Point(p) \/ WriteFails(p), StoreStays(p)
      PROVE  GoodWork(p)'
  <2>1. AtWork(p) /\ GoodWork(p) /\ run' = run
    BY <1>9, Places DEF StoreStays, AtWork, ArchiveInv, UndamagedInv
  <2>2. Backed(run[p].events)'
    BY <2>1, EntriesOfSessions DEF GoodWork, Backed, Grows
  <2> QED
    BY <1>9, <2>2, Places DEF GoodWork
<1>10. ASSUME Publish(p), StoreStays(p)
      PROVE  GoodWork(p)'
  <2>1. AtWork(p) /\ GoodWork(p) /\ run' = run /\ write' = write /\ pc'[p] = "point"
    BY <1>10, Places DEF Publish, StoreStays, AtWork, ArchiveInv, UndamagedInv
  <2>2. Backed(run[p].events)'
    BY <2>1, EntriesOfSessions DEF GoodWork, Backed, Grows
  <2>3. PICK t \in Session, v \in Revision : t = write[p].on /\ v = write[p].rev
    BY <1>10, Places, AtRace DEF Writing
  <2>4. v \in There(t)'
    <3>1. CASE Put(t, v, "whole")
      BY <3>1, PutDoes DEF ArchiveType, Condition
    <3>2. CASE v \in There(t) /\ revisions' = revisions
      BY <3>2 DEF There
    <3> QED
      BY <1>10, <2>3, <3>1, <3>2 DEF Publish, Valid
  <2> QED
    BY <2>1, <2>2, <2>3, <2>4 DEF GoodWork, There
<1>11. ASSUME MoveAside(p), StoreStays(p)
      PROVE  GoodWork(p)'
  <2>1. write[p].on \in Session /\ pc[p] = "publish"
    BY <1>11, Places, AtRace DEF Writing
  <2>2. FALSE
    BY <1>11, <2>1, SoundStore DEF MoveAside, StoreStays
  <2> QED
    BY <2>2
<1>12. ASSUME MoveIn(p), StoreStays(p)
      PROVE  GoodWork(p)'
  <2>1. pc[p] = "move in" /\ AtWork(p)
    BY <1>12, Places, AtRace DEF Writing
  <2>2. GoodWork(p)
    BY DEF ArchiveInv, UndamagedInv
  <2> QED
    BY <2>1, <2>2 DEF GoodWork
<1>13. ASSUME ReadBack(p)
      PROVE  GoodWork(p)'
  <2>1. AtWork(p) /\ GoodWork(p)
    BY <1>13, Places DEF AtWork, ArchiveInv, UndamagedInv
  <2>2. Backed(run[p].events) /\ DOMAIN run[p].events \subseteq Session
    BY <2>1, EntriesOfSessions DEF GoodWork
  <2>3. PICK event, failed : Entered(p, event, failed) /\ (event.rev # None => active[Here(p)] # None)
    BY <1>13, ReadBackDoes, NotNone DEF Published
  <2>4. PICK h, events : h = Here(p) /\ events = run'[p].events
    OBVIOUS
  <2>5. /\ h \in Session /\ DOMAIN events = DOMAIN run[p].events \cup {h} /\ events[h] = event
        /\ \A s \in DOMAIN run[p].events : s # h => events[s] = run[p].events[s]
    BY <2>3, <2>4 DEF Entered, GoneOn
  <2>6. \A s \in DOMAIN events : events[s].rev # None => s \in Session /\ active[s] # None
    BY <2>2, <2>3, <2>4, <2>5 DEF Backed
  <2>7. Backed(run[p].events)'
    BY <2>4, <2>6 DEF Backed, Grows
  <2> QED
    BY <1>13, <2>7, Places DEF GoodWork
<1>14. ASSUME FailRace(p)
      PROVE  GoodWork(p)'
  <2>1. AtWork(p) /\ GoodWork(p)
    BY <1>14, Places DEF AtWork, ArchiveInv, UndamagedInv
  <2>2. Backed(run[p].events) /\ DOMAIN run[p].events \subseteq Session
    BY <2>1, EntriesOfSessions DEF GoodWork
  <2>3. PICK event, failed : Entered(p, event, failed) /\ (event.rev # None => active[Here(p)] # None)
    BY <1>14, FailRaceDoes
  <2>4. PICK h, events : h = Here(p) /\ events = run'[p].events
    OBVIOUS
  <2>5. /\ h \in Session /\ DOMAIN events = DOMAIN run[p].events \cup {h} /\ events[h] = event
        /\ \A s \in DOMAIN run[p].events : s # h => events[s] = run[p].events[s]
    BY <2>3, <2>4 DEF Entered, GoneOn
  <2>6. \A s \in DOMAIN events : events[s].rev # None => s \in Session /\ active[s] # None
    BY <2>2, <2>3, <2>4, <2>5 DEF Backed
  <2>7. Backed(run[p].events)'
    BY <2>4, <2>6 DEF Backed, Grows
  <2> QED
    BY <1>14, <2>7, Places DEF GoodWork
<1>15. ASSUME SaveReport(p) \/ Final(p) \/ Rebuild(p)
      PROVE  GoodWork(p)'
  <2>1. AtWork(p) /\ GoodWork(p) /\ run' = run
    BY <1>15, Places DEF SaveReport, Final, Rebuild, AtWork, ArchiveInv, UndamagedInv
  <2>2. Backed(run[p].events)'
    BY <2>1, EntriesOfSessions DEF GoodWork, Backed, Grows
  <2> QED
    BY <1>15, <2>2, Places DEF GoodWork
<1> QED
  BY <1>1, <1>2, <1>3, <1>4, <1>5, <1>6, <1>7, <1>8, <1>9, <1>10, <1>11, <1>12, <1>13, <1>14,
     <1>15 DEF Work, StoreSteps, StoreStays


LEMMA UndamagedStep ==
  ASSUME ArchiveInv, ArchiveType', SlotInv', NEW p \in Process, Work(p)
  PROVE  UndamagedInv'
<1> SUFFICES ASSUME damages' = 0
             PROVE  /\ Backed(catalog.events)' /\ \A s \in Session : Good(s)'
                    /\ \A q \in Process : GoodWork(q)'
                    /\ \A r \in Reader : GoodRead(r)'
  BY DEF UndamagedInv
<1>1. ArchiveType /\ pc \in [Process -> Place] /\ reader' = reader /\ damages = 0
  BY PointersTyped DEF ArchiveInv, ArchiveType
<1>2. \A s \in Session : Grows(s)
  BY <1>1, StoreGrows
<1>3. Backed(catalog.events)' /\ \A s \in Session : Good(s)'
  BY <1>1, <1>2, CatalogBacked, EntriesOfSessions DEF ArchiveInv, UndamagedInv, Grows
<1>4. ASSUME NEW q \in Process PROVE GoodWork(q)'
  <2>1. CASE q = p
    BY <1>1, <1>2, <2>1, WorkBacked
  <2>2. CASE q # p /\ AtWork(q)
    <3>1. GoodWork(q)
      BY <1>1 DEF ArchiveInv, UndamagedInv
    <3> QED
      BY <2>2, <3>1, OthersStandBy DEF GoodWork, Backed, AtWork, There
  <2>3. CASE q # p /\ ~ AtWork(q)
    BY <1>1, <2>3, PlacesMove DEF GoodWork, AtWork
  <2> QED
    BY <2>1, <2>2, <2>3
<1>5. ASSUME NEW r \in Reader PROVE GoodRead(r)'
  <2>1. GoodRead(r) /\ reader[r] \in ReadCall
    BY <1>1 DEF ArchiveInv, UndamagedInv, ArchiveType
  <2>2. CASE reader[r].at \in {"pointer", "manifest", "table"}
    <3>1. PICK s \in Session : s = reader[r].on
      BY <1>1, <2>1, <2>2 DEF ArchiveType, ReadCall
    <3>2. Grows(s)
      BY <1>2
    <3> QED
      BY <1>1, <2>1, <3>1, <3>2 DEF GoodRead, Grows, There
  <2>3. CASE reader[r].at \notin {"pointer", "manifest", "table"}
    BY <1>1, <2>1, <2>3 DEF GoodRead
  <2> QED
    BY <2>2, <2>3
<1> QED
  BY <1>3, <1>4, <1>5

LEMMA WorkKeeps ==
  ASSUME ArchiveInv, NEW p \in Process, Work(p)
  PROVE  ArchiveInv'
  BY StepTyped, SlotKept, ProcessesKept, UndamagedStep DEF ArchiveInv

(* What only the world or a reader does leaves the rest as it was. *)
LEMMA OthersSame ==
  ASSUME ArchiveInv,
         revisions' = revisions, active' = active, damages' = damages, catalog' = catalog,
         run' = run, write' = write, pc' = pc, slotted' = slotted
  PROVE  /\ SlotInv' /\ \A p \in Process : ProcessInv(p)'
         /\ damages = 0 =>
              /\ Backed(catalog.events)' /\ \A s \in Session : Good(s)'
              /\ \A p \in Process : GoodWork(p)'
<1>1. SlotInv'
  BY DEF ArchiveInv, SlotInv, AtWork
<1>2. \A p \in Process : ProcessInv(p)'
  BY ProcessStays DEF ArchiveInv
<1>3. ASSUME damages = 0
      PROVE  /\ Backed(catalog.events)' /\ \A s \in Session : Good(s)'
             /\ \A p \in Process : GoodWork(p)'
  <2>1. /\ Backed(catalog.events) /\ \A s \in Session : Good(s)
        /\ \A p \in Process : GoodWork(p)
    BY <1>3 DEF ArchiveInv, UndamagedInv
  <2>2. Backed(catalog.events)' /\ \A s \in Session : Good(s)'
    BY <2>1 DEF Backed, Good, There
  <2> QED
    BY <2>1, <2>2 DEF GoodWork, Backed, AtWork, There
<1> QED
  BY <1>1, <1>2, <1>3

LEMMA SameKeeps ==
  ASSUME ArchiveInv, ArchiveType',
         revisions' = revisions, active' = active, damages' = damages, catalog' = catalog,
         run' = run, write' = write, pc' = pc, slotted' = slotted, reader' = reader
  PROVE  ArchiveInv'
<1>1. damages = 0 => \A r \in Reader : GoodRead(r)'
  BY DEF ArchiveInv, UndamagedInv, GoodRead, There
<1> QED
  BY <1>1, OthersSame DEF ArchiveInv, UndamagedInv

(* A request changes only where it is itself. *)
LEMMA RequestKeeps ==
  ASSUME ArchiveInv, NEW r \in Reader, Request(r)
  PROVE  ArchiveInv'
<1>1. /\ revisions' = revisions /\ active' = active /\ damages' = damages /\ catalog' = catalog
      /\ run' = run /\ write' = write /\ pc' = pc /\ slotted' = slotted /\ slock' = slock
      /\ truth' = truth /\ dump' = dump /\ detailed' = detailed
  BY DEF Request, Open, ReadPointer, ReadManifest, ReadTable, Answered, ReadGoes, store, world, files
<1>2. ArchiveType /\ reader \in [Reader -> ReadCall] /\ reader[r] \in ReadCall
  BY DEF ArchiveInv, ArchiveType
<1>3. PICK to \in ReadCall :
          /\ reader' = [reader EXCEPT ![r] = to]
          /\ to.at \in {"pointer", "manifest", "table"} => to.on # None
          /\ damages = 0 =>
              /\ to.at # "unreadable"
              /\ to.at = "pointer" => active[to.on] # None
              /\ to.at \in {"manifest", "table"} => to.pointer \in There(to.on)
  <2>1. damages = 0 => GoodRead(r)
    BY DEF ArchiveInv, UndamagedInv
  <2>2. NoRead \in ReadCall /\ NoRead.at = "idle"
    BY DEF NoRead, ReadCall
  <2>3. Unreadable(r) \in ReadCall /\ Unreadable(r).at = "unreadable"
    BY <1>2 DEF Unreadable, ReadCall
  <2>4. CASE Open(r)
    <3>1. PICK s \in DOMAIN catalog.events :
             /\ catalog.events[s].rev # None
             /\ reader' = [reader EXCEPT ![r] = [NoRead EXCEPT !.at = "pointer", !.on = s]]
      BY <2>4 DEF Open
    <3>2. s \in Session /\ s # None
      BY <1>2, EntriesOfSessions, NotNone
    <3>3. damages = 0 => active[s] # None
      BY <3>1 DEF ArchiveInv, UndamagedInv, Backed
    <3>4. PICK to : to = [NoRead EXCEPT !.at = "pointer", !.on = s]
      OBVIOUS
    <3>5. to \in ReadCall /\ to.at = "pointer" /\ to.on = s
      BY <2>2, <3>2, <3>4 DEF ReadCall
    <3> QED
      BY <3>1, <3>2, <3>3, <3>4, <3>5
  <2>5. CASE ReadPointer(r)
    <3>1. PICK s \in Session : s = reader[r].on /\ reader[r].at = "pointer"
      BY <1>2, <2>5 DEF ReadPointer, ReadGoes, ReadCall, ArchiveType
    <3>2. damages = 0 => active[s] \in Revision /\ active[s] \notin {None, Garbled}
                         /\ active[s] \in There(s)
      BY <2>1, <3>1, SoundStore, NotNone DEF GoodRead
    <3>3. CASE active[s] \in {None, Garbled}
      <4>1. reader' = [reader EXCEPT ![r] = Unreadable(r)]
        BY <2>5, <3>1, <3>3 DEF ReadPointer, ReadGoes
      <4> QED
        BY <2>3, <3>2, <3>3, <4>1
    <3>4. CASE active[s] \notin {None, Garbled}
      <4>1. PICK to : to = [reader[r] EXCEPT !.at = "manifest", !.pointer = active[s]]
        OBVIOUS
      <4>2. reader' = [reader EXCEPT ![r] = to]
        BY <2>5, <3>1, <3>4, <4>1 DEF ReadPointer, ReadGoes
      <4>3. to.at = "manifest" /\ to.pointer = active[s] /\ to.on = s
        BY <1>2, <3>1, <4>1 DEF ReadCall
      <4>4. to \in ReadCall
        BY <1>2, <3>4, <4>1 DEF ReadCall, ArchiveType
      <4> QED
        BY <3>1, <3>2, <4>2, <4>3, <4>4, NotNone
    <3> QED
      BY <3>3, <3>4
  <2>6. CASE ReadManifest(r)
    <3>1. CASE ManifestReads(reader[r].on, reader[r].pointer)
      <4>1. PICK to : to = [reader[r] EXCEPT !.at = "table"]
        OBVIOUS
      <4>2. reader' = [reader EXCEPT ![r] = to] /\ reader[r].at = "manifest"
        BY <2>6, <3>1, <4>1 DEF ReadManifest, ReadGoes
      <4>3. to.at = "table" /\ to.pointer = reader[r].pointer /\ to.on = reader[r].on
            /\ to \in ReadCall /\ to.on # None
        BY <1>2, <4>1, <4>2 DEF ReadCall, ArchiveType
      <4> QED
        BY <2>1, <4>2, <4>3 DEF GoodRead
    <3>2. CASE ~ ManifestReads(reader[r].on, reader[r].pointer)
      <4>1. reader' = [reader EXCEPT ![r] = Unreadable(r)] /\ reader[r].at = "manifest"
        BY <2>6, <3>2 DEF ReadManifest, ReadGoes
      <4>2. damages # 0
        BY <1>2, <2>1, <3>2, <4>1, SoundStore DEF GoodRead, ReadCall, ArchiveType
      <4> QED
        BY <2>3, <4>1, <4>2
    <3> QED
      BY <3>1, <3>2
  <2>7. CASE ReadTable(r)
    <3>1. CASE Valid(reader[r].on, reader[r].pointer)
      <4>1. reader' = [reader EXCEPT ![r] = NoRead]
        BY <2>7, <3>1 DEF ReadTable, ReadGoes
      <4> QED
        BY <2>2, <4>1
    <3>2. CASE ~ Valid(reader[r].on, reader[r].pointer)
      <4>1. reader' = [reader EXCEPT ![r] = Unreadable(r)] /\ reader[r].at = "table"
        BY <2>7, <3>2 DEF ReadTable, ReadGoes
      <4>2. damages # 0
        BY <1>2, <2>1, <3>2, <4>1, SoundStore DEF GoodRead, ReadCall, ArchiveType
      <4> QED
        BY <2>3, <4>1, <4>2
    <3> QED
      BY <3>1, <3>2
  <2>8. CASE Answered(r)
    BY <2>2, <2>8 DEF Answered, ReadGoes
  <2> QED
    BY <2>4, <2>5, <2>6, <2>7, <2>8 DEF Request
<1>4. ArchiveType'
  <2>1. reader' \in [Reader -> ReadCall]
    BY <1>2, <1>3
  <2>2. ASSUME NEW q \in Reader, reader'[q].at \in {"pointer", "manifest", "table"}
        PROVE  reader'[q].on # None
    BY <1>2, <1>3, <2>2 DEF ArchiveType
  <2> QED
    BY <1>1, <1>2, <2>1, <2>2 DEF ArchiveType
<1>5. /\ SlotInv' /\ \A p \in Process : ProcessInv(p)'
      /\ damages = 0 =>
           /\ Backed(catalog.events)' /\ \A s \in Session : Good(s)'
           /\ \A p \in Process : GoodWork(p)'
  BY <1>1, OthersSame
<1>6. UndamagedInv'
  <2> SUFFICES ASSUME damages = 0 PROVE \A q \in Reader : GoodRead(q)'
    BY <1>1, <1>5 DEF UndamagedInv
  <2>1. \A q \in Reader : GoodRead(q)
    BY DEF ArchiveInv, UndamagedInv
  <2>2. ASSUME NEW q \in Reader PROVE GoodRead(q)'
    <3>1. CASE q = r
      <4>1. reader'[r] = to
        BY <1>2, <1>3
      <4> QED
        BY <1>1, <1>3, <3>1, <4>1 DEF GoodRead, There
    <3>2. CASE q # r
      <4>1. reader'[q] = reader[q] /\ GoodRead(q)
        BY <1>2, <1>3, <2>1, <3>2
      <4> QED
        BY <1>1, <4>1 DEF GoodRead, There
    <3> QED
      BY <3>1, <3>2
  <2> QED
    BY <2>2
<1> QED
  BY <1>4, <1>5, <1>6 DEF ArchiveInv


(* A file that goes bad makes every claim about whole revisions void.       *)
LEMMA DamageKeeps ==
  ASSUME ArchiveInv, NEW s \in Session, Damage(s),
         UNCHANGED <<world, slotted, run, files, runs, crashes>>
  PROVE  ArchiveInv'
<1>1. /\ damages' = damages + 1 /\ damages \in Nat /\ ArchiveType
      /\ run' = run /\ write' = write /\ pc' = pc /\ slotted' = slotted /\ slock' = slock
      /\ truth' = truth /\ dump' = dump /\ detailed' = detailed /\ catalog' = catalog
      /\ reader' = reader
  BY DEF Damage, world, files, ArchiveInv, ArchiveType
<1>2. \/ active' = active /\ \E x \in revisions[s], is \in {"tables", "manifest"} : Put(s, x.rev, is)
      \/ revisions' = revisions /\ active' = [active EXCEPT ![s] = Garbled]
  BY DEF Damage
<1>3. revisions' \in [Session -> SUBSET [rev : Revision, is : Condition]]
  <2>1. CASE revisions' = revisions
    BY <1>1, <2>1 DEF ArchiveType
  <2>2. ASSUME NEW x \in revisions[s], NEW is \in {"tables", "manifest"}, Put(s, x.rev, is)
        PROVE  revisions' \in [Session -> SUBSET [rev : Revision, is : Condition]]
    <3>1. revisions \in [Session -> SUBSET [rev : Revision, is : Condition]] /\ is \in Condition
      BY <1>1 DEF ArchiveType, Condition
    <3>2. PICK v \in Revision : v = x.rev
      BY <3>1
    <3> QED
      BY <2>2, <3>1, <3>2, PutDoes
  <2> QED
    BY <1>2, <2>1, <2>2
<1>4. \A t \in Session : active'[t] \in {active[t], Garbled}
  BY <1>1, <1>2 DEF ArchiveType
<1>5. active' \in [Session -> Revision \cup {None, Garbled}]
  BY <1>1, <1>2 DEF ArchiveType
<1>6. ArchiveType'
  BY <1>1, <1>3, <1>5 DEF ArchiveType
<1>7. SlotInv'
  BY <1>1 DEF ArchiveInv, SlotInv, AtWork
<1>8. ASSUME NEW p \in Process PROVE ProcessInv(p)'
  <2> SUFFICES ASSUME AtWork(p) PROVE ProcessInv(p)'
    BY <1>1 DEF ProcessInv, AtWork
  <2>1. /\ run[p].since <= damages /\ FreshInv(p) /\ WriteInv(p) /\ LoopInv(p) /\ PointInv(p)
        /\ DoneInv(p) /\ SavedInv(p)
    BY DEF ArchiveInv, ProcessInv
  <2>2. run[p] \in Run /\ run[p].since \in Nat
    BY <1>1 DEF ArchiveType, Run
  <2>3. damages' # run[p].since /\ run[p].since <= damages'
    BY <1>1, <2>1, <2>2
  <2>4. FreshInv(p)' /\ WriteInv(p)'
    BY <1>1, <2>1 DEF FreshInv, WriteInv, More, Here
  <2>5. LoopInv(p)' /\ SavedInv(p)'
    BY <1>1, <2>1 DEF LoopInv, SavedInv, More
  <2>6. ASSUME NEW t \in Session, NEW v, Intact(t, v, run[p].since) PROVE active'[t] \in {v, Garbled}
    BY <1>4, <2>6 DEF Intact
  <2>7. PointInv(p)'
    <3>1. pc[p] \in {"point", "read back"} => write[p].on \in Session
      BY AtRace DEF Writing
    <3>2. pc[p] = "read back" => active'[write[p].on] \in {write[p].rev, Garbled}
      BY <2>1, <2>6, <3>1 DEF PointInv
    <3> QED
      BY <1>1, <2>3, <3>2 DEF PointInv, Intact
  <2>8. DoneInv(p)'
    <3>1. ASSUME Done(run[p]) PROVE Done(run[p])'
      <4>1. PICK r : r = run[p] /\ r' = run[p]
        BY DEF Done
      <4>2. ASSUME NEW t \in Behind(r), Stands(r, t) PROVE Stands(r, t)'
        <5>1. t \in Session
          BY <4>1, <4>2, EntriesOfSessions, <1>1 DEF Stands
        <5>2. active'[t] \in {r.events[t].rev, Garbled} /\ damages' # r.since
          BY <2>3, <2>6, <4>1, <4>2, <5>1 DEF Stands
        <5> QED
          BY <4>2, <5>2 DEF Stands, Intact
      <4>3. Done(r)'
        BY <3>1, <4>1, <4>2 DEF Done, Behind
      <4> QED
        BY <1>1, <4>1, <4>3 DEF Done, Behind, Stands, Intact
    <3> QED
      BY <1>1, <2>1, <3>1 DEF DoneInv
  <2> QED
    BY <1>1, <2>3, <2>4, <2>5, <2>7, <2>8 DEF ProcessInv
<1>9. UndamagedInv'
  BY <1>1 DEF UndamagedInv
<1> QED
  BY <1>6, <1>7, <1>8, <1>9 DEF ArchiveInv

LEMMA WorldKeeps ==
  ASSUME ArchiveInv, WorldMoves
  PROVE  ArchiveInv'
<1>1. /\ revisions' = revisions /\ active' = active /\ damages' = damages /\ catalog' = catalog
      /\ run' = run /\ write' = write /\ pc' = pc /\ slotted' = slotted /\ slock' = slock
      /\ reader' = reader
  BY DEF WorldMoves, storeVars, store, files
<1>2. /\ truth' \in [Session -> Status] /\ dump' \in [no : Nat, says : [Session -> Status]]
      /\ detailed' \subseteq Session
  <2>1. /\ truth \in [Session -> Status] /\ dump \in [no : Nat, says : [Session -> Status]]
        /\ detailed \subseteq Session
    BY DEF ArchiveInv, ArchiveType
  <2>2. CASE \E s \in Session, is \in Status : truth' = [truth EXCEPT ![s] = is]
        /\ UNCHANGED <<dump, detailed>>
    BY <2>1, <2>2
  <2>3. CASE dump' = [no |-> dump.no + 1, says |-> truth] /\ UNCHANGED <<truth, detailed>>
    BY <2>1, <2>3
  <2>4. CASE \E s \in Session : detailed' = detailed \cup {s} /\ UNCHANGED <<truth, dump>>
    BY <2>1, <2>4
  <2> QED
    BY <2>2, <2>3, <2>4 DEF WorldMoves
<1>3. ArchiveType'
  BY <1>1, <1>2 DEF ArchiveInv, ArchiveType
<1> QED
  BY <1>1, <1>3, SameKeeps

(* The invariant. *)
LEMMA InitHolds ==
  ASSUME Init
  PROVE  ArchiveInv
<1>1. ArchiveType
  <2>1. /\ revisions \in [Session -> SUBSET [rev : Revision, is : Condition]]
        /\ active \in [Session -> Revision \cup {None, Garbled}]
        /\ slock \in [Session -> Process \cup {None}] /\ damages \in Nat /\ detailed \subseteq Session
    BY DEF Init, StoreInit
  <2>2. pc \in [Process -> Place]
    BY DEF Init, Place
  <2>3. write \in [Process -> WriteCall]
    BY DEF Init, StoreInit, NoWrite, WriteCall
  <2>4. reader \in [Reader -> ReadCall] /\ \A r \in Reader : reader[r].at = "idle"
    BY DEF Init, StoreInit, NoRead, ReadCall
  <2>5. truth \in [Session -> Status]
    BY DEF Init, Status
  <2>6. dump \in [no : Nat, says : [Session -> Status]]
    BY <2>5 DEF Init
  <2>7. run \in [Process -> Run] /\ catalog \in Catalogs
    BY NoRunTyped DEF Init
  <2> QED
    BY <2>1, <2>2, <2>3, <2>4, <2>5, <2>6, <2>7 DEF ArchiveType
<1>2. \A p \in Process : ~ AtWork(p)
  BY DEF Init, AtWork
<1>3. SlotInv /\ \A p \in Process : ProcessInv(p)
  BY <1>2 DEF SlotInv, ProcessInv
<1>4. UndamagedInv
  <2>1. DOMAIN catalog.events = {}
    BY DEF Init, NoCatalog
  <2>2. \A s \in Session : Good(s)
    BY DEF Init, StoreInit, Good
  <2>3. \A p \in Process : GoodWork(p)
    BY <1>2 DEF GoodWork
  <2>4. \A r \in Reader : GoodRead(r)
    BY DEF Init, StoreInit, NoRead, GoodRead
  <2> QED
    BY <2>1, <2>2, <2>3, <2>4 DEF UndamagedInv, Backed
<1> QED
  BY <1>1, <1>3, <1>4 DEF ArchiveInv

LEMMA NextKeeps ==
  ASSUME ArchiveInv, [Next]_vars
  PROVE  ArchiveInv'
<1>1. CASE \E p \in Process : Work(p)
  BY <1>1, WorkKeeps
<1>2. CASE \E r \in Reader : Request(r)
  BY <1>2, RequestKeeps
<1>3. CASE \E s \in Session : Damage(s) /\ UNCHANGED <<world, slotted, run, files, runs, crashes>>
  BY <1>3, DamageKeeps
<1>4. CASE WorldMoves
  BY <1>4, WorldKeeps
<1>5. CASE UNCHANGED vars
  <2>1. /\ revisions' = revisions /\ active' = active /\ damages' = damages /\ catalog' = catalog
        /\ run' = run /\ write' = write /\ pc' = pc /\ slotted' = slotted /\ reader' = reader
        /\ slock' = slock /\ truth' = truth /\ dump' = dump /\ detailed' = detailed
    BY <1>5 DEF vars, storeVars, store, world, files
  <2>2. ArchiveType'
    BY <2>1 DEF ArchiveInv, ArchiveType
  <2> QED
    BY <2>1, <2>2, SameKeeps
<1> QED
  BY <1>1, <1>2, <1>3, <1>4, <1>5 DEF Next

LEMMA ArchiveInvariant == Spec => []ArchiveInv
<1>1. Init => ArchiveInv
  BY InitHolds
<1>2. ArchiveInv /\ [Next]_vars => ArchiveInv'
  BY NextKeeps
<1> QED
  BY <1>1, <1>2, PTL DEF Spec

(* A process that is somewhere else was on its way there. *)
LEMMA Mover ==
  ASSUME ArchiveInv, Next, NEW p \in Process, pc'[p] # pc[p]
  PROVE  Work(p)
<1>1. PICK q \in Process : Work(q)
  <2>1. ASSUME NEW r \in Reader, Request(r) PROVE pc' = pc
    BY <2>1 DEF Request, Open, ReadPointer, ReadManifest, ReadTable, Answered, ReadGoes
  <2>2. ASSUME NEW s \in Session, Damage(s) PROVE pc' = pc
    BY <2>2 DEF Damage
  <2>3. WorldMoves => pc' = pc
    BY DEF WorldMoves, storeVars
  <2> QED
    BY <2>1, <2>2, <2>3 DEF Next
<1>2. q = p
  BY <1>1, PlacesMove DEF ArchiveInv, ArchiveType
<1> QED
  BY <1>1, <1>2

LEMMA Savers ==
  ASSUME ArchiveInv, Next, NEW p \in Process
  PROVE  /\ pc[p] = "races" /\ pc'[p] = "report" => SaveCatalog(p)
         /\ pc[p] = "final" /\ pc'[p] = "unlock" => Final(p)
<1>1. pc \in [Process -> Place]
  BY DEF ArchiveInv, ArchiveType
<1>2. CASE pc[p] = "races" /\ pc'[p] = "report"
  <2>1. Work(p)
    BY <1>2, Mover
  <2>2. ~ StoreSteps(p)
    BY <1>1, <1>2, Places DEF StoreSteps
  <2>3. ~ (Start(p) \/ Take(p) \/ GiveUp(p) \/ WriteFetching(p) \/ FetchDump(p)
        \/ FetchSchedule(p) \/ Select(p))
    BY <1>1, <1>2, Places
  <2>4. ~ (Refuse(p) \/ PassOver(p) \/ ListUnraced(p) \/ BeginWrite(p) \/ ReadBack(p) \/ FailRace(p))
    BY <1>1, <1>2, Places
  <2>5. ~ (SaveReport(p) \/ Final(p) \/ Unlock(p) \/ Rebuild(p) \/ RebuildRefused(p) \/ Abort(p)
        \/ Crash(p))
    BY <1>1, <1>2, Places
  <2> QED
    BY <1>2, <2>1, <2>2, <2>3, <2>4, <2>5 DEF Work
<1>3. CASE pc[p] = "final" /\ pc'[p] = "unlock"
  <2>1. Work(p)
    BY <1>3, Mover
  <2>2. ~ StoreSteps(p)
    BY <1>1, <1>3, Places DEF StoreSteps
  <2>3. ~ (Start(p) \/ Take(p) \/ GiveUp(p) \/ WriteFetching(p) \/ FetchDump(p)
        \/ FetchSchedule(p) \/ Select(p))
    BY <1>1, <1>3, Places
  <2>4. ~ (Refuse(p) \/ PassOver(p) \/ ListUnraced(p) \/ BeginWrite(p) \/ ReadBack(p) \/ FailRace(p))
    BY <1>1, <1>3, Places
  <2>5. ~ (SaveCatalog(p) \/ SaveReport(p) \/ Unlock(p) \/ Rebuild(p) \/ RebuildRefused(p)
        \/ Abort(p) \/ Crash(p))
    BY <1>1, <1>3, Places
  <2> QED
    BY <1>3, <2>1, <2>2, <2>3, <2>4, <2>5 DEF Work
<1> QED
  BY <1>2, <1>3

(* Whoever reads a table of a session the catalog lists finds it readable,  *)
(* unless a stored file has gone bad: writers replace, point at and die     *)
(* under readers that hold no lock.                                         *)
THEOREM ReadersAreUndisturbed == Spec => []ReadersUndisturbed
<1>1. ArchiveInv => ReadersUndisturbed
  BY DEF ArchiveInv, ArchiveType, UndamagedInv, GoodRead, ReadersUndisturbed
<1> QED
  BY <1>1, ArchiveInvariant, PTL

(* A repair of one session saves the catalog it read, changed in that one:  *)
(* nobody else has saved one since.                                         *)
THEOREM TargetedRepairsKeepOthers == Spec => TargetedKeepsOthers
<1> DEFINE Keeps(p) ==
      (pc[p] = "races" /\ pc'[p] = "report" /\ run[p].target # None) =>
          /\ DOMAIN catalog.events \ {run[p].target} = DOMAIN catalog'.events \ {run[p].target}
          /\ \A s \in DOMAIN catalog.events \ {run[p].target} : catalog'.events[s] = catalog.events[s]
<1>1. ASSUME ArchiveInv, Next PROVE \A p \in Process : Keeps(p)
  <2> SUFFICES ASSUME NEW p \in Process, pc[p] = "races", pc'[p] = "report", run[p].target # None
               PROVE  Keeps(p)
    OBVIOUS
  <2>1. SaveCatalog(p)
    BY <1>1, Savers
  <2>2. PICK r : r = run[p]
    OBVIOUS
  <2>3. r.base = catalog /\ DOMAIN r.events \subseteq {r.target}
    <3>1. AtWork(p) /\ ProcessInv(p)
      BY <1>1 DEF AtWork, ArchiveInv
    <3>2. LoopInv(p)
      BY <3>1 DEF ProcessInv
    <3> QED
      BY <2>2, <3>2 DEF LoopInv, InLoop
  <2>4. catalog'.events = Merged(r) /\ r.target # None
    BY <2>1, <2>2 DEF SaveCatalog
  <2>5. /\ DOMAIN Merged(r) = (DOMAIN catalog.events \ {r.target}) \cup DOMAIN r.events
        /\ \A s \in DOMAIN catalog.events \ {r.target} : Merged(r)[s] = catalog.events[s]
    BY <2>3, <2>4 DEF Merged
  <2> QED
    BY <2>2, <2>3, <2>4, <2>5
<1>2. ASSUME ArchiveInv, [Next]_vars PROVE [\A p \in Process : Keeps(p)]_vars
  BY <1>1, <1>2
<1> QED
  BY <1>2, ArchiveInvariant, PTL DEF Spec, TargetedKeepsOthers

(* A run that ends complete has written every race it fetched: the catalog  *)
(* names a revision of it, the pointer too, and it is whole on disk unless  *)
(* a file went bad meanwhile.                                               *)
THEOREM CompleteRunsAreTrue == Spec => CompleteIsTrue
<1> DEFINE True(p) ==
      (pc[p] = "final" /\ pc'[p] = "unlock" /\ state' = "complete") =>
         \A s \in DOMAIN run[p].src : run[p].src[s].is = "raced" =>
             LET v == catalog.events[s].rev IN
             /\ s \in DOMAIN catalog.events /\ v.source = run[p].src[s].source
             /\ active[s] \in {v, Garbled}
             /\ damages = run[p].since => active[s] = v /\ Valid(s, v)
<1>1. ASSUME ArchiveInv, Next PROVE \A p \in Process : True(p)
  <2> SUFFICES ASSUME NEW p \in Process, pc[p] = "final", pc'[p] = "unlock", state' = "complete",
                      NEW s \in DOMAIN run[p].src, run[p].src[s].is = "raced"
               PROVE  /\ s \in DOMAIN catalog.events
                      /\ catalog.events[s].rev.source = run[p].src[s].source
                      /\ Intact(s, catalog.events[s].rev, run[p].since)
    BY DEF Intact
  <2>1. Final(p)
    BY <1>1, Savers
  <2>2. run[p].failed = {}
    BY <2>1 DEF Final
  <2>3. AtWork(p) /\ ProcessInv(p) /\ run[p] \in Run
    BY <1>1 DEF AtWork, ArchiveInv, ArchiveType
  <2>4. SavedInv(p) /\ DoneInv(p)
    BY <2>3 DEF ProcessInv
  <2>5. /\ ~ More(p) /\ Done(run[p])
        /\ \A x \in DOMAIN run[p].events : x \in DOMAIN catalog.events
              /\ catalog.events[x] = run[p].events[x]
    BY <2>4 DEF SavedInv, DoneInv
  <2>6. s \in Behind(run[p])
    <3>1. s \in Session
      BY <2>3, SaidTyped
    <3>2. PICK i \in 1..Len(Order) : Order[i] = s
      BY <3>1, OrderProperties
    <3>3. i <= run[p].next - 1
      BY <2>3, <2>5, OrderProperties DEF More, Run
    <3> QED
      BY <3>2, <3>3 DEF Behind
  <2>7. Stands(run[p], s)
    BY <2>2, <2>5, <2>6 DEF Done
  <2> QED
    BY <2>5, <2>7 DEF Stands
<1>2. ASSUME ArchiveInv, [Next]_vars PROVE [\A p \in Process : True(p)]_vars
  BY <1>1, <1>2
<1> QED
  BY <1>2, ArchiveInvariant, PTL DEF Spec, CompleteIsTrue

===============================================================================
