------------------------------ MODULE ReplayEngine ------------------------------
(***************************************************************************)
(* A session from its rows to the answers about it: its canonical records, *)
(* the timeline of its events (replay/timeline.py), the laps' cursors      *)
(* (lap_cursor.py), one event applied (reducer.py), and the states the     *)
(* engine answers with (engine.py), built from the nearest checkpoint.     *)
(*                                                                         *)
(* No timeline this code builds holds a driver-status event, so a driver   *)
(* is never retired here.  Where source and id of two race-control records *)
(* of one instant disagree on their order, see README.                     *)
(***************************************************************************)
EXTENDS Normalization

CONSTANTS
    Sessions,      \* the rows a provider may give
    Interval,      \* checkpoint_interval
    Time, LapNumber,
    ControlShown   \* how much of recent_race_control is kept

(* The rows of a provider are tables, whose rows differ; their cells are    *)
(* what the records' own checks let pass (domain/models.py).               *)
Maybe(S) == S \cup {None}
LapColumns == {"id", "driver", "lap", "deleted", "start", "end", "enter", "exit", "stint", "compound",
               "time", "life"}
LapRow(l) ==
    /\ l = [c \in DOMAIN l |-> l[c]] /\ LapColumns \subseteq DOMAIN l
    /\ {l.id, l.driver, l.lap, l.compound} \subseteq Nat /\ l.deleted \in BOOLEAN
    /\ {l.start, l.end, l.enter, l.exit, l.stint} \subseteq Maybe(Nat)
WeatherRow(w) == {w.id, w.at} \subseteq Nat
ControlRow(c) == {c.id, c.source} \subseteq Nat /\ c.at \in Maybe(Nat)
PositionRow(p) == {p.id, p.driver, p.at, p.place} \subseteq Nat /\ p.lap \in Maybe(Nat)
Table(t) == IsFiniteSet(t) /\ \A a, b \in t : a.id = b.id => a = b
ASSUME SessionsAssumption ==
    \A r \in Sessions :
        /\ Table(r.laps) /\ Table(r.weather) /\ Table(r.control) /\ Table(r.positions)
        /\ \A l \in r.laps : LapRow(l)
        /\ \A w \in r.weather : WeatherRow(w)
        /\ \A c \in r.control : ControlRow(c)
        /\ \A p \in r.positions : PositionRow(p)

ASSUME TimeAssumption == Time \subseteq Nat

VARIABLES
    rows,          \* what the provider gave
    stored,        \* the session and its events, as ingested
    engine,        \* the engine opened on them: its checkpoints and cursors
    answer         \* the last question, and the state or the error

replayVars == <<rows, stored, engine, answer>>

\* EVENT_PRIORITY
Priority == [marker |-> 0, status |-> 10, weather |-> 20, control |-> 30, stint |-> 40,
             enter |-> 50, place |-> 60, lap |-> 70, exit |-> 80]

\* _candidate_events
StatusChanges(control) ==
    LET known == {c \in control : c.status # 0}
        Earlier(a, b) == Before(<<a.at, a.id>>, <<b.at, b.id>>)
        Prior(c) == {o \in known : Earlier(o, c) /\ \A p \in known : Earlier(p, c) => ~ Earlier(o, p)}
    IN {c \in known : \A o \in Prior(c) : o.status # c.status}
Event(kind, at, driver, tie, of) ==
    [kind |-> kind, at |-> at, driver |-> driver, tie |-> tie, of |-> of]
MutLapEvents(s) ==
    {Event("lap", l.start, l.driver, <<0, l.id>>, l) :
        l \in {l \in s.laps : l.start # None /\ l.end # None /\ ~ l.deleted}}
LapEvents(s) ==
    {Event("lap", l.end, l.driver, <<0, l.id>>, l) : l \in {l \in s.laps : l.end # None /\ ~ l.deleted}}
\* Two stops that begin or end at one instant differ in their lap or in their other end.
Other(t) == IF t = None THEN 0 ELSE t + 1
Events(s) ==
    {Event("marker", 0, 0, <<0, 0>>, None)}
      \cup {Event("weather", w.at, 0, <<0, w.id>>, w) : w \in s.weather}
      \cup {Event("control", c.at, 0, <<c.source, c.id>>, c) : c \in s.control}
      \cup {Event("status", c.at, 0, <<c.source, c.id>>, c) : c \in StatusChanges(s.control)}
      \cup {Event("stint", t.start, t.driver, <<0, t.number>>, t) : t \in {t \in s.stints : t.start # None}}
      \cup {Event("enter", p.enter, p.driver, <<p.lap, Other(p.exit)>>, p) : p \in {p \in s.stops : p.enter # None}}
      \cup {Event("exit", p.exit, p.driver, <<p.lap, Other(p.enter)>>, p) : p \in {p \in s.stops : p.exit # None}}
      \cup {Event("place", p.at, p.driver, <<0, p.id>>, p) : p \in s.positions}
      \cup LapEvents(s)
\* build_timeline
Timeline(s) ==
    Ordered([e \in Events(s) |-> <<e.at, Priority[e.kind], e.driver>> \o e.tie])

\* build_lap_cursors
Cursors(s) ==
    LET Leads(p) == \A o \in s.positions :
            o.place = 1 /\ o.lap = p.lap => ~ Before(<<o.at, o.driver>>, <<p.at, p.driver>>)
        LapLed(p) == {l \in s.laps :
            /\ p.place = 1 /\ p.lap # None /\ Leads(p)
            /\ l.driver = p.driver /\ l.lap = p.lap
            /\ l.start # None /\ l.start <= p.at}
    IN UNION {{[lap |-> p.lap, driver |-> p.driver, start |-> l.start, end |-> p.at] : l \in LapLed(p)}
              : p \in s.positions}
\* reference_lap_at
ReferenceLap(cursors, t) ==
    LET done == {c.lap : c \in {c \in cursors : c.end <= t}}
    IN IF done = {} THEN None ELSE CHOOSE n \in done : \A o \in done : o <= n

\* MutableReplayState.initial
Fresh ==
    [at |-> 0, track |-> 0, weather |-> None, control |-> <<>>, backward |-> FALSE,
     car |-> [d \in Driver |-> [status |-> "not started", place |-> None, laps |-> 0, stint |-> None,
                               compound |-> 0, age |-> None, last |-> None,
                               inPit |-> FALSE, stops |-> 0, lastPit |-> None]]]

\* _activate, and the transitions of one driver
Activated(c) == [c EXCEPT !.status = IF c.inPit THEN @ ELSE "active"]
Moved(c, e) ==
    CASE e.kind = "stint" -> Activated([c EXCEPT !.stint = e.of.number, !.compound = e.of.compound,
                                               !.age = e.of.age])
      [] e.kind = "enter" -> [c EXCEPT !.stops = IF c.inPit THEN @ ELSE @ + 1, !.inPit = TRUE,
                                       !.lastPit = e.of.lap, !.status = "in pit"]
      [] e.kind = "exit" -> Activated([c EXCEPT !.inPit = FALSE])
      [] e.kind = "place" -> Activated([c EXCEPT !.place = e.of.place])
      [] e.kind = "lap" -> Activated([c EXCEPT !.laps = IF @ < e.of.lap THEN e.of.lap ELSE @,
                                               !.stint = IF e.of.stint = None THEN @ ELSE e.of.stint,
                                               !.compound = e.of.compound, !.last = e.of.time,
                                               !.age = IF e.of.life = None THEN @ ELSE e.of.life])
\* apply_event; it raises when time goes backward.
Transition(s, e) ==
    CASE e.kind = "marker" -> s
      [] e.kind = "status" -> [s EXCEPT !.track = e.of.status]
      [] e.kind = "weather" -> [s EXCEPT !.weather = e.of]
      [] e.kind = "control" ->
            LET all == Append(s.control, e.of.id)
            IN [s EXCEPT !.control = SubSeq(all, 1 + (IF Len(all) > ControlShown
                                                      THEN Len(all) - ControlShown ELSE 0), Len(all))]
      [] OTHER -> [s EXCEPT !.car[e.driver] = Moved(s.car[e.driver], e)]
Apply(s, e) == [Transition(s, e) EXCEPT !.at = e.at, !.backward = s.backward \/ e.at < s.at]
Replayed(s, events) == FoldLeft(Apply, s, events)

\* ReplayEngine.__init__, from_repository
Opened(data, k) ==
    LET n == Len(data.events)
        Marks == {0, n} \cup {i \in 1..n : i % k = 0}
    IN [cursors |-> Cursors(data.session),
        checkpoints |-> [i \in Marks |-> Replayed(Fresh, SubSeq(data.events, 1, i))]]

\* state_at
MutEventLimit(events, t) == Cardinality({i \in DOMAIN events : events[i].at < t})
EventLimit(events, t) == Cardinality({i \in DOMAIN events : events[i].at <= t})
StateAt(data, eng, t) ==
    LET limit == EventLimit(data.events, t)
        i == CHOOSE i \in DOMAIN eng.checkpoints :
                i <= limit /\ \A j \in DOMAIN eng.checkpoints : j <= limit => j <= i
    IN IF t > Last(data.events).at THEN [error |-> TRUE]
       ELSE [state |-> [Replayed(eng.checkpoints[i], SubSeq(data.events, i + 1, limit)) EXCEPT !.at = t],
             lap |-> ReferenceLap(eng.cursors, t)]

--------------------------------------------------------------------------------
ReplayInit ==
    /\ rows \in Sessions
    /\ stored = None /\ engine = None /\ answer = None

\* normalize_session and the timeline that is stored with it; no session when it is not valid.
Ingest ==
    /\ stored = None
    /\ LET s == Derived(Records(rows))
       IN Valid(s) /\ stored' = [session |-> s, events |-> Timeline(s)]
    /\ UNCHANGED <<rows, engine, answer>>

Open ==
    /\ stored # None /\ engine = None
    /\ \E k \in Interval : engine' = Opened(stored, k)
    /\ UNCHANGED <<rows, stored, answer>>

AskTime(t) ==
    /\ engine # None
    /\ answer' = [at |-> t, got |-> StateAt(stored, engine, t)]
    /\ UNCHANGED <<rows, stored, engine>>

\* state_at_lap
AskLap(n, phase) ==
    /\ engine # None
    /\ \E c \in engine.cursors :
        /\ c.lap = n
        /\ LET t == IF phase = "start" THEN c.start ELSE c.end
           IN answer' = [at |-> t, got |-> StateAt(stored, engine, t)]
    /\ UNCHANGED <<rows, stored, engine>>

ReplayNext ==
    \/ Ingest \/ Open
    \/ \E t \in Time : AskTime(t)
    \/ \E n \in LapNumber, phase \in {"start", "end"} : AskLap(n, phase)

ReplaySpec == ReplayInit /\ [][ReplayNext]_replayVars

--------------------------------------------------------------------------------
Answered == answer # None /\ "state" \in DOMAIN answer.got

(* Wherever the checkpoints lie, also between events of one instant, the   *)
(* state is that of all events up to the time, replayed from the start,    *)
(* and the reducer never meets one that goes back in time.                 *)
StateAtIsReplay ==
    Answered =>
        \E n \in 0..Len(stored.events) :
            /\ \A i \in DOMAIN stored.events : stored.events[i].at <= answer.at <=> i <= n
            /\ answer.got.state = [Replayed(Fresh, SubSeq(stored.events, 1, n)) EXCEPT !.at = answer.at]
            /\ ~ answer.got.state.backward

\* What is known of the records at a time: the times up to it, of a driver's laps up to one that shows.
Cut(rs, t) ==
    LET Known(x) == IF x # None /\ x <= t THEN x ELSE None
        Shows(l) == \E x \in {l.start, l.end, l.enter, l.exit} : Known(x) # None
        Begun(l) == \E o \in rs.laps : o.driver = l.driver /\ o.lap >= l.lap /\ Shows(o)
    IN [laps |-> {[l EXCEPT !.start = Known(@), !.end = Known(@), !.enter = Known(@), !.exit = Known(@)] :
                    l \in {l \in rs.laps : Begun(l)}},
        weather |-> {w \in rs.weather : w.at <= t},
        control |-> {c \in rs.control : c.at <= t},
        positions |-> {p \in rs.positions : p.at <= t}]

\* Every stint is on the tyres of its first lap.
FirstTyres(s) ==
    \A t \in s.stints, l \in s.laps :
        l.driver = t.driver /\ l.stint = t.number /\ l.lap = t.first => l.compound = t.compound

(* A replay knows nothing of what comes after its cursor: the state is     *)
(* that of a session that ends there, stints, pit stops, track status and  *)
(* reference lap included.  Only the tyres of a stint are those of all its *)
(* laps (see README), so its laps must agree on them.                      *)
NoLookAhead ==
    Answered /\ FirstTyres(stored.session) =>
        LET s == Derived(Cut(Records(rows), answer.at))
        IN /\ answer.got.state = [Replayed(Fresh, Timeline(s)) EXCEPT !.at = answer.at]
           /\ answer.got.lap = ReferenceLap(Cursors(s), answer.at)

(* Every entry and every exit of the pits observed is in one stop and no   *)
(* more; no exit is paired over a later entry that is left without one.    *)
StopsPairUp ==
    stored # None =>
        \A d \in Driver :
            LET seen == Observations(stored.session.laps, d)
                stops == {s \in stored.session.stops : s.driver = d}
            IN /\ \E of \in Bijection({o \in seen : o.way = 0}, {s \in stops : s.enter # None}) :
                    \A o \in DOMAIN of : of[o].enter = o.at /\ of[o].lap = o.lap
               /\ \E of \in Bijection({o \in seen : o.way = 1}, {s \in stops : s.exit # None}) :
                    \A o \in DOMAIN of : of[o].exit = o.at /\ of[o].lap \in {o.lap, o.lap - 1}
               /\ \A s, u \in stops :
                    s.enter # None /\ s.exit # None /\ u.enter # None /\ u.exit = None
                    => u.enter <= s.enter \/ s.exit < u.enter

(* Out of the pits on new tyres, the driver is shown on them: the stint    *)
(* shown is the last that has started.                                     *)
NewStintShown ==
    Answered =>
        \A t \in stored.session.stints :
            /\ ~ answer.got.state.car[t.driver].inPit
            /\ t.start # None /\ t.start <= answer.at
            /\ \A u \in stored.session.stints :
                u.driver = t.driver /\ u.number > t.number => u.start # None /\ u.start > answer.at
            => answer.got.state.car[t.driver].stint = t.number
=================================================================================
