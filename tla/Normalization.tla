----------------------------- MODULE Normalization -----------------------------
(***************************************************************************)
(* Canonical records from the rows of a provider (normalization/laps.py,   *)
(* observations.py, positions.py), and which of them make a session        *)
(* (validation_core.py, validation_observations.py, the records' own       *)
(* checks in domain/models.py).                                            *)
(*                                                                         *)
(* `id' orders the rows of a table as their contents do.  A compound is a  *)
(* number, in the order of the names; 0 is a compound nobody named.        *)
(***************************************************************************)
EXTENDS Integers, Sequences, FiniteSets, SequencesExt

CONSTANTS Driver, None
ASSUME NormalizationAssumption == Driver \subseteq Nat \ {0} /\ None \notin Int

\* a comes before b: the first difference decides.
Before(a, b) == \E i \in DOMAIN a : a[i] < b[i] /\ \A j \in 1..(i - 1) : a[j] = b[j]
Ordered(key) ==
    LET S == DOMAIN key
    IN [i \in 1..Cardinality(S) |->
           CHOOSE e \in S : Cardinality({f \in S : Before(key[f], key[e])}) = i - 1]

\* dedupe_rows: of the rows with one key, the one whose contents come first.
Selected(key) == {r \in DOMAIN key : \A o \in DOMAIN key : key[o] = key[r] => r.id <= o.id}

\* normalize_laps, normalize_weather, normalize_race_control, normalize_race_positions
LapRecords(rows) == Selected([r \in rows |-> <<r.driver, r.lap>>])
WeatherRecords(rows) == Selected([r \in rows |-> r.at])
ControlRecords(rows) ==
    Selected([r \in {r \in rows : r.at # None} |-> <<r.source, r.at, r.says, r.status>>])
PositionRecords(rows) == Selected([r \in rows |-> <<r.driver, r.at, r.lap>>])
Records(rows) ==
    [laps |-> LapRecords(rows.laps), weather |-> WeatherRecords(rows.weather),
     control |-> ControlRecords(rows.control), positions |-> PositionRecords(rows.positions)]

\* derive_stints
Stint(group) ==
    LET first == CHOOSE l \in group : \A o \in group : l.lap <= o.lap
        last == CHOOSE l \in group : \A o \in group : l.lap >= o.lap
        named == {l.compound : l \in group} \ {0}
    IN [driver |-> first.driver, number |-> first.stint,
        first |-> first.lap, last |-> last.lap, start |-> first.start, end |-> last.end,
        age |-> first.life,
        compound |-> IF named = {} THEN 0 ELSE CHOOSE c \in named : \A o \in named : c <= o]
Stints(laps) ==
    LET Group(l) == {o \in laps : o.driver = l.driver /\ o.stint = l.stint}
    IN {Stint(Group(l)) : l \in {l \in laps : l.stint # None}}

\* derive_pit_stops: the observations of a driver, entries before exits ...
Observations(laps, d) ==
    {[at |-> l.enter, way |-> 0, lap |-> l.lap] : l \in {l \in laps : l.driver = d /\ l.enter # None}}
      \cup {[at |-> l.exit, way |-> 1, lap |-> l.lap] : l \in {l \in laps : l.driver = d /\ l.exit # None}}
\* ... each exit with the last entry that has none, if their laps allow it.
MutPair(acc, o) ==
    LET fits == {i \in DOMAIN acc.open : o.lap \in {acc.open[i].lap, acc.open[i].lap + 1}}
        i == CHOOSE i \in fits : \A j \in fits : i <= j
    IN IF o.way = 0 THEN [acc EXCEPT !.open = Append(@, o)]
       ELSE IF fits = {} THEN [acc EXCEPT !.stops = @ \cup {[enter |-> None, exit |-> o.at, lap |-> o.lap]}]
       ELSE [open |-> RemoveAt(acc.open, i),
             stops |-> acc.stops \cup {[enter |-> acc.open[i].at, exit |-> o.at, lap |-> acc.open[i].lap]}]
Pair(acc, o) ==
    LET e == Last(acc.open)
    IN IF o.way = 0 THEN [acc EXCEPT !.open = Append(@, o)]
       ELSE IF acc.open = <<>> \/ o.lap \notin {e.lap, e.lap + 1}
       THEN [acc EXCEPT !.stops = @ \cup {[enter |-> None, exit |-> o.at, lap |-> o.lap]}]
       ELSE [open |-> Front(acc.open),
             stops |-> acc.stops \cup {[enter |-> e.at, exit |-> o.at, lap |-> e.lap]}]
StopsOf(laps, d) ==
    LET seen == Ordered([o \in Observations(laps, d) |-> <<o.at, o.way, o.lap>>])
        acc == FoldLeft(Pair, [open |-> <<>>, stops |-> {}], seen)
        alone == {[enter |-> e.at, exit |-> None, lap |-> e.lap] : e \in ToSet(acc.open)}
    IN acc.stops \cup alone
Stops(laps) ==
    UNION {{[driver |-> d, enter |-> s.enter, exit |-> s.exit, lap |-> s.lap] : s \in StopsOf(laps, d)}
           : d \in {l.driver : l \in laps}}

\* normalize_session, before it is validated.
Derived(rs) ==
    [laps |-> rs.laps, weather |-> rs.weather, control |-> rs.control, positions |-> rs.positions,
     stints |-> Stints(rs.laps), stops |-> Stops(rs.laps)]

\* Two times, if both are known, are in order.
InOrder(a, b) == {a, b} \subseteq Int => a <= b

\* _check_laps; a lap's own check
LapsValid(s) ==
    /\ s.laps # {}
    /\ \A l \in s.laps : l.driver \in Driver /\ InOrder(l.start, l.end)
    /\ \A l, o \in s.laps : l.driver = o.driver /\ l.lap < o.lap => InOrder(l.end, o.end)
\* _check_stints; a stint's own check
StintsValid(s) ==
    /\ \A t \in s.stints : InOrder(t.start, t.end)
    /\ \A t, o \in s.stints :
        t.driver = o.driver /\ t.number < o.number
        /\ (\A u \in s.stints : u.driver = t.driver => ~ (t.number < u.number /\ u.number < o.number))
        => t.last < o.first /\ InOrder(t.end, o.start)
\* check_observation_records
ObservationsValid(s) ==
    \A p \in s.positions :
        /\ p.driver \in Driver
        /\ p.lap # None => \E l \in s.laps : l.driver = p.driver /\ l.lap = p.lap
Valid(s) == LapsValid(s) /\ StintsValid(s) /\ ObservationsValid(s)
================================================================================
