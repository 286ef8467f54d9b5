------------------------------- MODULE Analytics -------------------------------
(***************************************************************************)
(* What the pages of the analytics engine say (analytics/engine.py): the   *)
(* observations of the archive's races, one per driver and race, and the   *)
(* summaries, lists, profiles, comparisons and rankings made of them.      *)
(*                                                                         *)
(* Drivers, teams, circuits are numbers, as their names sort.  An average  *)
(* is the pair of its sum and its samples; lap and pit times are left out, *)
(* so that a stop is taken to be timed.                                    *)
(***************************************************************************)
EXTENDS Integers, Sequences, FiniteSets
LOCAL INSTANCE TLC
LOCAL INSTANCE SequencesExt
LOCAL INSTANCE FiniteSetsExt

CONSTANTS
    Calendar,     \* the events in their order: season, round, circuit
    MayHappen,    \* what may become of an event
    Nothing,      \* None
    Top           \* progressions are shown of the first five

VARIABLES
    history,      \* what became of the events so far
    observations  \* the snapshot's, of them

pagesVars == <<history, observations>>

CompletedStatus == "completed"
GoodQuality == {"verified", "good"}

\* _outcome, of the provider's status, whether it classifies the driver, and his laps.
Comparable == {"finished", "classified"}
NeverStarted(row) ==
    \/ row.status = "did not start"
    \/ row.status = "withdrew" /\ row.laps \in {Nothing, 0}
Outcome(row) ==
    IF row.status = "disqualified" THEN "dsq"
    ELSE IF row.status = "finished" THEN "finished"
    ELSE IF row.classified \/ row.status = "laps down" THEN "classified"
    ELSE IF NeverStarted(row) THEN "dns"
    ELSE IF row.status # Nothing THEN "dnf" ELSE "other"

SumOf(S, Value(_)) == MapThenSumSet(Value, S)
Or0(n) == IF n = Nothing THEN 0 ELSE n

\* _event_observations: `laps' and `pits' are the capabilities of the session.
EventObservations(i, race) ==
    LET event == Calendar[i]
        Observed(d) ==
          LET row == race.rows[d]
              outcome == Outcome(row)
              gains == /\ row.grid # Nothing /\ row.finish # Nothing
                       /\ row.grid > 0 /\ row.finish > 0 /\ outcome \in Comparable
          IN [race |-> i, season |-> event.season, round |-> event.round, circuit |-> event.circuit,
              driver |-> d, team |-> row.team, grid |-> row.grid, finish |-> row.finish,
              points |-> Or0(row.points), laps |-> row.laps, outcome |-> outcome,
              gained |-> IF gains THEN row.grid - row.finish ELSE Nothing,
              recorded |-> IF race.laps THEN Or0(row.laps) ELSE 0,
              stops |-> IF race.pits THEN row.stops ELSE Nothing,
              hasLaps |-> race.laps, hasPits |-> race.pits, quality |-> race.quality]
    IN {Observed(d) : d \in DOMAIN race.rows}

\* _build_snapshot.
Shown(race) == race.status = CompletedStatus /\ race.quality \in GoodQuality
Observations(past) == UNION {EventObservations(i, past[i]) : i \in {j \in DOMAIN past : Shown(past[j])}}

\* _query: any of its conditions may be absent.
Everything == [from |-> 2000, to |-> 9999, driver |-> Nothing, team |-> Nothing, circuit |-> Nothing]
Matches(o, q) ==
    /\ q.from <= o.season /\ o.season <= q.to
    /\ q.driver \in {Nothing, o.driver}
    /\ q.team \in {Nothing, o.team}
    /\ q.circuit \in {Nothing, o.circuit}
Query(q) == {o \in observations : Matches(o, q)}

RacesOf(O) == {o.race : o \in O}
DriversOf(O) == {o.driver : o \in O}
TeamsOf(O) == {o.team : o \in O} \ {Nothing}
CircuitsOf(O) == {o.circuit : o \in O}
SeasonsOf(O) == {o.season : o \in O}
OfDriver(O, d) == {o \in O : o.driver = d}
OfTeam(O, t) == {o \in O : o.team = t}
OfCircuit(O, c) == {o \in O : o.circuit = c}
OfSeason(O, y) == {o \in O : o.season = y}
OfRace(O, r) == {o \in O : o.race = r}

-----------------------------------------------------------------------------
(* Summaries. *)
Points(O) == LET Value(o) == o.points IN SumOf(O, Value)
Laps(O) == LET Value(o) == Or0(o.laps) IN SumOf(O, Value)
Recorded(O) == LET Value(o) == o.recorded IN SumOf(O, Value)
Stops(O) == LET Value(o) == Or0(o.stops) IN SumOf(O, Value)
Number(O, outcome) == Cardinality({o \in O : o.outcome = outcome})
Classified(O) == {o \in O : o.outcome \in Comparable}
MutPlaced(O, n) == {o \in O : o.finish # Nothing /\ o.finish <= n}
Placed(O, n) == {o \in Classified(O) : o.finish # Nothing /\ o.finish <= n}

Summary(O) ==
    LET starts == {o \in O : o.outcome # "dns"}
        gridded == {o \in starts : o.grid \notin {Nothing, 0}}
        placed == {o \in Classified(O) : o.finish # Nothing}
        gaining == {o \in Classified(O) : o.gained # Nothing}
        counted == {o \in O : o.stops # Nothing}
        Grid(o) == o.grid
        Finish(o) == o.finish
        Gained(o) == o.gained
    IN [starts |-> Cardinality(starts), finishes |-> Cardinality(Classified(O)),
        wins |-> Cardinality(Placed(O, 1)), podiums |-> Cardinality(Placed(O, 3)),
        points |-> Points(O), dnf |-> Number(O, "dnf"), dns |-> Number(O, "dns"), dsq |-> Number(O, "dsq"),
        grid |-> <<SumOf(gridded, Grid), Cardinality(gridded)>>,
        finish |-> <<SumOf(placed, Finish), Cardinality(placed)>>,
        gained |-> <<SumOf(gaining, Gained), Cardinality(gaining)>>,
        laps |-> Laps(O), stops |-> IF counted = {} THEN Nothing ELSE Stops(O),
        pitRaces |-> Cardinality(RacesOf(counted)),
        best |-> IF placed = {} THEN Nothing ELSE Min({o.finish : o \in placed}),
        races |-> Cardinality(RacesOf(O))]

\* _constructor_summary: a team starts in a race, its entries are its drivers' starts.
ByRace(s) == [entries |-> s.starts] @@ [s EXCEPT !.starts = s.races]
TeamSummary(O) == ByRace(Summary(O))

\* _coverage, and what the quality of a race has kept out of the seasons looked at.
Excluded(O) ==
    LET years == IF O # {} THEN SeasonsOf(O)
                 ELSE {2000} \cup {Calendar[i].season : i \in DOMAIN Calendar}
        degraded == {i \in DOMAIN history :
                       /\ Min(years) <= Calendar[i].season /\ Calendar[i].season <= Max(years)
                       /\ history[i].status = CompletedStatus /\ history[i].quality \notin GoodQuality}
        Rows(i) == Cardinality(DOMAIN history[i].rows)
    IN SumOf(degraded, Rows)
Coverage(eligible, included, samples) ==
    LET Quality(is) == Cardinality(RacesOf({o \in included : o.quality = is}))
        missing == Cardinality(RacesOf(eligible)) - Cardinality(RacesOf(included))
    IN [samples |-> samples, races |-> Cardinality(RacesOf(included)),
        eligible |-> Cardinality(RacesOf(eligible)),
        missing |-> IF missing > 0 THEN missing ELSE 0,
        verified |-> Quality("verified"), good |-> Quality("good"),
        excluded |-> Excluded(eligible)]
WithLaps(O) == {o \in O : o.hasLaps}
WithPits(O) == {o \in O : o.hasPits}
ResultCoverage(O) == Coverage(O, O, Cardinality(O))
LapCoverage(O) == Coverage(O, WithLaps(O), Recorded(WithLaps(O)))
PitCoverage(O) == Coverage(O, WithPits(O), Stops(WithPits(O)))
StopsOrNothing(O) == IF WithPits(O) = {} THEN Nothing ELSE Stops(O)

\* Rows of a table, one for each of Ids; sorted; a page of them.
Rows(Ids, Row(_)) == {Row(id) : id \in Ids}
ByName(a, b) == a.id < b.id
PageOf(rows, offset, limit) ==
    SubSeq(rows, offset + 1, IF offset + limit < Len(rows) THEN offset + limit ELSE Len(rows))
Page(rows, offset, limit) ==
    [items |-> PageOf(rows, offset, limit), offset |-> offset, limit |-> limit, total |-> Len(rows)]

-----------------------------------------------------------------------------
(* The page of a season. *)
InSeason(y) == [Everything EXCEPT !.from = y, !.to = y]
Leads(a, b) ==
    LET s == a.summary
        u == b.summary
    IN \/ s.points > u.points
       \/ s.points = u.points /\ s.wins > u.wins
       \/ s.points = u.points /\ s.wins = u.wins /\ a.id < b.id
DriverRows(O) ==
    LET Row(d) == [id |-> d, summary |-> Summary(OfDriver(O, d))]
    IN Rows(DriversOf(O), Row)
TeamRows(O) ==
    LET Row(t) == [id |-> t, drivers |-> Cardinality(DriversOf(OfTeam(O, t))), summary |-> TeamSummary(OfTeam(O, t))]
    IN Rows(TeamsOf(O), Row)

\* The points after each round: of every id's observations, round by round.
Rounds(O) == SetToSortSeq({o.round : o \in O}, <)
PointsAfter(own, rounds) == [k \in DOMAIN rounds |-> Points({o \in own : o.round <= rounds[k]})]
Cumulative(O, Ids, Of(_, _)) == [id \in Ids |-> PointsAfter(Of(O, id), Rounds(O))]

\* A race in a list: who won it, if he was classified first.
Winner(O) ==
    LET first == {o \in Classified(O) : o.finish = 1}
    IN IF first = {} THEN Nothing ELSE (CHOOSE o \in first : TRUE).driver
RaceRow(O) ==
    [winner |-> Winner(O), stops |-> StopsOrNothing(O),
     dnf |-> Number(O, "dnf")]
RaceRows(O) == [r \in RacesOf(O) |-> RaceRow(OfRace(O, r))]
Winners(O) == {o.driver : o \in {p \in Classified(O) : p.finish = 1}}

FirstOf(rows) == {row.id : row \in ToSet(PageOf(rows, 0, Top))}
SeasonTables(y, O, drivers, teams) ==
    [scheduled |-> Cardinality({i \in DOMAIN Calendar : Calendar[i].season = y}),
     completed |-> Cardinality({i \in DOMAIN history :
                                  Calendar[i].season = y /\ history[i].status = CompletedStatus}),
     results |-> Cardinality(O), laps |-> Laps(O), recorded |-> Recorded(O), stops |-> StopsOrNothing(O),
     leader |-> IF drivers = <<>> THEN Nothing ELSE drivers[1],
     winners |-> Cardinality(Winners(O)),
     podium |-> Cardinality(DriversOf(Placed(O, 3))),
     spread |-> IF drivers = <<>> THEN Nothing
                ELSE drivers[1].summary.points - drivers[Len(drivers)].summary.points,
     drivers |-> drivers, teams |-> teams, races |-> RaceRows(O),
     progression |-> Cumulative(O, FirstOf(drivers), OfDriver),
     teamProgression |-> Cumulative(O, FirstOf(teams), OfTeam),
     coverage |-> [results |-> ResultCoverage(O), laps |-> LapCoverage(O), pits |-> PitCoverage(O)]]
Season(y, O) ==
    SeasonTables(y, O, SetToSortSeq(DriverRows(O), Leads), SetToSortSeq(TeamRows(O), Leads))
SeasonPage(y) == Season(y, Query(InSeason(y)))

-----------------------------------------------------------------------------
(* Drivers, constructors and circuits: the lists, of those a search finds,   *)
(* and their pages.                                                          *)
DriverEntry(d, own) ==
    [id |-> d, from |-> Min(SeasonsOf(own)), to |-> Max(SeasonsOf(own)),
     teams |-> TeamsOf(own), summary |-> Summary(own)]
TeamEntry(t, own) ==
    [id |-> t, from |-> Min(SeasonsOf(own)), to |-> Max(SeasonsOf(own)),
     drivers |-> Cardinality(DriversOf(own)), summary |-> TeamSummary(own)]
CircuitEntry(c, own) ==
    [id |-> c, from |-> Min(SeasonsOf(own)), to |-> Max(SeasonsOf(own)),
     races |-> Cardinality(RacesOf(own)), winners |-> Cardinality(Winners(own)),
     pitRaces |-> Cardinality(RacesOf(WithPits(own)))]

\* One entry for each of the ids, a page of them by name, and the coverage of the included.
Listed(O, included, Ids, Of(_, _), Entry(_, _), offset, limit) ==
    LET Row(id) == Entry(id, Of(O, id))
    IN [page |-> Page(SetToSortSeq(Rows(Ids, Row), ByName), offset, limit),
        coverage |-> Coverage(O, included, Cardinality(included))]
DriverList(O, found, offset, limit) ==
    Listed(O, {o \in O : o.driver \in found}, DriversOf(O) \cap found, OfDriver, DriverEntry, offset, limit)
TeamList(O, found, offset, limit) ==
    Listed(O, {o \in O : o.team \in found \ {Nothing}}, TeamsOf(O) \cap found, OfTeam, TeamEntry, offset, limit)
CircuitList(O, found, offset, limit) ==
    Listed(O, {o \in O : o.circuit \in found}, CircuitsOf(O) \cap found, OfCircuit, CircuitEntry, offset, limit)
Drivers(q, found, offset, limit) == DriverList(Query(q), found, offset, limit)
Constructors(q, found, offset, limit) == TeamList(Query(q), found, offset, limit)
Circuits(q, found, offset, limit) == CircuitList(Query(q), found, offset, limit)

\* The latest race first.
LatestFirst(R) == SetToSortSeq(R, >)
BySeason(O, Of(_)) == [y \in SeasonsOf(O) |-> Of(OfSeason(O, y))]
ByCircuit(O) == [c \in CircuitsOf(O) |-> Summary(OfCircuit(O, c))]

DriverProfile(O, offset, limit) ==
    [teams |-> TeamsOf(O), summary |-> Summary(O),
     seasons |-> BySeason(O, Summary), circuits |-> ByCircuit(O),
     races |-> Page(LatestFirst(RacesOf(O)), offset, limit),
     distribution |-> [n \in (1..20) \cap {o.finish : o \in O} |-> Cardinality({o \in O : o.finish = n})],
     coverage |-> [results |-> ResultCoverage(O), laps |-> LapCoverage(O), pits |-> PitCoverage(O)]]
DriverPage(d, q, offset, limit) == DriverProfile(OfDriver(Query(q), d), offset, limit)

OneTwo(O) == {1, 2} \subseteq {o.finish : o \in Classified(O)}
ConstructorProfile(O, offset, limit) ==
    [summary |-> TeamSummary(O), oneTwos |-> Cardinality({r \in RacesOf(O) : OneTwo(OfRace(O, r))}),
     seasons |-> BySeason(O, TeamSummary), drivers |-> DriverRows(O), circuits |-> ByCircuit(O),
     races |-> Page(LatestFirst(RacesOf(O)), offset, limit),
     perRace |-> [r \in RacesOf(O) |-> Summary(OfRace(O, r))],
     coverage |-> [results |-> ResultCoverage(O), pits |-> PitCoverage(O)]]
ConstructorPage(t, q, offset, limit) == ConstructorProfile(OfTeam(Query(q), t), offset, limit)

Stopped(O) == [stops |-> Stops(O), races |-> Cardinality(RacesOf(O))]
CircuitProfile(O, offset, limit) ==
    [races |-> RaceRows(O), shown |-> Page(LatestFirst(RacesOf(O)), offset, limit),
     winners |-> Cardinality(DriversOf({o \in O : o.finish = 1})),
     driverCount |-> Cardinality(DriversOf(O)), teamCount |-> Cardinality(TeamsOf(O)),
     dnfRate |-> <<Number(O, "dnf"), Cardinality(O) - Number(O, "dns")>>,
     drivers |-> DriverRows(O), teams |-> TeamRows(O), pitTrend |-> BySeason(WithPits(O), Stopped),
     coverage |-> [results |-> ResultCoverage(O), pits |-> PitCoverage(O)]]
CircuitPage(c, q, offset, limit) == CircuitProfile(OfCircuit(Query(q), c), offset, limit)

\* The page of a race; its movers are the first eight by positions gained.
RaceProfile(O) ==
    [winner |-> Winner(O), podium |-> DriversOf(Placed(O, 3)), drivers |-> O,
     movers |-> DriversOf({o \in O : o.gained # Nothing}), recorded |-> Recorded(O),
     stops |-> StopsOrNothing(O),
     dnf |-> Number(O, "dnf"), dns |-> Number(O, "dns"),
     coverage |-> [results |-> ResultCoverage(O), laps |-> LapCoverage(O), pits |-> PitCoverage(O)]]
RacePage(r) == RaceProfile(OfRace(observations, r))

-----------------------------------------------------------------------------
(* The comparison of two drivers, or of two constructors. *)
TheRow(O, r) == CHOOSE o \in O : o.race = r
DriverDuel(A, B) ==
    LET common == RacesOf(A) \cap RacesOf(B)
        Counts(r) == \A O \in {A, B} :
                       TheRow(O, r).outcome \in Comparable /\ TheRow(O, r).finish # Nothing
        Ahead(O, P) == {r \in common : Counts(r) /\ TheRow(O, r).finish < TheRow(P, r).finish}
        mates == {r \in common : TheRow(A, r).team # Nothing /\ TheRow(A, r).team = TheRow(B, r).team}
    IN [a |-> Cardinality(Ahead(A, B)), b |-> Cardinality(Ahead(B, A)), tied |-> 0,
        excluded |-> Cardinality({r \in common : ~ Counts(r)}), mates |-> Cardinality(mates)]
TeamDuel(A, B) ==
    LET common == RacesOf(A) \cap RacesOf(B)
        Ahead(O, P) == {r \in common : Points(OfRace(O, r)) > Points(OfRace(P, r))}
    IN [a |-> Cardinality(Ahead(A, B)), b |-> Cardinality(Ahead(B, A)),
        tied |-> Cardinality(common \ (Ahead(A, B) \cup Ahead(B, A))), excluded |-> 0, mates |-> 0]
Selected(O, common, mode) == IF mode = "common races" THEN {o \in O : o.race \in common} ELSE O
Comparison(sums, duel, common, eligible, A, B) ==
    [a |-> sums[1], b |-> sums[2], common |-> Cardinality(common), duel |-> duel,
     coverage |-> Coverage(eligible, A \cup B, Cardinality(A) + Cardinality(B))]
Compared(Duel(_, _), Summarize(_), A, B, common, mode) ==
    LET SA == Selected(A, common, mode)
        SB == Selected(B, common, mode)
    IN Comparison(<<Summarize(SA), Summarize(SB)>>, Duel(A, B), common, A \cup B, SA, SB)
Both(Duel(_, _), Summarize(_), A, B, mode) ==
    Compared(Duel, Summarize, A, B, RacesOf(A) \cap RacesOf(B), mode)
Compare(Of(_, _), Duel(_, _), Summarize(_), a, b, q, mode) ==
    Both(Duel, Summarize, Of(Query(q), a), Of(Query(q), b), mode)

(* Rankings: a value of whoever has started often enough, rounded half to    *)
(* even, the better of two equal ones being who started more, then by name.  *)
Rounded(pair, scale) ==
    LET n == pair[1] * scale
        down == n \div pair[2]
        rest == 2 * (n % pair[2])
    IN IF rest > pair[2] \/ (rest = pair[2] /\ down % 2 = 1) THEN down + 1 ELSE down
Entries(s) == IF "entries" \in DOMAIN s THEN s.entries ELSE s.starts
ValueOf(metric, s) ==
    CASE metric = "average finish" -> IF s.finish[2] = 0 THEN Nothing ELSE Rounded(s.finish, 10)
      [] metric = "dnf rate" -> IF Entries(s) = 0 THEN Nothing ELSE Rounded(<<s.dnf, Entries(s)>>, 1000)
      [] metric = "positions gained" -> s.gained[1]
      [] OTHER -> s[metric]
Ascending == {"average finish", "dnf rate"}
Ranked(rows, metric, minimum) ==
    LET valued == {[id |-> row.id, value |-> ValueOf(metric, row.summary), starts |-> row.summary.starts] : row \in rows}
        Better(a, b) ==
          \/ IF metric \in Ascending THEN a.value < b.value ELSE a.value > b.value
          \/ a.value = b.value /\ a.starts > b.starts
          \/ a.value = b.value /\ a.starts = b.starts /\ a.id < b.id
    IN SetToSortSeq({row \in valued : row.starts >= minimum /\ row.value # Nothing}, Better)
Rankings(rows, metric, minimum, offset, limit) ==
    LET shown == Page(Ranked(rows, metric, minimum), offset, limit)
    IN [shown EXCEPT !.items = [i \in DOMAIN @ |-> @[i] @@ [rank |-> offset + i]]]

\* coverage_report, and of an era.
CoverageReport ==
    [results |-> ResultCoverage(observations), laps |-> LapCoverage(observations),
     pits |-> PitCoverage(observations)]
Era(O) ==
    [races |-> Cardinality(RacesOf(O)), results |-> Cardinality(O),
     lapRaces |-> Cardinality(RacesOf(WithLaps(O))), pitRaces |-> Cardinality(RacesOf(WithPits(O)))]
EraCoverage(from, to) == Era(Query([Everything EXCEPT !.from = from, !.to = to]))

-----------------------------------------------------------------------------
(* The archive grows, event by event. *)
PagesInit == history = <<>> /\ observations = {}
Happens ==
    /\ Len(history) < Len(Calendar)
    /\ \E race \in MayHappen : history' = Append(history, race)
    /\ observations' = Observations(history')
PagesNext == Happens

-----------------------------------------------------------------------------
\* What the parts of a table add up to.
Seasons == {Calendar[i].season : i \in DOMAIN Calendar}
AddsUp(parts, whole, Value(_)) ==
    LET Of(id) == Value(parts[id]) IN SumOf(DOMAIN parts, Of) = Value(whole)
PointsOf(s) == s.points
WinsOf(s) == s.wins
StartsOf(s) == s.starts
LapsOf(s) == s.laps
Whole(parts, whole) ==
    /\ AddsUp(parts, whole, PointsOf) /\ AddsUp(parts, whole, WinsOf)
    /\ AddsUp(parts, whole, StartsOf) /\ AddsUp(parts, whole, LapsOf)
LastOf(q) == q[Len(q)]
HaveWon(rows) == {row \in rows : row.summary.wins > 0}

\* A season: its progressions end where its tables stand; a driver's wins are the races
\* shown as his and those he shared with another, who is shown; its winners are those of
\* its table who have won; and what it leaves out is what its coverage says, unless
\* nothing of it counts (coverage then speaks of the whole archive).
SeasonAgrees(y, page, O) ==
    LET All(i) == IF Calendar[i].season = y /\ history[i].status = CompletedStatus
                  THEN Cardinality(DOMAIN history[i].rows) ELSE 0
        Won(d) == {r \in DOMAIN page.races : page.races[r].winner = d}
        Ceded(d) == {r \in DOMAIN page.races : d \in Winners(OfRace(O, r))} \ Won(d)
    IN /\ \A row \in ToSet(page.drivers) :
            /\ row.id \in DOMAIN page.progression => LastOf(page.progression[row.id]) = row.summary.points
            /\ row.summary.wins = Cardinality(Won(row.id)) + Cardinality(Ceded(row.id))
            /\ row.summary.points <= page.leader.summary.points
       /\ \A row \in ToSet(page.teams) :
            row.id \in DOMAIN page.teamProgression => LastOf(page.teamProgression[row.id]) = row.summary.points
       /\ page.winners = Cardinality(HaveWon(ToSet(page.drivers)))
       /\ \A r \in DOMAIN page.races : page.races[r].winner = Nothing <=> Winners(OfRace(O, r)) = {}
       /\ Cardinality(O) + Excluded(O) = SumOf(DOMAIN history, All) \/ O = {}

\* A profile: the seasons, the circuits and the races it is made of add up to it; so do a
\* team's drivers.
FoundAlone(row, list) ==
    /\ list.page.items = <<row>>
    /\ list.coverage.races + list.coverage.missing = Cardinality(RacesOf(observations))
DriverAgrees(page, s, own) ==
    /\ Whole(page.seasons, s) /\ Whole(page.circuits, s)
    /\ s.starts = s.finishes + s.dnf + s.dsq + Number(own, "other")
    /\ (s.best = 1) = (s.wins > 0)
    /\ page.coverage.results.missing = 0
TeamAgrees(page, s, own) ==
    LET rows == [d \in DriversOf(own) |-> (CHOOSE row \in page.drivers : row.id = d).summary]
    IN /\ Whole(page.seasons, s)
       /\ AddsUp(rows, s, PointsOf) /\ AddsUp(page.perRace, s, WinsOf)
       /\ SumOf(DOMAIN rows, LAMBDA d : rows[d].starts) = s.entries
       /\ page.oneTwos <= s.wins
ProfilesAgree ==
    /\ \A row \in ToSet(Drivers(Everything, DriversOf(observations), 0, 50).page.items) :
         /\ DriverAgrees(DriverPage(row.id, Everything, 0, 50), row.summary, OfDriver(observations, row.id))
         /\ row.summary = DriverPage(row.id, Everything, 0, 50).summary
         /\ FoundAlone(row, Drivers(Everything, {row.id}, 0, 50))
    /\ \A row \in ToSet(Constructors(Everything, TeamsOf(observations), 0, 50).page.items) :
         /\ TeamAgrees(ConstructorPage(row.id, Everything, 0, 50), row.summary, OfTeam(observations, row.id))
         /\ row.summary = ConstructorPage(row.id, Everything, 0, 50).summary

\* A comparison says the same from either side, and accounts for every common race, but
\* for those in which two drivers shared a place: these it counts nowhere.
Mirrored(there, back, shared) ==
    /\ there.duel = [back.duel EXCEPT !.a = back.duel.b, !.b = back.duel.a]
    /\ there.common = there.duel.a + there.duel.b + there.duel.tied + there.duel.excluded + Cardinality(shared)
    /\ there.a.races = there.common /\ there.b = back.a
DuelsAgree ==
    LET Drive(d, e) == Compare(OfDriver, DriverDuel, Summary, d, e, Everything, "common races")
        Team(t, u) == Compare(OfTeam, TeamDuel, TeamSummary, t, u, Everything, "common races")
        PlacesOf(d, r) == {o.finish : o \in Classified(OfRace(OfDriver(observations, d), r))} \ {Nothing}
        Shared(d, e) == {r \in RacesOf(observations) : PlacesOf(d, r) \cap PlacesOf(e, r) # {}}
    IN /\ \A d, e \in DriversOf(observations) : d # e => Mirrored(Drive(d, e), Drive(e, d), Shared(d, e))
       /\ \A t, u \in TeamsOf(observations) : t # u => Mirrored(Team(t, u), Team(u, t), {})

\* The pages of a ranking, one by one, are the ranking; its first is a season's leader.
PagedAlike(rows, metric, whole) ==
    \A k \in 1..whole.total :
      /\ Rankings(rows, metric, 1, k - 1, 1).items = <<whole.items[k]>>
      /\ whole.items[k].rank = k
Headed(whole, leader) ==
    whole.total > 0 => whole.items[1].value = leader.summary.points \/ leader.summary.starts = 0
RankingsAgree ==
    \A y \in Seasons :
      LET Table(metric) == Rankings(DriverRows(Query(InSeason(y))), metric, 1, 0, 50)
      IN /\ \A metric \in {"points", "average finish", "dnf rate"} :
              PagedAlike(DriverRows(Query(InSeason(y))), metric, Table(metric))
         /\ Headed(Table("points"), SeasonPage(y).leader)

\* The circuits share the races out among them, and tell of each what its season tells.
\* The list's winners are those of the page's table who have won there; the page's own
\* number also counts whoever was placed first without being classified.
CircuitAgrees(row, page, unclassified) ==
    /\ row.winners = Cardinality(HaveWon(page.drivers))
    /\ row.winners <= page.winners /\ (unclassified = {} => page.winners = row.winners)
    /\ \A r \in DOMAIN page.races :
         /\ page.races[r] = SeasonPage(Calendar[r].season).races[r]
         /\ page.races[r].winner = RacePage(r).winner
CircuitsAgree ==
    LET shown == ToSet(Circuits(Everything, CircuitsOf(observations), 0, 50).page.items)
        Unclassified(c) == {o \in OfCircuit(observations, c) \ Classified(observations) : o.finish = 1}
    IN /\ SumOf(shown, LAMBDA row : row.races) = Cardinality(RacesOf(observations))
       /\ \A row \in shown : CircuitAgrees(row, CircuitPage(row.id, Everything, 0, 50), Unclassified(row.id))

(* The pages of the analytics engine are made one by one of the same races,  *)
(* each with its own filter on what counts, and yet agree about points, wins *)
(* and races: a table's rows, its progression, the profiles, the comparisons *)
(* seen from either side, the rankings page by page and the circuits; what   *)
(* is missing from them is what the coverage says.  They disagree where it   *)
(* says so above, and nowhere else: of two who share the first place one is  *)
(* shown as the winner and both have won; a place shared is no result of a   *)
(* comparison of drivers; a circuit's own page counts a first place that is  *)
(* not classified among its winners, where its list does not; the coverage   *)
(* of a season without a race that counts is the archive's.                  *)
PagesAgree ==
    history # <<>> =>
      /\ \A y \in Seasons : SeasonAgrees(y, SeasonPage(y), Query(InSeason(y)))
      /\ SumOf(Seasons, LAMBDA y : EraCoverage(y, y).races) = CoverageReport.results.races
      /\ ProfilesAgree /\ DuelsAgree /\ RankingsAgree /\ CircuitsAgree
===============================================================================
