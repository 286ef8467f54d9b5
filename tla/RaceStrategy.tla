------------------------------ MODULE RaceStrategy ------------------------------
(***************************************************************************)
(* The rest of a race as the strategy engine simulates it (strategy/       *)
(* engine.py, contracts.py): the field as it is at the cursor, a strategy  *)
(* for one driver, and one path, lap after lap, until the winner is home.  *)
(*                                                                         *)
(* A lap takes any time of Duration and a pit stop costs any of Loss more: *)
(* what the models and the noise make of a lap is left open.               *)
(***************************************************************************)
EXTENDS Features

CONSTANTS Duration, Loss, Strategies, Distance,
    LongRest,      \* 18 laps: enough for two stops,
    TwoStop        \*   for the compounds of this sequence

ASSUME RaceAssumption ==
    /\ Duration \subseteq Nat \ {0} /\ Loss \subseteq Nat /\ Distance \subseteq Nat
    /\ \A strategy \in Strategies : \A i \in DOMAIN strategy : strategy[i].lap \in Nat

VARIABLE race      \* the path simulated: its cars, the queue of laps, the winner's time

adviceVars == <<replayVars, advice, race>>

\* build_state: who can be simulated.
Running(s, state, d, t) ==
    LET car == state.car[d]
    IN /\ car.status = "active" /\ ~ car.inPit
       /\ car.compound \in Dry /\ Known(car.age) /\ Known(car.last)
       /\ Completed(s, d, t) # {}
Entry(s, state, d, t) ==
    LET car == state.car[d]
        done == {l \in LapsFor(s, d) : EndedBy(l, t)}
        latest == CHOOSE l \in done : \A o \in done : ~ Before(<<l.end, l.lap>>, <<o.end, o.lap>>)
    IN [laps |-> car.laps, at |-> latest.end, elapsed |-> t - latest.end,
        compound |-> car.compound, age |-> car.age, stint |-> IF Known(car.stint) THEN car.stint ELSE 1,
        stops |-> car.stops, place |-> IF Known(car.place) THEN car.place ELSE 30,
        used |-> {car.compound} \cup ({l.compound : l \in done} \cap Dry),
        given |-> FeatureAt(s, d, t)]
BuildState(s, got, d, t, total) ==
    LET state == got.state
        field == {o \in Driver : Running(s, state, o, t)}
    IN IF /\ ~ SessionIsFinishedAt(s, t)
          /\ state.track = Clear
          /\ state.weather # None /\ state.weather.wet = FALSE
          /\ Known(got.lap) /\ total > got.lap
          /\ FeatureAt(s, d, t) # None
          /\ d \in field /\ Cardinality(field) >= 2
       THEN [o \in field |-> Entry(s, state, o, t)]
       ELSE None

\* validate_strategy; next_actionable_lap of a driver is two after the last it has completed.
Actionable(entry) == entry.laps + 2
ValidStrategy(strategy, entry, total) ==
    \A i \in DOMAIN strategy : strategy[i].lap >= Actionable(entry) /\ strategy[i].lap <= total

\* simulate: a strategy that is not valid is refused.
FieldAt(d, t, total) ==
    LET got == StateAt(stored, engine, t)
    IN IF "state" \in DOMAIN got THEN BuildState(stored.session, got, d, t, total) ELSE None
Asked(d, t, strategy, total, field) ==
    [kind |-> "simulation", driver |-> d, at |-> t, strategy |-> strategy, total |-> total, field |-> field]
Simulate(d, t, strategy, total) ==
    /\ engine # None /\ advice = None
    /\ LET field == FieldAt(d, t, total)
       IN /\ field # None => ValidStrategy(strategy, field[d], total)
          /\ advice' = Asked(d, t, strategy, total, field)
    /\ UNCHANGED <<replayVars, race>>

\* generate_candidates: to stay out, to stop half-way for each other compound, to stop twice.
Stay == <<>>
Candidates(entry, total) ==
    LET first == Actionable(entry)
        rest == total - first + 1
        Half(c) == <<[lap |-> first + (rest - 1) \div 2, compound |-> c]>>
        Thirds == <<[lap |-> first + rest \div 3, compound |-> TwoStop[1]],
                    [lap |-> first + (2 * rest) \div 3, compound |-> TwoStop[2]]>>
    IN IF rest < 2 THEN {Stay}
       ELSE {Stay} \cup {Half(c) : c \in Dry \ {entry.compound}}
                  \cup (IF rest >= LongRest THEN {Thirds} ELSE {})
\* compare, of the candidates, one of them at a time: of two at least, and all of them valid.
Compare(d, t, total) ==
    /\ engine # None /\ advice = None
    /\ LET field == FieldAt(d, t, total)
           compared == Candidates(field[d], total)
       IN /\ field # None /\ Cardinality(compared) >= 2
          /\ \A strategy \in compared : ValidStrategy(strategy, field[d], total)
          /\ \E strategy \in compared : advice' = Asked(d, t, strategy, total, field)
    /\ UNCHANGED <<replayVars, race>>

--------------------------------------------------------------------------------
\* _schedule_next, for any time longer than `least': the next lap of a car, and its stop before it.
Action(d, lap) ==
    {i \in DOMAIN advice.strategy : d = advice.driver /\ advice.strategy[i].lap = lap}
Scheduled(car, d, duration, loss) ==
    LET stop == Action(d, car.laps + 1)
    IN IF stop = {}
       THEN [car EXCEPT !.age = @ + 1, !.next = @ + duration, !.times = Append(@, car.next + duration)]
       ELSE [car EXCEPT !.age = 1, !.stint = @ + 1, !.stops = @ + 1,
                        !.compound = advice.strategy[CHOOSE i \in stop : TRUE].compound,
                        !.next = @ + duration + loss, !.times = Append(@, car.next + duration + loss),
                        !.stopped = @ \cup {car.laps + 1}]

\* _path: every car is on its next lap, for longer than it has been already ...
Start ==
    /\ advice # None /\ advice.kind = "simulation" /\ advice.field # None /\ race = None
    /\ LET field == advice.field
           Car(d) == [laps |-> field[d].laps, next |-> field[d].at, compound |-> field[d].compound,
                      age |-> field[d].age, stint |-> field[d].stint, stops |-> field[d].stops,
                      times |-> <<>>, stopped |-> {}]
       IN \E lasts \in [DOMAIN field -> Duration], loss \in Loss :
            /\ \A d \in DOMAIN field :
                lasts[d] + (IF Action(d, field[d].laps + 1) = {} THEN 0 ELSE loss) > field[d].elapsed
            /\ race' = [car |-> [d \in DOMAIN field |-> Scheduled(Car(d), d, lasts[d], loss)],
                        queued |-> [d \in DOMAIN field |->
                                        Cardinality({o \in DOMAIN field : o < d})],
                        winner |-> None, over |-> FALSE]
    /\ UNCHANGED <<replayVars, advice>>

\* ... and the one that completes it first, of two at once the one queued first, begins another,
\* until the distance is done; whoever completes none by then is on the lap it is on.
MutTooLate(completion, winner) == Known(winner) /\ completion >= winner
TooLate(completion, winner) == Known(winner) /\ completion > winner
NextLap ==
    /\ race # None /\ ~ race.over
    /\ LET queue == DOMAIN race.queued
           First(d) == \A o \in queue :
                ~ Before(<<race.car[o].next, race.queued[o]>>, <<race.car[d].next, race.queued[d]>>)
       IN IF queue = {} THEN race' = [race EXCEPT !.over = TRUE]
          ELSE \E d \in {d \in queue : First(d)}, duration \in Duration, loss \in Loss :
            LET car == [race.car[d] EXCEPT !.laps = @ + 1]
                last == CHOOSE n \in {race.queued[o] : o \in queue} :
                            \A o \in queue : race.queued[o] <= n
            IN IF TooLate(car.next, race.winner) THEN race' = [race EXCEPT !.over = TRUE]
               ELSE IF car.laps >= advice.total
               THEN race' = [race EXCEPT !.car[d] = car,
                                         !.queued = [o \in queue \ {d} |-> race.queued[o]],
                                         !.winner = IF Known(@) THEN @ ELSE car.next]
               ELSE race' = [race EXCEPT !.car[d] = Scheduled(car, d, duration, loss),
                                         !.queued[d] = last + 1]
    /\ UNCHANGED <<replayVars, advice>>

\* The place of a driver in the end.
Place(d) ==
    LET Rank(o) == <<- race.car[o].laps, race.car[o].next, advice.field[o].place, o>>
    IN 1 + Cardinality({o \in DOMAIN race.car : Before(Rank(o), Rank(d))})

--------------------------------------------------------------------------------
AdviceInit == ReplayInit /\ advice = None /\ race = None
AdviceNext ==
    \/ Ingest /\ UNCHANGED <<advice, race>>
    \/ Open /\ UNCHANGED <<advice, race>>
    \/ BuildDataset /\ UNCHANGED race
    \/ \E d \in Driver, t \in Time : Predict(d, t) /\ UNCHANGED race
    \/ \E d \in Driver, t \in Time, strategy \in Strategies, total \in Distance :
        Simulate(d, t, strategy, total)
    \/ \E d \in Driver, t \in Time, total \in Distance : Compare(d, t, total)
    \/ Start \/ NextLap
AdviceSpec == AdviceInit /\ [][AdviceNext]_adviceVars

\* No car is in the pits, or out of them, on a lap that has ended by then.
PitsInLaps(s) ==
    \A l, o \in s.laps :
        o.driver = l.driver /\ o.lap <= l.lap => InOrder(o.enter, l.end) /\ InOrder(o.exit, l.end)

(* Nothing of what is predicted or simulated at a time, or put together as *)
(* an example of it, is known only later: a session that ends there gives  *)
(* the same, and what an example asks for comes after it.  A stop may keep *)
(* its laps from being examples whenever it was, so it must be before they *)
(* end; of a simulated car the tyres are those shown (see NoLookAhead).    *)
KnownAt(t) == Derived(Cut(Records(rows), t))
AdviceCausal ==
    advice # None /\ race = None /\ PitsInLaps(stored.session) =>
        CASE advice.kind = "forecast" ->
                advice.got = Forecast(KnownAt(advice.at), advice.driver, advice.at)
          [] advice.kind = "examples" ->
                /\ \A r \in advice.got.pace :
                    LET s == KnownAt(r.feature.at)
                    IN r.feature = FeatureAt(s, r.feature.driver, r.feature.at) /\ r.until > r.feature.at
                /\ \A r \in advice.got.pits :
                    r.before = CleanBefore(KnownAt(r.enter), r) /\ r.enter <= r.until
          [] OTHER -> FirstTyres(stored.session) =>
                LET s == KnownAt(advice.at)
                    got == [state |-> [Replayed(Fresh, Timeline(s)) EXCEPT !.at = advice.at],
                            lap |-> ReferenceLap(Cursors(s), advice.at)]
                IN advice.field =
                    IF advice.at > Last(stored.events).at THEN None
                    ELSE BuildState(s, got, advice.driver, advice.at, advice.total)

Begun(d) == race.car[d].laps + (IF d \in DOMAIN race.queued THEN 1 ELSE 0)
(* Every car goes on from the lap it is on at the cursor, and makes the    *)
(* stops planned for the laps it begins, each once and after the cursor,   *)
(* and no other.  (A car whose last lap is deleted: see README.)           *)
StopsAsPlanned ==
    race # None =>
        \A d \in DOMAIN race.car :
            LET entry == advice.field[d]
                car == race.car[d]
                planned == IF d # advice.driver THEN {}
                           ELSE {advice.strategy[i].lap : i \in DOMAIN advice.strategy}
            IN /\ \E l \in LapsFor(stored.session, d) :
                    l.end = entry.at /\ (l.lap = entry.laps \/ l.deleted)
               /\ race.over => car.stopped = {n \in planned : n <= Begun(d)}
               /\ car.stops = entry.stops + Cardinality(car.stopped)
               /\ \A n \in car.stopped : n > entry.laps + 1 /\ car.times[n - entry.laps - 1] > advice.at

(* No car of the field has begun the lap it can first stop for, as the      *)
(* contract of a driver's state says of its next actionable lap.            *)
NextLapNotStarted ==
    advice # None /\ advice.kind = "simulation" /\ advice.field # None =>
        \A d \in DOMAIN advice.field :
            ~ \E l \in LapsFor(stored.session, d) :
                Known(l.start) /\ l.start < advice.at /\ l.lap >= Actionable(advice.field[d])

(* In whatever order the laps were simulated, the winner is who does the   *)
(* distance first, the others have done what they completed by then, and   *)
(* of two with as many laps the one that ends its lap first is ahead.  (A  *)
(* car that has done the distance before the cursor: see README.)          *)
ClassifiedAtTheFlag ==
    race # None /\ race.over /\ (\A d \in DOMAIN race.car : advice.field[d].laps < advice.total) =>
        LET cars == DOMAIN race.car
            Ends(d, n) == race.car[d].times[n - advice.field[d].laps]
            homes == {Ends(d, advice.total) : d \in {d \in cars :
                        advice.total - advice.field[d].laps \in DOMAIN race.car[d].times}}
            flag == CHOOSE t \in homes : \A o \in homes : t <= o
            Done(d) == advice.field[d].laps
                        + Cardinality({i \in DOMAIN race.car[d].times : race.car[d].times[i] <= flag})
            Ahead(o, d) ==
                \/ Done(o) > Done(d)
                \/ Done(o) = Done(d) /\ Done(d) < advice.total /\ Ends(o, Done(o) + 1) < Ends(d, Done(d) + 1)
        IN /\ race.winner = flag
           /\ \A d \in cars : race.car[d].laps = Done(d)
           /\ \A o, d \in cars : Ahead(o, d) => Place(o) < Place(d)

(* A simulated race is driven as it was advised and classified as it ended. *)
RacedAsAdvised == StopsAsPlanned /\ ClassifiedAtTheFlag
=================================================================================
