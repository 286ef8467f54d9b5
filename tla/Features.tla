-------------------------------- MODULE Features --------------------------------
(***************************************************************************)
(* What the models are given (ml/features.py, contracts.py): the features  *)
(* of a driver at the end of a lap, for the examples they are trained on   *)
(* (dataset.py) and for what they answer at a time (inference.py).         *)
(*                                                                         *)
(* Why a row is no feature is not told apart, nor what the models make of  *)
(* one.  A lap has its time, the age of its tyres, and whether it is       *)
(* accurate, generated, and run on a clear track; weather has whether it   *)
(* is wet and whether its temperatures and humidity are known; a message   *)
(* says that the session started, finished, or something else.             *)
(***************************************************************************)
EXTENDS ReplayEngine

CONSTANTS
    Plausible,     \* the lap times a representative lap may have
    Dry,           \* DRY_COMPOUNDS
    Clear, RedFlag,
    PlausibleLoss  \* what a pit cycle may cost

VARIABLE advice    \* what was asked for: examples, a forecast or a simulation; none changes the session

LapsFor(s, d) == {l \in s.laps : l.driver = d}
Known(x) == x # None
EndedBy(l, t) == Known(l.end) /\ l.end <= t
TheLast(S, n) == {l \in S : Cardinality({o \in S : o.lap > l.lap}) < n}

\* CanonicalFeatureBuilder.__init__: a start after a red flag, none between them ...
RestartTimes(s) ==
    LET NotAfter(a, b) == a = b \/ Before(<<a.at, a.id>>, <<b.at, b.id>>)
        Starts(c) == c.says = "started"
    IN {c.at : c \in {c \in s.control : Starts(c) /\
            \E r \in s.control : r.status = RedFlag /\ NotAfter(r, c) /\
                \A x \in s.control : Starts(x) /\ NotAfter(r, x) /\ NotAfter(x, c) => x = c}}
\* ... and the first timed lap of a driver that ends after one.
IsRestartLap(s, l) ==
    \E t \in RestartTimes(s) :
        LET timed == {o \in LapsFor(s, l.driver) : Known(o.end) /\ o.end > t /\ Known(o.time)}
        IN l \in timed /\ \A o \in timed : l.lap <= o.lap

SessionIsFinishedAt(s, t) == \E c \in s.control : c.at <= t /\ c.says = "finished"

PitLapsFor(s, d) == {p.lap : p \in {p \in s.stops : p.driver = d}}

\* The one weather observed last; None before the first.
WeatherAt(s, t) ==
    LET seen == {w \in s.weather : w.at <= t}
    IN IF seen = {} THEN None ELSE CHOOSE w \in seen : \A o \in seen : o.at <= w.at
LapWeatherIsDry(s, l) ==
    /\ Known(l.start) /\ Known(l.end)
    /\ WeatherAt(s, l.start) # None /\ WeatherAt(s, l.start).wet = FALSE
    /\ \A w \in s.weather : l.start < w.at /\ w.at <= l.end => w.wet = FALSE

\* eligibility, lap_eligibility
Eligible(s, l) ==
    /\ Known(l.end) /\ ~ IsRestartLap(s, l)
    /\ l.lap > 1 /\ l.time \in Plausible
    /\ ~ l.deleted /\ ~ l.generated /\ l.accurate
    /\ l.compound \in Dry
    /\ {l.lap, l.lap - 1} \cap PitLapsFor(s, l.driver) = {}
    /\ LapWeatherIsDry(s, l) /\ l.clear

\* latest_completed_lap
Completed(s, d, t) == TheLast({l \in LapsFor(s, d) : EndedBy(l, t)}, 1)

IsLappedAtBoundary(s, l) == \E o \in s.laps : EndedBy(o, l.end) /\ o.lap > l.lap

\* _feature_for_lap, of a lap that is eligible
MutSeenBy(s, l) == {p \in s.positions : p.driver = l.driver}
SeenBy(s, l) == {p \in s.positions : p.driver = l.driver /\ p.at <= l.end}
FeatureForLap(s, l) ==
    LET history == {o \in LapsFor(s, l.driver) : o.lap <= l.lap /\ EndedBy(o, l.end) /\ Eligible(s, o)}
        weather == WeatherAt(s, l.end)
        places == SeenBy(s, l)
        place == CHOOSE p \in places : \A o \in places : ~ Before(<<p.at, p.id>>, <<o.at, o.id>>)
    IN IF /\ Eligible(s, l) /\ Known(l.life) /\ Known(l.stint)
          /\ ~ IsLappedAtBoundary(s, l)
          /\ Cardinality(history) >= 2
          /\ weather # None /\ weather.measured
          /\ places # {}
       THEN [driver |-> l.driver, at |-> l.end, lap |-> l.lap, life |-> l.life, stint |-> l.stint,
             pits |-> Cardinality({p \in s.stops :
                        p.driver = l.driver /\ Known(p.exit) /\ p.exit <= l.end}),
             place |-> place.place, recent |-> {<<o.lap, o.time>> : o \in TheLast(history, 3)},
             weather |-> weather.id, compound |-> l.compound]
       ELSE None
\* feature_at
FeatureAt(s, d, t) ==
    IF Completed(s, d, t) = {} THEN None
    ELSE FeatureForLap(s, CHOOSE l \in Completed(s, d, t) : TRUE)

--------------------------------------------------------------------------------
\* _pace_rows: a feature, and the time of the next lap.
PaceRows(s) ==
    LET After(l) == {n \in LapsFor(s, l.driver) :
            n.lap = l.lap + 1 /\ Known(n.time) /\ Known(n.end) /\ Eligible(s, n)}
    IN UNION {{[feature |-> FeatureForLap(s, l), target |-> n.lap, until |-> n.end, time |-> n.time] :
                n \in After(l)} : l \in {l \in s.laps : FeatureForLap(s, l) # None}}

\* _pit_rows: the laps in and out, both usable, and up to three clean laps before them.
InCycle(s, l) ==
    /\ l.time \in Plausible /\ Known(l.start) /\ Known(l.end) /\ ~ l.deleted /\ ~ l.generated
    /\ ~ IsRestartLap(s, l) /\ l.clear /\ LapWeatherIsDry(s, l) /\ l.compound \in Dry
CleanBefore(s, p) ==
    TheLast({l \in LapsFor(s, p.driver) : l.lap < p.lap /\ Eligible(s, l)}, 3)
TwiceMedian(laps) ==
    LET times == Ordered([l \in laps |-> <<l.time, l.lap>>])
    IN IF Len(times) = 2 THEN times[1].time + times[2].time ELSE 2 * times[2].time
PitRows(s) ==
    LET Cycle(p, n) == {l \in LapsFor(s, p.driver) : l.lap = n /\ InCycle(s, l)}
        Losses(p) == {loss \in {in.time + out.time - TwiceMedian(CleanBefore(s, p)) :
                                in \in Cycle(p, p.lap), out \in Cycle(p, p.lap + 1)} : loss \in PlausibleLoss}
        Usable(p) ==
            /\ Known(p.enter) /\ Known(p.exit)
            /\ Cardinality(CleanBefore(s, p)) >= 2
            /\ \A l \in CleanBefore(s, p) : l.end < p.enter
    IN UNION {{[driver |-> p.driver, lap |-> p.lap, before |-> CleanBefore(s, p),
                enter |-> p.enter, until |-> p.exit, loss |-> loss] : loss \in Losses(p)}
              : p \in {p \in s.stops : Usable(p)}}

\* build_dataset, for one session of the corpus
Examples(s) == [pace |-> PaceRows(s), pits |-> PitRows(s)]
BuildDataset ==
    /\ engine # None /\ advice = None
    /\ advice' = [kind |-> "examples", got |-> Examples(stored.session)]
    /\ UNCHANGED replayVars

\* MLInferenceEngine.predict, up to what the models answer
Forecast(s, d, t) == IF SessionIsFinishedAt(s, t) THEN None ELSE FeatureAt(s, d, t)
Predict(d, t) ==
    /\ engine # None /\ advice = None
    /\ advice' = [kind |-> "forecast", driver |-> d, at |-> t, got |-> Forecast(stored.session, d, t)]
    /\ UNCHANGED replayVars
=================================================================================
