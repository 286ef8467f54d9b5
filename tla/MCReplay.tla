-------------------------------- MODULE MCReplay --------------------------------
(* Sessions of two drivers: the laps, stops, stints and positions of one with *)
(* a fixed record of the race, and the records of the race with fixed laps;   *)
(* races to advise on, each with one thing about it that is not usual.  And   *)
(* the page.  The parts share no variable that matters: a behaviour is of one *)
(* of them; the fairness is the page's, and bears on its behaviours alone.    *)
EXTENDS RaceStrategy, Playback
VARIABLE part
NA == None
Lap(id, d, n, start, end, enter, exit, stint, deleted) ==
    [id |-> id, driver |-> d, lap |-> n, start |-> start, end |-> end, enter |-> enter, exit |-> exit,
     stint |-> stint, compound |-> IF stint = NA THEN 0 ELSE stint, deleted |-> deleted,
     time |-> IF end = NA THEN NA ELSE 2, life |-> n, accurate |-> TRUE, generated |-> FALSE, clear |-> TRUE]
At(id, d, at, place, n) == [id |-> id, driver |-> d, at |-> at, place |-> place, lap |-> n]
Control(id, source, at, status) ==
    [id |-> id, source |-> source, at |-> at, status |-> status, says |-> "something"]
Weather(id, at, wet) == [id |-> id, at |-> at, wet |-> wet, measured |-> TRUE]

First == {Lap(1, 1, 1, 0, 2, enter, NA, 1, FALSE) : enter \in {NA, 2}}
Second == {Lap(2, 1, 2, 2, 4, NA, NA, 1, FALSE), Lap(2, 1, 2, 2, 4, NA, 3, 2, FALSE),
           Lap(2, 1, 2, 2, 4, 3, 4, 2, FALSE), Lap(2, 1, 2, NA, 4, 3, 4, NA, FALSE)}
Third == {Lap(3, 1, 3, 4, 5, NA, 5, 2, FALSE), Lap(3, 1, 3, 4, NA, NA, NA, 1, FALSE),
          Lap(3, 1, 3, 4, 5, 5, NA, 2, TRUE)}
Others == {Lap(4, 2, 1, 0, 3, NA, NA, 1, FALSE), Lap(5, 2, 1, 0, 1, NA, NA, 2, FALSE)}
Laps == {{f, s, t} \cup o : f \in First, s \in Second, t \in Third, o \in SUBSET Others}
Positions == SUBSET {At(1, 1, 2, 1, 1), At(2, 2, 3, 1, 1), At(3, 1, 5, 1, 2), At(4, 1, 5, 1, 3)}
Controls ==
    SUBSET {Control(1, 1, 1, 1), Control(2, 1, 3, 1), Control(3, 2, 3, 2),
            Control(4, 2, 5, 2), Control(5, 1, NA, 1)}
Weathers == SUBSET {Weather(1, 2, FALSE), Weather(2, 2, FALSE), Weather(3, 4, FALSE)}
Rows(laps, positions, control, weather) ==
    [laps |-> laps, positions |-> positions, control |-> control, weather |-> weather]
AnyLaps == {Lap(1, 1, 1, 0, 2, 2, NA, 1, FALSE), Lap(2, 1, 2, 2, 4, NA, 3, 2, FALSE)}

(* A race: laps of 2, the second driver 1 behind; a stop of the first at 6. *)
OnStint(n) == IF n < 4 THEN 1 ELSE 2
Steady == {Lap(n, 1, n, 2 * n - 2, 2 * n, NA, NA, 1, FALSE) : n \in 1..5}
Stopping == {Lap(n, 1, n, 2 * n - 2, 2 * n, NA, NA, OnStint(n), FALSE) : n \in {1, 2, 4}}
            \cup {Lap(3, 1, 3, 4, 6, 6, NA, 1, FALSE), Lap(4, 1, 4, 6, 8, NA, 7, 2, FALSE)}
Stopped == {Lap(n, 1, n, 2 * n - 2, 2 * n, NA, NA, 1, FALSE) : n \in 1..3}
           \cup {[Lap(4, 1, 4, 6, 8, 7, NA, 1, FALSE) EXCEPT !.time = 3],
                 [Lap(5, 1, 5, 8, 10, NA, 9, 2, FALSE) EXCEPT !.accurate = FALSE]}
Early == {Lap(1, 1, 1, 0, 2, 2, NA, 1, FALSE), Lap(2, 1, 2, 2, 4, NA, 3, 2, FALSE)}
         \cup {Lap(n, 1, n, 2 * n - 2, 2 * n, NA, NA, 2, FALSE) : n \in 3..5}
Behind == {Lap(10 + n, 2, n, IF n = 1 THEN 0 ELSE 2 * n - 1, 2 * n + 1, NA, NA, 1, FALSE) : n \in 1..4}
Change(laps, id, f, v) == {IF l.id = id THEN [l EXCEPT ![f] = v] ELSE l : l \in laps}
Mine == {Steady, Stopped, Early, {l \in Stopping : l.id # 4 \/ l.exit # NA}}
        \cup {Change(Steady, 3, f, TRUE) : f \in {"deleted", "generated"}}
        \cup {Change(Steady, 2, f, FALSE) : f \in {"accurate", "clear"}}
        \cup {Change(Steady, 4, f, NA) : f \in {"time", "life", "end"}}
Theirs == {Behind, {l \in Behind : l.lap < 3}, Change(Behind, 13, "deleted", TRUE),
           Change(Behind, 13, "enter", 7), Change(Behind, 12, "time", NA)}
TheOrder == {At(n, 1, 2 * n, 1, n) : n \in 1..5} \cup {At(10 + n, 2, 2 * n + 1, 2, n) : n \in 1..2}
Green == {Control(1, 1, 0, 1)}
Says(id, at, status, what) == [Control(id, 1, at, status) EXCEPT !.says = what]
Restarted == {Says(2, 1, 5, "stopped"), Says(3, 3, 1, "started")}
Ended == {Says(4, 7, 1, "finished")}
Fine == {Weather(1, 0, FALSE)}
Races ==
    {Rows(m, TheOrder, Green, Fine) : m \in Mine}
    \cup {Rows(Steady \cup t, TheOrder, Green, Fine) : t \in Theirs}
    \cup {Rows(m \cup Behind, TheOrder, Green, Fine) : m \in Mine}
    \cup {Rows(Steady \cup Behind, TheOrder, c, w) :
            c \in {Green \cup Restarted, Green \cup Ended, {}},
            w \in {Fine, Fine \cup {Weather(2, 5, TRUE), Weather(3, 7, FALSE)}, {}}}
    \cup {Rows(Steady \cup Behind, o, Green, Fine) :
            o \in {{}, {At(n, 1, 2 * n, IF n < 4 THEN 1 ELSE 2, n) : n \in 1..5},
                   {At(1, 1, 4, 2, 2), At(2, 2, 5, 1, 2), At(3, 1, 5, 1, 2)}}}
TheSessions == {Rows(l, p, {Control(3, 2, 3, 2)}, {}) : l \in Laps, p \in Positions}
               \cup {Rows(AnyLaps, {}, c, w) : c \in Controls, w \in Weathers}
               \cup Races

Stop(n, c) == [lap |-> n, compound |-> c]
ThePlans == {<<Stop(4, 2), Stop(6, 1)>>}
MediumSoft == <<1, 2>>

Init == AdviceInit /\ PlayInit /\ part \in {"engine", "page", "advice"}
        /\ (part # "page" => view.cur = 0) /\ (part = "page" => rows = Rows(AnyLaps, {}, {}, {}))
        /\ (part # "page" => (part = "advice") = (rows \in Races))
Next == \/ part = "engine" /\ ReplayNext /\ UNCHANGED <<advice, race, playVars, part>>
        \/ part = "advice" /\ AdviceNext /\ UNCHANGED <<playVars, part>>
        \/ part = "page" /\ PlayNext /\ UNCHANGED <<adviceVars, part>>
EngineSpec == Init /\ [][Next]_<<adviceVars, playVars, part>>
Spec == EngineSpec /\ PlayFairness
=================================================================================
