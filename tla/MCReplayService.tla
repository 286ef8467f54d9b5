---------------------------- MODULE MCReplayService ---------------------------
(* What the API answers from: the repository, being ingested into, with the  *)
(* replay service over it; the analytics engine over an archive that is      *)
(* being synchronized; and what its pages say.  They share no variable: a    *)
(* behaviour is of one of them, as their product would say no more.          *)
EXTENDS ReplayService, AnalyticsEngine, Analytics, TLC

CONSTANTS monza
VARIABLE part

AllOfOne == [c \in Content |-> monza]

\* Two circuits, one of them visited twice; a finish of each kind, a car of either team, a
\* race of three drivers and of one, places that are shared, a first place that was taken
\* away, one of no use and one that was cancelled.
An(year, round, circuit) == [season |-> year, round |-> round, circuit |-> circuit]
MCCalendar == <<An(2000, 1, 1), An(2000, 2, 2), An(2001, 1, 1)>>
Result(status, classified, grid, finish, points, laps) ==
    [status |-> status, classified |-> classified, grid |-> grid, finish |-> finish,
     points |-> points, laps |-> laps]
Won == Result("finished", TRUE, 2, 1, 2, 3)
Second == Result("laps down", TRUE, 1, 2, 1, 2)
Third == Result("laps down", TRUE, 3, 3, 0, 2)
Stranded == Result("engine", TRUE, 1, 2, 1, 2)
Retired == Result("engine", FALSE, 0, 2, 0, 1)
Away == Result("withdrew", FALSE, Nothing, Nothing, Nothing, 0)
Out == Result("disqualified", FALSE, 1, Nothing, 0, 3)
Untold == Result(Nothing, FALSE, 2, Nothing, 0, Nothing)
Level == Result("finished", TRUE, 1, 1, 2, 3)
Stripped == Result("disqualified", FALSE, 1, 1, 0, 3)
In(result, team, stops) == [team |-> team, stops |-> stops] @@ result
Two(a, b, team, other) == (1 :> In(a, team, 1)) @@ (2 :> In(b, other, 2))
Three == Two(Second, Won, 1, 2) @@ (3 :> In(Third, 2, 0))
Race(rows, quality, laps, pits) ==
    [status |-> "completed", quality |-> quality, laps |-> laps, pits |-> pits, rows |-> rows]
MCMayHappen ==
    {Race(Two(Won, b, 1, 2), "verified", TRUE, TRUE) : b \in {Second, Retired, Stranded, Away, Out, Untold}}
    \cup {Race(Two(a, Won, 1, 2), "good", FALSE, FALSE) : a \in {Second, Retired}}
    \cup {Race(Two(Second, Won, 1, 1), "good", TRUE, FALSE),
          Race(Two(Away, Retired, 2, Nothing), "verified", TRUE, TRUE),
          Race(Three, "good", TRUE, TRUE), Race(1 :> In(Won, 2, 1), "good", TRUE, TRUE),
          Race(Two(Won, Level, 1, 2), "verified", TRUE, TRUE),
          Race(Two(Second, Won, 1, 2) @@ (3 :> In(Second, 2, 0)), "good", TRUE, TRUE),
          Race(Two(Second, Stripped, 1, 2), "verified", TRUE, TRUE),
          Race(Two(Stripped, Won, 1, 2), "good", FALSE, FALSE),
          Race(Two(Second, Won, 1, 2), "degraded", TRUE, TRUE),
          [Race(<<>>, "degraded", FALSE, FALSE) EXCEPT !.status = "cancelled"]}

SumInit ==
    /\ Init /\ AnalyticsInit /\ PagesInit
    /\ part \in {"replay", "analytics", "pages"}

SumNext ==
    \/ part = "replay" /\ Next /\ UNCHANGED <<analyticsVars, pagesVars, part>>
    \/ part = "analytics" /\ AnalyticsNext /\ UNCHANGED <<repoVars, serviceVars, pagesVars, part>>
    \/ part = "pages" /\ PagesNext /\ UNCHANGED <<repoVars, serviceVars, analyticsVars, part>>

SumSpec == SumInit /\ [][SumNext]_<<repoVars, serviceVars, analyticsVars, pagesVars, part>>

Symmetric ==
    Permutations(Ingest) \cup Permutations(Thread) \cup Permutations(Content) \cup Permutations(Client)
===============================================================================
