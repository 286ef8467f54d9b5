CONSTANTS
  Driver = {1, 2}
  None = None
  Sessions <- TheSessions
  Interval = {1, 2, 3}
  Time = {0, 1, 2, 3, 4, 5, 6}
  LapNumber = {1, 2, 3}
  ControlShown = 2
  Plausible = {2, 3}
  Dry = {1, 2}
  Clear = 1
  RedFlag = 5
  PlausibleLoss = {0, 1, 2}
  Duration = {1, 3}
  Loss = {1}
  Strategies <- ThePlans
  Distance = {4, 6}
  LongRest = 3
  TwoStop <- MediumSoft
  End = 2
  MaxActs = 0
  Nothing = Nothing
SPECIFICATION EngineSpec
INVARIANTS
  NewStintShown
CHECK_DEADLOCK FALSE
