CONSTANTS
  Client = {c1}
  NoOne = NoOne
  MinutePolicy <- MCMinutePolicy
  SpacingPolicy <- MCSpacingPolicy
  Cooldown = 3
  RetryAfter <- MCRetryAfter
  MaxWait = 6
  MaxReal = 6
  MaxBack = 1
  MaxCrashes = 1
  HourPolicy <- MCMinutePolicy
  BasePolicy <- MCSpacingPolicy
  NoFile = NoFile
  MaxElapsed = 6
  MaxSetbacks = 1
  MaxKills = 1
  laps = laps
  weather = weather
  Endpoints <- MCEndpoints
  Nothing = Nothing
  MaxDeaths = 2
  MaxRequests = 2
  MaxChanges = 1
  GuardPolicy <- MCMinutePolicy
  MaxHours = 6
  MaxAnswers = 3
SPECIFICATION SumSpec
INVARIANTS
  WithinBudget
  IntentCovered
  HourKept
  VerdictsHold
  GuardKept
PROPERTIES
  AskedOnce
CHECK_DEADLOCK FALSE
