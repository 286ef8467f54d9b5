CONSTANTS
  monza = monza
  spa = spa
  imola = imola
  Feeds <- TheFeeds
  Kinds <- TheKinds
  Reviewed = monza
  MaxRounds <- TheRounds
  MaxTotal = 4
  MaxCancelled = 1
  Runner = {p1, p2}
  Selected <- TheSample
  Tables = 1
  MaxRuns = 3
  MaxTroubles = 2
  Revision = {r1, r2}
  Publisher = {p1, p2}
  Worker = {p1, p2}
  Product = {trace}
  CacheLimit = 1
  MaxFaults = 2
  x = x
  y = y
  Subject = {x, y}
  Lap = {1, 2}
  LapsOf <- TheLaps
  Fastest <- TheFastest
  None = None
  Absent = Absent
  Missing = Missing
  Undefined = Undefined
SPECIFICATION Spec
INVARIANTS
  CompletedIsOver
  ReadyIsCurrent
  PlanOutlivesGrowth
  Authoritative
  Resumable
  PinnedAnswers
  ShownIsSelected
  NeverWaitsForNothing
SYMMETRY Symmetric
CHECK_DEADLOCK FALSE
