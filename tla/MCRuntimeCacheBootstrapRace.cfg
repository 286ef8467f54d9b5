CONSTANTS
  Process = {p1, p2}
  NoOne = NoOne
  MaxCrashes = 0
SPECIFICATION Spec
INVARIANTS
  CompetitorsWait
