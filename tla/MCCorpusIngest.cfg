CONSTANTS
  Entry = {e1, e2}
  Absent = Absent
  MaxCrashes = 3
  MaxFaults = 2
  MaxDamage = 1
  MaxChanges = 2
SPECIFICATION FairSpec
INVARIANTS
  CheckpointBacked
PROPERTIES
  DiscardsOnlyCurrent
  PromiseKept
  Recovers
