CONSTANTS
  older = older
  newer = newer
  Session = {older, newer}
  Current = {newer}
  Process = {p1, p2}
  Reader = {r1}
  None = None
  Garbled = Garbled
  Order <- TheOrder
  Every = 2
  MaxRuns = 3
  MaxMoves = 2
  MaxDamage = 1
  MaxTrouble = 2
  Command <- TheCommands
SPECIFICATION Spec
INVARIANTS
  ReadersUndisturbed
PROPERTIES
  TargetedKeepsOthers
  CompleteIsTrue
SYMMETRY Symmetric
CHECK_DEADLOCK FALSE
