CONSTANTS
  Process = {p1, p2, p3}
  NoOne = NoOne
  MaxCrashes = 1
SPECIFICATION Spec
INVARIANTS
  HalfWrittenNeverSeen
PROPERTIES
  NeverAdoptsForeign
SYMMETRY Symmetry
