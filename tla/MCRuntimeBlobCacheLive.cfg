CONSTANTS
  t1 = t1
  t2 = t2
  t3 = t3
  p1 = p1
  p2 = p2
  r1 = r1
  r2 = r2
  f1 = f1
  f2 = f2
  g1 = g1
  Thread = {t1, t2, t3}
  Process = {p1, p2}
  Release = {r1, r2}
  File = {f1, f2, g1}
  NoOne = NoOne
  ProcOf <- MCProcOf
  Index <- MCIndex
  Size <- MCSize
  Unknown <- MCUnknown
  MaxBytes = 3
  MaxFiles = 2
  MaxNest = 1
  MaxCrashes = 0
  MaxDamage = 0
SPECIFICATION FairSpec
PROPERTIES
  CallsEnd
