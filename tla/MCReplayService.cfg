CONSTANTS
  monza = monza
  Session = {monza}
  Name = {monza, round16}
  Content = {c1, c2}
  Canon <- AllOfOne
  Ingest = {i1, i2}
  Thread = {t1}
  None = None
  MaxIngests = 2
  MaxTrouble = 1
  Races = 2
  Question = {season}
  Lookups = 2
  CacheLimit = 1
  Client = {k1, k2}
  Absent = Absent
  MaxSaves = 2
  MaxPublished = 1
  MaxRebuilds = 1
  Calendar <- MCCalendar
  MayHappen <- MCMayHappen
  Nothing = Nothing
  Top = 1
SPECIFICATION SumSpec
INVARIANTS
  OneDatasetPerSnapshot
  PointersBacked
  EngineIsItsDataset
  FreshAnswers
  PagesAgree
SYMMETRY Symmetric
CHECK_DEADLOCK FALSE
