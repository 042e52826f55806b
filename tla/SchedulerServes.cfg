SPECIFICATION FairSpec
CONSTANTS
  c1 = c1
  t1 = t1
  t2 = t2
  t3 = t3
  Cycles = {c1}
  Targets = {t1, t2, t3}
  NoRow = NoRow
  MaxConcurrency = 2
  PoolSize = 1
  MaxErrors = 1
  MaxCrashes = 1
  MaxToggles = 0
PROPERTIES DueIsServed CyclesEnd
