SPECIFICATION Spec
CONSTANTS
  c1 = c1
  c2 = c2
  t1 = t1
  t2 = t2
  Cycles = {c1, c2}
  Targets = {t1, t2}
  NoRow = NoRow
  MaxConcurrency = 1
  PoolSize = 2
  MaxErrors = 2
  MaxCrashes = 1
  MaxToggles = 1
SYMMETRY Symmetric
INVARIANTS TypeOK RowIsTrue LostForAReason
