SPECIFICATION Spec
CONSTANTS
  s1 = s1
  s2 = s2
  empty = empty
  v1 = v1
  v2 = v2
  Sessions = {s1, s2}
  Values = {empty, v1}
  Empty = empty
  MaxPatches = 4
  Omitted = Omitted
  Null = Null
  NoRow = NoRow
CHECK_DEADLOCK FALSE
SYMMETRY Symmetric
INVARIANT NullClears
