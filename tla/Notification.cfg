SPECIFICATION Spec
CONSTANTS
  e1 = e1
  s1 = s1
  s2 = s2
  Events = {e1}
  Sessions = {s1, s2}
  Null = Null
  NoRow = NoRow
  Outcomes = {"ok", "refused", "lost"}
  MaxAttempts = 2
  MaxForces = 1
  MaxCrashes = 1
SYMMETRY Symmetric
INVARIANTS TypeOK SentWasDelivered AttemptsWereMade
CHECK_DEADLOCK FALSE
