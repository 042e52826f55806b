SPECIFICATION FairSpec
CONSTANTS
  s1 = s1
  s2 = s2
  Sessions = {s1, s2}
  Answers = {"fast", "unexpected"}
  Null = Null
  NoRow = NoRow
  FailureThresholds = {Null, 1}
  RecoveryThresholds = {Null}
  FailuresToOpen = 2
  SuccessesToResolve = 1
  MaxRuns = 3
INVARIANTS TypeOK OneOpenIncident CountersNeverInvent NoOrphanRows TransitionsHandedOnce
PROPERTIES ImplementsLedger SessionsFinish
CHECK_DEADLOCK FALSE
