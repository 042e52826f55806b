SPECIFICATION Spec
CONSTANTS
  s1 = s1
  Sessions = {s1}
  Answers = {"fast", "slow", "timed_out"}
  Null = Null
  NoRow = NoRow
  FailureThresholds = {Null}
  RecoveryThresholds = {Null}
  FailuresToOpen = 3
  SuccessesToResolve = 2
  MaxRuns = 7
INVARIANT LastStatusIsLatest
PROPERTIES ImplementsPolicy IncidentStartsInStreak
CHECK_DEADLOCK FALSE
