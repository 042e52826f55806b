SPECIFICATION Spec
CONSTANTS
  s1 = s1
  s2 = s2
  Sessions = {s1, s2}
  Null = Null
  NoRow = NoRow
  Answers = {"timed_out"}
  FailureThresholds = {Null}
  RecoveryThresholds = {Null}
  FailuresToOpen = 1
  SuccessesToResolve = 1
  MaxRuns = 1
  Outcomes = {"refused"}
  MaxAttempts = 2
  MaxForces = 1
  MaxCrashes = 0
  MaxIncidents = 1
INVARIANT NoStuckEvent
CHECK_DEADLOCK FALSE
