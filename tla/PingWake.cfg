SPECIFICATION FairSpec
CONSTANTS
  s1 = s1
  Sessions = {s1}
  Null = Null
  NoRow = NoRow
  Answers = {"fast", "timed_out"}
  FailureThresholds = {Null}
  RecoveryThresholds = {Null}
  FailuresToOpen = 1
  SuccessesToResolve = 1
  MaxRuns = 2
  Outcomes = {"ok", "refused", "lost"}
  MaxAttempts = 2
  MaxForces = 1
  MaxCrashes = 1
  MaxIncidents = 1
INVARIANTS ToldIsTrue AlertsAccounted DownShowsFailure AttemptLimit RepeatedForAReason
PROPERTIES OpeningToldFirst SentIsFinal EventsSettle
CHECK_DEADLOCK FALSE
