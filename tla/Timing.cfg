SPECIFICATION Spec
CONSTANTS
  Intervals = {3, 5}
  CronPeriod = 2
  MaxDuration = 1
  Multiplier = 25
  ExpectedInterval = 2
  WatchdogMultiplier = 30
  Minute = 1
  MaxTime = 16
  NoCheck = NoCheck
CHECK_DEADLOCK FALSE
INVARIANTS TypeOK CheckedInTime FreshIfServed StaleIsReported
