SPECIFICATION Spec
CONSTANTS
  Interval = 4
  MaxInterval = 17
  Exponential = TRUE
  Jitter = 50
  RequiredSuccesses = 2
  StableFor = 7
  CheckTimes = {0, 3}
  MaxDuration = 25
  MaxPolls = 5
INVARIANTS
  PollingTypeOK
  CompletesWhenStable
  BackoffFollowsFailures
  StabilizesAtBaseRate
