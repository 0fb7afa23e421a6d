SPECIFICATION Spec
CONSTANTS
  Within = 6
  MaxRestarts = 3
  Policy = "JitteredExponential"
  Base = 2
  Factor = 3
  MaxDelay = 5
  DurationMax = 7
  Horizon = 14
  Records = 6
INVARIANTS LimitIsExact DelayFollowsPolicy
CHECK_DEADLOCK FALSE
