SPECIFICATION Spec
CONSTANTS
  Ids <- MCIds
  Initial <- MCInitial
  Restart <- MCRestartOne
  Mode <- MCModeCooperative
  MaxRestarts <- MCMaxRestarts
  RestartBound <- MCMaxRestarts
  Strategy = "OneForOne"
  ZeroDelay = {"c"}
  Clients <- Recycling
  Requests <- RecyclingRequest
  QueueCapacity = 1
  DebugEnabled = FALSE
INVARIANT RunningIsUndisturbed
