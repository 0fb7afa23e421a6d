SPECIFICATION Spec
CONSTANTS
  Ids <- MCIds
  Initial <- MCInitialTwo
  Restart <- MCRestart
  Mode <- MCMode
  MaxRestarts <- MCMaxRestarts
  RestartBound <- MCMaxRestarts
  Strategy = "OneForOne"
  ZeroDelay = {"c"}
  Clients = {c1, c2}
  Requests <- AnyRequest
  QueueCapacity = 2
  DebugEnabled = FALSE
INVARIANT RemovalDuringBackoffIsHarmless
