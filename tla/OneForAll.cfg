SPECIFICATION FairSpec
CONSTANTS
  Ids <- MCIds
  Initial <- MCInitialTwo
  Restart <- MCRestart
  Mode <- MCMode
  MaxRestarts <- MCMaxRestarts
  RestartBound <- MCMaxRestarts
  Strategy = "OneForAll"
  ZeroDelay = {"c"}
  Clients = {"c1", "c2"}
  Requests <- FewRequest
  QueueCapacity = 2
  DebugEnabled = FALSE
PROPERTIES GroupRestartIsClean CommandsAreAnswered ShutdownCompletes HandlersReturn
