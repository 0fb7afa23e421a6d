SPECIFICATION Spec
CONSTANTS
  Ids <- MCIds
  Initial <- MCInitial
  Restart <- MCRestart
  Mode <- MCMode
  MaxRestarts <- MCMaxRestarts
  RestartBound <- MCMaxRestarts
  Strategy = "OneForOne"
  ZeroDelay = {"c"}
  Clients = {c1, c2}
  Requests <- AnyRequest
  QueueCapacity = 2
  DebugEnabled = FALSE
SYMMETRY ClientSymmetry
INVARIANTS TypeOK CountersCover TasksMatchEntries
PROPERTIES NoSpawnAfterStopping NaturalExitIsComplete
