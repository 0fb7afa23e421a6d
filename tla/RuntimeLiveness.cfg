CONSTANTS
  Calls = {1, 2}
  ActorIds = {"x"}
  PlainIds = {"z"}
  Capacity = 1
  Built = Built
  Plain = Plain
  None = None
SPECIFICATION FairSpec
PROPERTIES
  CallsReturn
  WaitsReturn
CHECK_DEADLOCK FALSE
