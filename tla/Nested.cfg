CONSTANTS
  None = None
  Last = 2
  Suspended <- MCSuspended
  Versions <- MCVersions
  EventCapacity = 1
  Capacity = 1
SPECIFICATION FairSpec
INVARIANTS
  TypeOK
  EndpointLeadsToOwner
  OneInnerSupervisor
PROPERTIES
  TreeStops
  ShowsInner
CHECK_DEADLOCK FALSE
