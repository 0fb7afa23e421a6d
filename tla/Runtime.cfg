CONSTANTS
  Calls = {1, 2, 3}
  ActorIds = {"x"}
  PlainIds = {"z"}
  Capacity = 1
  Built = Built
  Plain = Plain
  None = None
SPECIFICATION Spec
INVARIANTS
  TypeOK
  ActorsAreRegistered
  RefusedLeavesNothing
  WaitersAgree
CHECK_DEADLOCK FALSE
