SPECIFICATION Spec
CONSTANTS
  r1 = r1  r2 = r2
  plain = plain  ready = ready  actor = actor  try = try
  None = None
  Runs = {r1, r2}
  Senders = {plain, ready, actor, try}
  Op <- Operations
  Oversized = {ready}
  FromActor = {actor}
  Capacity = 1
SYMMETRY Calls
INVARIANTS TypeOK ActiveIsBound OneDelivery
PROPERTY DeliveryFollowsBinding
CHECK_DEADLOCK FALSE
