SPECIFICATION Spec
CONSTANTS
  r1 = r1  r2 = r2
  plain = plain  ready = ready  actor = actor  try = try
  None = None
  Runs = {r1, r2}
  Senders = {plain}
  Op <- Operations
  Oversized = {}
  FromActor = {}
  Capacity = 1
INVARIANT OneInstance
CHECK_DEADLOCK FALSE
