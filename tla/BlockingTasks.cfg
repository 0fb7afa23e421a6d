CONSTANTS
  t1 = t1
  t2 = t2
  Tasks = {t1, t2}
  Shared = {t2}
  Limit = 2
  OverflowChecks = TRUE
SPECIFICATION FairSpec
INVARIANTS
  TypeOK
  LimitHolds
  EndedActorOwnsNothing
  NoFailureIsLost
  HandledFailureIsNotReported
PROPERTIES
  FailureStopsActor
  FinishEnds
CHECK_DEADLOCK FALSE
