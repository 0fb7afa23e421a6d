CONSTANTS
  None = None
  a1 = a1
  a2 = a2
  r1 = r1
  r2 = r2
  Actors = {a1, a2}
  Runs = {r1, r2}
SPECIFICATION FairSpec
INVARIANTS
  TypeOK
  RunIsAlone
  OkMeansAskedAndClean
  CauseIsFailure
  ReturnLeavesNothing
PROPERTIES
  OneEndEndsRun
CHECK_DEADLOCK FALSE
