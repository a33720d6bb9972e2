SPECIFICATION Spec
CONSTANTS
  Ranks = {p1, p2}
  Inputs <- MCRestarts
  Coarse <- MCCoarse
  Children <- MCChildren
  Level <- MCLevel
  Origin <- MCOrigin
  Adjacent <- MCAdjacent
  Wanted <- MCWanted
INVARIANT
  OnePassOnRestart
CHECK_DEADLOCK FALSE
