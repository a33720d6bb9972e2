SPECIFICATION Spec
CONSTANTS
  Ids <- MCIds
  Requests <- AxisLast
CHECK_DEADLOCK FALSE
INVARIANTS
  WeightsAgree
