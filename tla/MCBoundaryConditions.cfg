SPECIFICATION Spec
CONSTANTS
  Ids <- MCIds
  Requests <- Runs
CHECK_DEADLOCK FALSE
INVARIANTS
  DirichletAreOfInput
  FluxesAreOfInput
  WeightsAgree
  PeriodicIdsArePaired
  InputOrderKept
