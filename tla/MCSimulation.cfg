SPECIFICATION FairSpec
CONSTANTS
  Ranks = {p1, p2}
  Inputs <- MCInputs
  Coarse <- MCCoarse
  Children <- MCChildren
  Level <- MCLevel
  Origin <- MCOrigin
  Adjacent <- MCAdjacent
  Wanted <- MCWanted
INVARIANTS
  MeshAsAsked
  RestartKeepsSolution
  RefinedOnce
  FilesHoldTheirDisplacement
  EndsAsAsked
  ProcessorsMeet
PROPERTIES
  SimulationEnds
CHECK_DEADLOCK FALSE
