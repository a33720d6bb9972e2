SPECIFICATION FairSpec
CONSTANT MaxRefinementSteps = 3
INVARIANTS EstimateIsCurrent ReturnsSolvedState FilesAreOfFinalMesh
PROPERTIES RefinesFreshFlags Returns LoopSpec
CHECK_DEADLOCK FALSE
