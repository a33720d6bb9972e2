SPECIFICATION FairSpec
CONSTANTS
  NTimesteps = 4
  MaxTimestepsPerVis = 3
INVARIANTS StepsFromCommittedState DirichletIsCurrent FilesHoldTheirStep
PROPERTIES CommitsInOrder Terminates
CHECK_DEADLOCK FALSE
