CONSTANTS
  t1 = t1
  t2 = t2
  t3 = t3
  Free = Free
  Threads <- ThreeThreads
  NQPoints = 2
  Workloads <- OneFileWorkloads
SPECIFICATION FairSpec
INVARIANTS ResultsAreOwn
PROPERTY AllThreadsFinish
