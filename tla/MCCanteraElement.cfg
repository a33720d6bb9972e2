CONSTANTS
  t1 = t1
  t2 = t2
  t3 = t3
  Free = Free
  Threads <- TwoThreads
  NQPoints = 1
  Workloads <- ElementWorkload
SPECIFICATION Spec
INVARIANT ResultsAreOwn
