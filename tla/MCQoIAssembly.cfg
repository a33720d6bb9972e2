CONSTANTS
  r1 = r1
  r2 = r2
  r3 = r3
  t1 = t1
  t2 = t2
  e1 = e1
  e2 = e2
  e3 = e3
  Ranks <- TheRanks
  Threads <- TheThreads
  Root = t1
  Elements <- TheElements
  Sides <- TheSides
  BoundarySides <- TheBoundarySides
  Subdomain <- TheSubdomains
  SideIds <- TheSideIds
  QoIs <- TheQoIs
  Dofs <- TheDofs
  FirstVar = "u"
  Rounds <- TheRounds
SPECIFICATION FairSpec
INVARIANTS DerivativeIsOfValue ProcessorsMeet
PROPERTIES SumSpec AllRanksFinish
\* The program ends after its last round.
CHECK_DEADLOCK FALSE
