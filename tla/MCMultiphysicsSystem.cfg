SPECIFICATION Spec
CONSTANTS
  Configs <- SoundRuns
  Subdomains = {"fluid", "solid"}
  NoSubdomain = "no subdomain"
  NoType = "no type"
  Variables <- VariableNames
  Adds <- AddsOf
  Evolves <- EvolvesOf
  Requests <- RequestsOf
  Caches <- CachesOf
  Terms <- TermOf
INVARIANTS
  DataWasRequested
  CachedBeforeRead
  BlocksExist
  JacobianIsOfResidual
  MassHoldsRates
  EvolvingAreMarched
  PhysicsAreSound
  AcceptedAreSquare
\* The program stops on an inconsistent or unsupported configuration.
CHECK_DEADLOCK FALSE
