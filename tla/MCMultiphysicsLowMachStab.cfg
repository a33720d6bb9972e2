SPECIFICATION Spec
CONSTANTS
  Configs <- LowMachStabRuns
  Subdomains = {"fluid", "solid"}
  NoSubdomain = "no subdomain"
  NoType = "no type"
  Variables <- VariableNames
  Adds <- AddsOf
  Evolves <- EvolvesOf
  Requests <- RequestsOf
  Caches <- CachesOf
  Terms <- TermOf
INVARIANT MassHoldsRates
\* The program stops on an inconsistent or unsupported configuration.
CHECK_DEADLOCK FALSE
