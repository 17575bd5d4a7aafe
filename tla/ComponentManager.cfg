SPECIFICATION Spec
CONSTANTS
  Platforms = {"rpm", "deb", "macOS"}
  Names = {"p", "q"}
  MaxVersion = 2
  Catalogs <- MCCatalogs
  Homes <- MCHomes
  Paths <- MCPaths
  Faults = {"query", "verify", "run", "lost", "remove", "chmod"}
  MaxCalls = 1
  MaxChanges = 1
  Keys = {"k", "l", "m"}
  TrustedKeys = {"k", "l"}
  Components <- MCComponents
INVARIANTS TypeOK DiscoveredWasThere NothingOverlooked ConfigurablesAreReported
INVARIANTS OnlyVerifiedIsRun AnswersAreTrue
CHECK_DEADLOCK FALSE
