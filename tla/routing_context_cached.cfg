SPECIFICATION Spec
CONSTANTS
  Tasks = {"main"}
  Roots = {"main"}
  Refnos = {1}
  StagingDbs = {"staging_1"}
  Providers = {"direct_1"}
  Collectors <- CachedCollectors
  Disciplined = TRUE
  MaxScopes = 3
  MaxFrames = 3
  MaxCached = 3
INVARIANT NoContextValueCached
