SPECIFICATION Spec
CONSTANTS
  Tasks = {"main"}
  Roots = {"main"}
  Refnos = {1}
  StagingDbs = {"staging_1"}
  Providers = {"direct_1"}
  Collectors <- AllCollectors
  Disciplined = TRUE
  MaxScopes = 2
  MaxFrames = 2
  MaxCached = 2
INVARIANT TypeOK
INVARIANT CachesBelongToPersistentWorld
INVARIANT WorldIsolation
