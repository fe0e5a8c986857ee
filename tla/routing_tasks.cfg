SPECIFICATION Spec
CONSTANTS
  Tasks = {"main", "child"}
  Roots = {"main"}
  Refnos = {1}
  StagingDbs = {"staging_1", "staging_2"}
  Providers = {"direct_1"}
  Collectors <- SharedCollectors
  Disciplined = TRUE
  MaxScopes = 3
  MaxFrames = 1
  MaxCached = 3
INVARIANT CachesBelongToPersistentWorld
INVARIANT WorldIsolation
