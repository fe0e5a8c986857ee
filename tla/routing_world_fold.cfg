SPECIFICATION Spec
CONSTANTS
  Tasks = {"main"}
  Roots = {"main"}
  Refnos = {1, 2}
  StagingDbs = {"staging_1"}
  Providers = {"direct_1"}
  Collectors <- WorldCollectors
  Disciplined = TRUE
  MaxScopes = 3
  MaxFrames = 3
  MaxCached = 3
INVARIANT WiredReadsStayInTheirWorld
