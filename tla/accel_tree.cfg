SPECIFICATION Spec
CONSTANTS
  b1 = b1
  f1 = f1
  f2 = f2
  t1 = t1
  t2 = t2
  Tasks = {t1, t2}
  Refnos = {1, 2}
  Boxes = {b1}
  Sesnos = {0}
  Meshes = {}
  Reach = 0
  Inodes = {f1, f2}
  Regenerations = 0
  LoadsAlone = TRUE
  SavesAlone = TRUE
  LengthTells = TRUE
INVARIANTS TypeOK EntriesOfExact
PROPERTIES StoreSpec SnapshotSurvives
