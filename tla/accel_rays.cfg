SPECIFICATION Spec
CONSTANTS
  b1 = b1
  t1 = t1
  Tasks = {t1}
  Refnos = {1, 2}
  Boxes = {b1}
  Sesnos = {0, 7}
  Meshes = {1, 2}
  Reach = 2
  Inodes = {}
  Regenerations = 1
  LoadsAlone = TRUE
  SavesAlone = TRUE
  LengthTells = TRUE
INVARIANTS MeshesCurrent NearestWins
