SPECIFICATION Spec
CONSTANTS
  b1 = b1
  f1 = f1
  f2 = f2
  t1 = t1
  Tasks = {t1}
  Refnos = {1}
  Boxes = {b1}
  Sesnos = {0}
  Meshes = {}
  Reach = 0
  Inodes = {f1, f2}
  Regenerations = 0
  LoadsAlone = FALSE
  SavesAlone = TRUE
  LengthTells = TRUE
PROPERTY LoadFillsEmptyTree
