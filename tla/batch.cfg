\* A batch ends: the program may exit.
SPECIFICATION Spec
CHECK_DEADLOCK FALSE
CONSTANTS
  Sheet <- MCSheet
  SscLevels <- MCSscLevels
  Projects <- MCProjects
  ChunkLen = 10
  MaxFaults = 1
  MaxRuns = 2
INVARIANTS
  TypeOK
  StrictListsAreWhole
  NothingIsLostSilently
  RerunsKeepOneRow
  OwnersNeverLoop
  OrphansHaveAReason
  EveryRowIsListed
PROPERTY EveryCallEnds
