\* Each topic ends once its values are computed.
SPECIFICATION Spec
CHECK_DEADLOCK FALSE
CONSTANTS
  Scenes <- UnitScenes
  Half = 4
  Refnos <- MCRefnos
  Sesnos = {0, 1, 3}
  Elements <- AttrElements
  Infos <- AttrInfos
  Udas <- AttrUdas
  MaxSession = 2
  ExcludeSets = {{}, {"DESC"}}
  Designs <- ExprDesigns
  Components <- ExprComponents
  Catalogue <- CataComponents
  Owning <- GraphOwning
  Plants <- GraphPlants
  Filters <- GraphFilters
INVARIANTS
  UnitsKeepTheirKey SolidsAreReproduced CatalogueEndsStayInPlace GeometryIsKept
  HandedOnUnchanged KeysNameRecords
  SavingAgainChangesNothing AttributesComeBack UdasComeBack CataHashComesBack
  HistoryMeansItsTime RowAndRecordAgree ExplicitWins
  ExpressionsMeanWhatTheySay
  PointsAreWhereTheyAreSaid GeometryIsDescribed
  RelativesAreFound
