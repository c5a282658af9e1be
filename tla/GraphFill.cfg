SPECIFICATION FairSpec
CONSTANTS
  nat1 = nat1
  nat2 = nat2
  Null = Null
  Texts <- MCTexts
  Json <- MCJson
  Btrim <- MCBtrim
  Padding <- MCPadding
  Folded <- MCFolded
  Number <- MCNumber
  Collate <- MCCollate
  RoleCategories <- MCRoleCategories
  Length <- MCLength
  Fragments <- MCFragments
  MappedTypes <- MCMappedTypes
  MediumLabels <- MCMediumLabels
  MaxInteger = 20
  MaxQuantity = 20
  Catalogs <- MCCatalogs
  Revisions <- MCRevisions
  Starts <- MCStarts
  MaxCalls = 1
CHECK_DEADLOCK FALSE
INVARIANTS
  TypeOK
  EdgesResolve
  InsertsNeverConflict
  GraphIsProjection
PROPERTIES
  CountersExact
  CallsEnd
