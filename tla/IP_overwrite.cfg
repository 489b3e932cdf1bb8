CONSTANTS
  Contents <- MCContents
  MaxArchiveFileSize = 3
  MaxTotalExpanded = 6
  MaxMemberSize = 2
  MaxMemberCount = 4
  MaxDepth = 2
  Drops <- SameNames
  NameFacts <- MCNameFacts
  Adapters = {1, 2, 3}
  AdapterId <- MCAdapterId
  Locations <- MCLocations
  Inventory <- MCInventory
  MaxRuns = 1
  Series <- NoSeries
SPECIFICATION Spec
INVARIANT
  RawNeverOverwritten
CHECK_DEADLOCK FALSE
