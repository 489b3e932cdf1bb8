CONSTANTS
  Contents <- MCContents
  MaxArchiveFileSize = 3
  MaxTotalExpanded = 6
  MaxMemberSize = 2
  MaxMemberCount = 4
  MaxDepth = 2
  Drops <- MCDrops
  NameFacts <- MCNameFacts
  Adapters = {1, 2, 3}
  AdapterId <- MCAdapterId
  Locations <- MCLocations
  Inventory <- MCInventory
  MaxRuns = 3
  Series <- MCSeries
SPECIFICATION Spec
INVARIANTS
    ScanIsComplete
    PackagesSettled
    RecaptureReviewed
    CapturesApart
CHECK_DEADLOCK FALSE
