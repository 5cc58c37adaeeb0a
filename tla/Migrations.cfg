SPECIFICATION MCSpec
CONSTANTS
  a = a
  b = b
  c = c
  pkg = pkg
  Pinning = Pinning
  Feedstocks <- MCFeedstocks
  Depends <- Ring
  IgnoredDeps <- RingBroken
  WaitsFor = FALSE
  MaxReruns = 0
  MaxTroubles = 1
  AllFeedstocks <- MCAllFeedstocks
  Pinned <- MCPinned
  Sections <- MCSections
  DepPairs <- MCDepPairs
  MaySections <- MCMaySections
  MayKinds <- MCMayKinds
  Allowlists <- MCAllowlists
CHECK_DEADLOCK FALSE
INVARIANTS ParentsExplain PluckingKeepsOrder
PROPERTIES OrderRespected MigrationEnds AllRun PinFollows
