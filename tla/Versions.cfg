SPECIFICATION MCSpec
CONSTANTS
  MaxVersion = 3
  MaxNumPRs = 1
  Withdrawals = 1
  Pushes = 1
  SkipSets <- MCSkipSets
  Nodes = {n1, n2, n3}
  BatchSize = 2
  MaxReleases = 2
  MaxFailures = 1
  MaxCrashes = 1
  Feedstocks = {"f1", "f2"}
  Tags <- MCTags
  Configured <- MCConfigured
  UrlPrefixes <- MCUrlPrefixes
  MaxCount = 2
  Starts <- MCStarts
  Hashes = {"h0", "h1", "h2"}
  MetaYamls <- MCRecipes
  Platforms <- MCPlatforms
  Recipes <- V1Recipes
  Given = "given"
  OfPyPI <- MCOfPyPI
  Munged <- MCMunged
CHECK_DEADLOCK FALSE
INVARIANTS  NothingForgotten OthersDoNotMatter ResultIsGood HashesAreNew HashesFollowUrls
PROPERTIES   NewestIsProposed
