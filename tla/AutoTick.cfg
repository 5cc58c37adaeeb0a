SPECIFICATION MCSpec
CONSTANTS
  n1 = n1
  n2 = n2
  main = main
  abi = abi
  Nodes <- MCNodes
  Branches <- MCBranches
  MainBranch <- main
  Migrators <- MCMigrators
  PrLimit = 1
  AttemptFactor = 2
  MaxFaults = 2
  NoBranch = NoBranch
  NoNode = NoNode
INVARIANTS OnePRPerUid OneUnrecordedPR NoDanglingPrJson
PROPERTIES  EventuallyMigrated
