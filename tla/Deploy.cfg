SPECIFICATION FairSpec
CONSTANTS
  Files = {f1, f2, f3}
  GitOnly = FALSE
  NoPull = FALSE
  ApiLimit = 2
  MaxBatch = 1
  MaxTries = 4
  MaxOthers = 2
  MaxFaults = 1
INVARIANTS EditsDelivered RaisedOnlyOverDeletion
PROPERTIES ForeignKept DeployEnds
