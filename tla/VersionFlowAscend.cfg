SPECIFICATION Spec
CONSTANTS
  MaxVersion = 3
  MaxNumPRs = 1
  Withdrawals = 1
  Pushes = 0
  SkipSets = {{}}
PROPERTY PRsAscend
