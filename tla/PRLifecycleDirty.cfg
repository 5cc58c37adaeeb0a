SPECIFICATION FairSpec
CONSTANTS
  MaxPRs = 2
  MaxHuman = 1
  MaxCrashes = 0
  MaxReopens = 0
  Workers = {"prs", "event"}
PROPERTY DirtyPromiseKept
