SPECIFICATION MCSpec
CONSTANTS
  MaxPRs = 2
  MaxHuman = 1
  MaxCrashes = 0
  MaxReopens = 0
  Workers = {"prs", "event"}
CHECK_DEADLOCK FALSE
INVARIANT NoDanglingRef
PROPERTIES LabelPromiseKept ClosedIsRecorded
