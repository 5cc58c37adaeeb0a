SPECIFICATION MCSpec
CONSTANTS
  p1 = p1
  p2 = p2
  s1 = s1
  s2 = s2
  Procs = {p1, p2}
  Slots = {s1, s2}
  Kind = "dask"
  None = None
  MaxOps = 2
  MaxFaults = 1
  Names = {"main", "master"}
  MaxCommits = 3
  MaxRuns = 2
  MaxFailures = 1
CHECK_DEADLOCK FALSE
INVARIANTS Exclusive PRsAreCurrent
PROPERTY EveryoneGetsThrough
