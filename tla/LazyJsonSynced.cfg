SPECIFICATION MCSpec
CONSTANTS
  c1 = c1
  c2 = c2
  c3 = c3
  v1 = v1
  v2 = v2
  v3 = v3
  Clients = {c1, c2, c3}
  Contents <- MCContents
  Absent = Absent
  Wanted <- MCWanted
  MaxTries = 3
  MaxFaults = 3
  j1 = j1
  j2 = j2
  o1 = o1
  o2 = o2
  db = db
  repo = repo
  Disk = Disk
  e1 = e1
  e2 = e2
  Torn = Torn
  NotLoaded = NotLoaded
  Jobs = {j1, j2}
  Objects = {o1, o2}
  JobOf <- MCJobOf
  Edits = {e1, e2}
  Stores = {db, repo}
  BackendsOf <- MCBackendsOf
  UseCache <- MCUseCache
  MaxMishaps = 2
  Missing = Missing
  k1 = k1
  k2 = k2
  k3 = k3
  Source = "mongodb"
  Dests <- MCDests
  Maps <- MCMaps
  Keys = {k1, k2}
  KeysToSync = {k1, k2}
  BatchSize = 1
  Override = FALSE
  Shared = "mongodb"
  Archives = TRUE
  MaxWrites = 3
  MaxFailures = 0
CHECK_DEADLOCK FALSE
PROPERTY SyncedOnExit
