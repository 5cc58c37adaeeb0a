SPECIFICATION MCSpec
CONSTANTS
  a = a
  b = b
  old = old
  new = new
  compiler = compiler
  mpi = mpi
  solver = solver
  openmpi = openmpi
  stub = stub
  linux = linux
  osx = osx
  arm = arm
  Migrators <- TheMigrators
  Filters <- AllOfThem
  TwoWeeks = 2
  MaxFailures = 1
  Settled = {old}
  Changing = {new}
  Broken = {}
  Others = {compiler}
  Needs <- MCNeeds
  MaxMoves = 2
  Platforms = {linux, osx}
  Extra = {arm}
  MaxCommits = 2
INVARIANTS ListedOnce 
PROPERTIES KeptTwoWeeks KnownIsKept ExportsArrive
