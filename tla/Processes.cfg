SPECIFICATION FairSpec
CONSTANTS
  Parts = {"shutdown", "jev", "stop", "holder", "stream"}
  None = None
  Conns = {c1, c2}
  MaxRequests = 2
  Calls = {k1, k2, k3}
  ToolWorkers = 2
  Routed = {k2, k3}
  MaxLoad = 3
  MaxAborts = 1
  Sessions = {p, a, b, q}
  Children = {a, b}
  Invoking = q
  Passes = 3
  MaxSpawns = 1
  MaxErrors = 1
  HeldFiles = {1, 2}
  LockThreads = {0, 2}
  PageSizes = {3, 4}
  MaxKeys = 2
  MaxFilter = 1
  MaxChunks = 3
INVARIANTS AskJevIsHonest HolderTellsTheTruth ObserverTellsTheTruth EverythingDelivered
PROPERTIES ShutdownIsClean NothingOmitted EverythingEnds
CHECK_DEADLOCK FALSE
