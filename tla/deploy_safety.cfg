SPECIFICATION Spec
CONSTANTS
  Programs = {p1, p2}
  Parts = {code, manifest}
  Leftover = leftover
  MaxReleases = 6
  File <- MCFile
  Faults = {"keep", "move", "copy", "off", "installer", "restart", "ask", "prune", "health", "unit"}
  MaxCommands = 3
  MaxInterrupts = 1
SYMMETRY Symmetry
INVARIANTS NamedIsKept BackMeansBack CurrentIsInstalled RunsWhatIsInstalled
PROPERTY FollowsProtocol
CHECK_DEADLOCK FALSE
