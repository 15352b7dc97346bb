SPECIFICATION Spec
CONSTANTS
  Programs = {p1, p2}
  Parts = {code, manifest}
  Leftover = leftover
  MaxReleases = 6
  File <- MCFile
  Faults = {"move", "health"}
  MaxCommands = 3
  MaxInterrupts = 0
SYMMETRY Symmetry
INVARIANTS FailedRestoreGivesBack
CHECK_DEADLOCK FALSE
