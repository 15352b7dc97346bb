SPECIFICATION Spec
CONSTANTS
  Versions = {1, 2}
  Builds = {good, stray}
  OffLayout = {stray}
  MaxPacks = 2
  MaxStops = 1
  MaxCopies = 2
  File <- MCFile
  MaxCommands = 3
INVARIANTS ReleasesAreSound WayBackWasChecked FailedInstallChangesNothing LinkAndUnitFollow
PROPERTY FollowsProtocol
CHECK_DEADLOCK FALSE
