SPECIFICATION DecisionsSpec
CONSTANTS
  Tables <- MCTables
  Reports <- MCReports
  Backups <- MCBackups
  Restores <- MCRestores
  Hosts <- MCHosts
  Pairs <- MCPairs
  Boards <- MCBoards
  Repositories <- MCRepositories
  Languages <- MCLanguages
  Order <- MCOrder
  Required <- MCRequired
  Hidden = {"README.md", ".venv", ".github"}
  Ordinary = {"LICENSE", "run.sh", "run.bat"}
  Keys = {"name", "stack"}
  Documents = {"CHANGELOG.md", "LICENSE"}
INVARIANTS TableAgrees SavedIsRestorable RestoreStaysInside
  PassIsEarned NamesTellApart LightsStayHonest PassedIsSound
