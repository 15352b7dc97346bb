SPECIFICATION ToolSpec
CONSTANTS
  Starts <- MCStarts
  Styles = {"plain", "cargo", "pubspec", "npm", "fields", "fields+build"}
  MaxCommands = 3
  MaxEdits = 1
  MaxKills = 1
  MaxTools = 2
  MaxCommits = 1
INVARIANTS SuccessMeansAgreement ABumpCanBeFinished
PROPERTIES NoVersionIsSkipped BumpedIsTheNext
CHECK_DEADLOCK FALSE
