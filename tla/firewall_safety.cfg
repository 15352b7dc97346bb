SPECIFICATION Spec
CONSTANTS
  Tables = {hydra_core, other_table}
  DefaultTable = hydra_core
  NoTable = none
  Rules = {r1, r2}
  NoRules = norules
  MaxCommands = 4
  MaxTrouble = 2
INVARIANTS TrialHasAWayOut ConfirmedStays TakenAwayStaysAway
CHECK_DEADLOCK FALSE
