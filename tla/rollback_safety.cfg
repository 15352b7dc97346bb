SPECIFICATION Spec
CONSTANTS
  Targets = {t1, t2}
  Contents = {c1, c2}
  Absent = Absent
  Torn = Torn
  MaxEntries = 3
  MaxCommands = 4
  MaxInterrupts = 1
SYMMETRY Symmetry
INVARIANTS PassedIsOriginal MissingChangesNothing
CHECK_DEADLOCK FALSE
