SPECIFICATION Spec
CONSTANTS
  Agents = {a1, a2}
  Reporter = a1
  Checks = {c1, c2}
  Words = {"PASS", "FAIL"}
  CacheSeconds = 2
  Heartbeat = 2
  Nothing = Nothing
INVARIANTS ServingIsReachable JournalIsCurrent AnswersAreFresh
CHECK_DEADLOCK FALSE
