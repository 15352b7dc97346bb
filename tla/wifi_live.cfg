SPECIFICATION WindowSpec
CONSTANTS
  Requests = {r1, r2}
  Networks = {n1}
  NoNetwork = NoNetwork
  Faults = {"stop", "file"}
  MaxCrashes = 1
  MaxBoots = 1
PROPERTIES AttemptEnds ServiceEnds
