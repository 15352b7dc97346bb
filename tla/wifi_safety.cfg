SPECIFICATION Spec
CONSTANTS
  Requests = {r1, r2}
  Networks = {n1, n2}
  NoNetwork = NoNetwork
  Faults = {"status", "start", "stop", "bind", "answer", "file"}
  MaxCrashes = 1
  MaxBoots = 1
SYMMETRY Symmetry
INVARIANTS AtMostOneAttempt FileBeforeMemory ReachableWhenServing
PROPERTY JoinedIsKept
