CONSTANTS
  Requests = {r1, r2}
  Workers = {w1, w2}
  NoRequest = NoRequest
  UncertainMessages = {"uncertain", "timed out"}
  MaxInstances = 2
  MaxFaults = 2
SPECIFICATION FairSpec
CHECK_DEADLOCK FALSE
INVARIANTS
  ActiveOpIsCurrent
  RunningWasSeenUp
PROPERTIES
  ImplementsLedger
  DeletionSettles
  UncertainStartSettles
