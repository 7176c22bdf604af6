CONSTANTS
  Requests = {r1, r2}
  Workers = {w1, w2}
  NoRequest = NoRequest
  MaxFaults = 1
SPECIFICATION FairSpec
CHECK_DEADLOCK FALSE
INVARIANTS
  ReferencedObjectsExist
PROPERTIES
  DeletingIsFinal
  CancelledNeverSucceeds
  PreparationSettles
  DeletionSettles
