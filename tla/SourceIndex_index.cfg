CONSTANTS
  owner = owner
  Sources = {s1}
  Workers = {w1, w2}
  Owners = {owner}
  OwnerOf <- SharedOwner
  Requests = {a1}
  NoSource = NoSource
  MaxGeneration = 2
  MaxDesired = 1
  MaxFaults = 1
SPECIFICATION FairSpec
CHECK_DEADLOCK FALSE
INVARIANTS
  LatchedBeforeSubmit
  FencedStaysIneligible
PROPERTIES
  ErrorsMarkTheirOwnRequest
  KeepsRetrievalGate
  IndexingSettles
