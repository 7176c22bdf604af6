CONSTANTS
  Writers = {w1}
  MaxDeltas = 1
  MaxResumes = 2
  MaxLosses = 2
  MaxCalls = 2
SPECIFICATION FairSpec
INVARIANTS
  StreamsFitTogether
  ClearedTextStaysHidden
PROPERTIES
  EndedTailsBroughtTheEnd
  EveryCallEnds
CHECK_DEADLOCK FALSE
