CONSTANTS
  Readers = {r1, r2}
  EvidenceLimit = 1
  EvidenceTotal = 1
  PrincipalLimit = 2
  GraphLimit = 1
  GraphTotal = 1
  Sources = {s1}
  Writers = {w1}
  MaxChanges = 2
SPECIFICATION FairReadsSpec
INVARIANTS
  PermitsWithinLimits
PROPERTIES
  AnswersAreOfOneLife
  EveryReadEnds
