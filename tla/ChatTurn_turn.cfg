CONSTANTS
  Turns = {t1}
  c1 = c1
  Conversations = {c1}
  ConversationOf <- OneConversation
  Workers = {w1, w2}
  Sources = {s1}
  Domain = Domain
  NoTurn = NoTurn
  MaxGeneration = 2
  MaxDeltas = 1
SPECIFICATION FairSpec
CHECK_DEADLOCK FALSE
INVARIANTS
  TypeOK
  OutcomeMatchesStatus
  OnlyLatestClaimFinalizes
  DeletedSourcesStayUncited
  EvidencePrecedesAnswer
  EvidenceIsStable
PROPERTIES
  EndedTurnsStayEnded
  TurnEventuallyEnds
