CONSTANTS
  Turns = {t1, t2}
  c1 = c1
  Conversations = {c1}
  ConversationOf <- OneConversation
  Workers = {w1}
  Sources = {s1}
  Domain = Domain
  NoTurn = NoTurn
  MaxGeneration = 1
  MaxDeltas = 0
SPECIFICATION Spec
CHECK_DEADLOCK FALSE
INVARIANTS
  OneRunningTurn
