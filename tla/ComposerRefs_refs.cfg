CONSTANTS
  NoOne = NoOne
  t1 = t1
  t2 = t2
  t3 = t3
  k1 = k1
  k2 = k2
  Turns = {t1, t2, t3}
  Answered = {t1}
  ConversationOf <- InConversation
  s1 = s1
  Sources = {s1}
  p1 = p1
  Templates = {p1}
  r1 = r1
  r2 = r2
  Requests = {r1, r2}
  HashOrder <- ByHash
  IdOrder <- ById
  MaxPerKind = 2
  MaxTokens = 2
SPECIFICATION Spec
SYMMETRY Interchangeable
INVARIANTS
  TokensServeOneTurn
  DeletedTargetsStayOut
CHECK_DEADLOCK FALSE
