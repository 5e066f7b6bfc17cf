SPECIFICATION FairSpec
CONSTANTS
  SsoUsers = {u1}
  Locals = {g1}
  Handlers = {h1, h2}
  None = None
  SessionValid = 3
  SessionRefresh = 1
  MaxNow = 5
  MaxTokens = 2
INVARIANT TypeOK
PROPERTIES NoLiveSessionCleared ExpiredIsCleared
CHECK_DEADLOCK FALSE
