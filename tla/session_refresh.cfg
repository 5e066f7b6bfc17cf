SPECIFICATION Spec
CONSTANTS
  SsoUsers = {}
  Locals = {g1}
  Handlers = {h1}
  None = None
  SessionValid = 2
  SessionRefresh = 0
  MaxNow = 3
  MaxTokens = 1
PROPERTY RefreshExtends
CHECK_DEADLOCK FALSE
