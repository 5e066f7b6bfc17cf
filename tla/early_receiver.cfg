SPECIFICATION Spec
CONSTANTS
  Tasks = {t1}
  Servers = {s1}
  None = None
  Stale = Stale
  RowDefault = "merging"
  MaxPriority = 0
  Env <- EarlyThreads
  NumActors = 1
  Threads = {r1}
  Handlers = {h1}
  ClientOps = {"make"}
  MaxRequests = 1
PROPERTY UnheardIsFailed
