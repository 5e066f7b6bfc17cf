SPECIFICATION Spec
CONSTANTS
  Tasks = {t1}
  Servers = {s1, s2}
  None = None
  Stale = Stale
  RowDefault = "merging"
  MaxPriority = 0
  Env <- AllFaults
  NumActors = 1
  Threads = {r1}
  Handlers = {h1}
  ClientOps = {"make", "draft", "sync", "remove", "priority"}
  MaxRequests = 2
INVARIANTS TypeOK ExclusiveClaim
