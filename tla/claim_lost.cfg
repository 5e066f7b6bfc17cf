SPECIFICATION Spec
CONSTANTS
  Tasks = {t1}
  Servers = {s1, s2}
  None = None
  Stale = Stale
  RowDefault = "merging"
  MaxPriority = 0
  Env <- HastyClients
  NumActors = 1
  Threads = {r1}
  Handlers = {h1}
  ClientOps = {"make", "remake"}
  MaxRequests = 2
INVARIANT ExclusiveClaim
