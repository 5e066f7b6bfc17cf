SPECIFICATION Spec
CONSTANTS
  Tasks = {t1, t2}
  Servers = {s1}
  None = None
  Stale = Stale
  RowDefault = "merging"
  MaxPriority = 0
  Env <- DispatchFaults
  NumActors = 2
  Threads = {r1, r2}
  Handlers = {h1}
  ClientOps = {"make", "remake", "remove"}
  MaxRequests = 3
INVARIANTS RewriteIsAlone NoStranded SingleExecution SuccessIsAnnounced
PROPERTY SuccessIsFinal
