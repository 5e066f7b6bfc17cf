SPECIFICATION FairSpec
CONSTANTS
  Tasks = {t1, t2}
  Servers = {s1, s2}
  None = None
  Stale = Stale
  RowDefault = "merging"
  MaxPriority = 1
  Env <- FairWeather
  NumActors = 1
  Threads = {r1, r2}
  Handlers = {h1, h2}
  ClientOps = {"make", "draft", "remake", "save", "remove", "priority"}
  MaxRequests = 3
INVARIANTS MergingIsWatched ExclusiveClaim RewriteIsAlone
PROPERTIES ImplementsLifecycle EventuallySettled
