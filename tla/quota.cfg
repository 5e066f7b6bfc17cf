SPECIFICATION Spec
CONSTANTS
  root = root
  child = child
  other = other
  human = human
  s1 = s1
  w1 = w1
  w2 = w2
  None = None
  Accounts = {root, child, other}
  Root <- RootOf
  Humans = {human}
  Owner <- OwnerOf
  Servers = {s1}
  Workers = {w1, w2}
  Home <- HomeOf
  Opening <- Openings
  Costs = {2}
  Appends <- Packages
  Dates <- Deadlines
  YearTime = 3
  MonthTime = 2
  DayTime = 1
  IntMax = 7
  MaxIds = 10
  Day = 3
  Hour = 2
  Sleep = 1
  Env = {"db", "crash", "fps"}
  MaxOps = 2
  MaxDay = 2
  MaxRestarts = 1
SYMMETRY AnyWorker
INVARIANTS TypeOK NothingFromNothing  BalanceIsExact ListedWasRaised AtMostADayPerDay NoDaySkipped
