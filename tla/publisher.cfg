SPECIFICATION FairSpec
CONSTANTS
  Producers = {p1, p2}
  Total = 3
  Faults <- AllFaults
INVARIANTS TypeOK InOrder Accounted NoLostWakeup
PROPERTIES EventuallyHandled ImplementsChannel
CHECK_DEADLOCK FALSE
