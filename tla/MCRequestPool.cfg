CONSTANTS
  r1 = r1
  r2 = r2
  r3 = r3
  Requests = {r1, r2, r3}
  Threads = 2
  Conns = 1
  MaxTransactions = 2
SPECIFICATION Spec
INVARIANTS
  LoopNeverWaits
PROPERTIES
  ConnectionComesBack
  EveryRequestAnswered
CHECK_DEADLOCK FALSE
