CONSTANTS
  Threads = {t1, t2, t3, t4}
  Initial = 1
  Credit = 1
  Debt = 0
  Nobody = Nobody
  Producers = {p1, p2}
  Consumers = {c1, c2}
  N = 2
  MaxPuts = 2
  Limits = {1, 2, 9}
  MaxEpoch = 3
  Participants = {t1, t2, t3}
  InitialCount = 3
  MaxRounds = 3
SPECIFICATION MCSpec
INVARIANTS FifoOrder NobodyPassesEarly
PROPERTIES ImplementsSpec ImplementsMonitor SleeperGetsLock EveryItemIsGot EveryoneLeaves
CHECK_DEADLOCK FALSE
