CONSTANTS
  Procs = {first, p1, p2}
  First = first
  Semaphores = {s1}
  Files = {f}
  None = None
  NSEM = 1
  NCHILD = 2
  NFILE = 1
  Initials = {0}
  Statuses = {5}
  MaxUnits = 1
SPECIFICATION FairSpec
INVARIANTS RefsExact WaitGetsStatus
PROPERTY WaitReturns
CHECK_DEADLOCK FALSE
