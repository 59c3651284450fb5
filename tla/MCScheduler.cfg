CONSTANTS
  Cores = {c1, c2}
  Alone = c1
  Threads = {reaper, t1, t2}
  Reaper = reaper
  InitThread = t1
  Parkers = {reaper, t1, t2}
  NoTcb = NoTcb
SPECIFICATION MCSpec
INVARIANTS
  NoStackShared NoUseAfterDelete ExactlyOnePlace PreemptsOnlyOutsideBlock
PROPERTY ReadyThreadsRun
CHECK_DEADLOCK FALSE
