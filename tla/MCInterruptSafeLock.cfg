CONSTANTS
  Cores = {c1, c2, c3}
  NoOwner = NoOwner
  MaxItems = 2
SPECIFICATION MCSpec
INVARIANTS HolderNotInterrupted NoWakeUpLost
PROPERTIES CallerStateRestored ImplementsMutex
