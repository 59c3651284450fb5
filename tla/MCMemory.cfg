CONSTANTS
  Cores = {c1, c2}
  Procs = {kernel, p1}
  Kernel = kernel
  NoProc = NoProc
  Frames = 8
  Slots = 2
  Touched <- TwoPages
  Words = {7}
  Ints = 22
  Requests = {8, 9, 20}
  Patience = 2
  UserData = 99
SPECIFICATION MCSpec
SYMMETRY CoreSymmetry
INVARIANTS FramesExclusive TranslationsCurrent HeapIntact
PROPERTIES MemoryPrivate ContentsKept
CHECK_DEADLOCK FALSE
