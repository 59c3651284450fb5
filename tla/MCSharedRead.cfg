CONSTANTS
  Drive <- ADrive
  SectorSize = 3
  BlockSize = 6
  PerGroup = 5
  Tables <- ATables
  NodeSize = 1
  Direct = 1
  Sets = 2
  Ways = 2
  LruWord = 8
  NodeSets = 1
  NodeWays = 2
  NodeLruWord = 4
  Cover = 101
  Bitmap <- ABitmap
  Songs <- ASongs
  N = 3
  Chunk = 4
  Pace = 4
  Samples <- ASamples
  Inline = 1
  MaxLinks = 10
  Procs = {p1, p2}
  First = p1
  Objects = {f1}
  None = None
  Console = Console
  NFILE = 2
  Consoles = {1}
  Word = 32
  Paths <- APaths
  Sizes = {4, 20}
  Seeks = {0, 8, 31}
  Content <- AContent
  Named <- ANames
  UserBase = 8
  Top = 112
  StackTop = 64
  AddressWord = 128
  Headers <- AHeaders
  Segments <- ASegments
  Calls <- ACalls
  KnownPaths <- AKnownPaths
  Programs <- APrograms
SPECIFICATION FSSpec
INVARIANT ReadReturnsBytesRead
CHECK_DEADLOCK FALSE
