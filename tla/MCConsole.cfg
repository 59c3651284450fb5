CONSTANTS
  c1 = c1
  c2 = c2
  p1 = p1
  Cores <- MCCores
  Processes <- MCProcesses
  Printers <- MCPrinters
  Plans <- MCPlans
  MaxLen = 9
  WordBits = 8
  Chunk = 2
SPECIFICATION Spec
INVARIANTS ConversionsReadBack MessagesWhole
PROPERTY EveryCallReturns
CHECK_DEADLOCK FALSE
