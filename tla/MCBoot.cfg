CONSTANTS
  Machines <- MCMachines
  Ids = {0, 1, 2}
  Slots = 16
  MbrSlot = 2
  KernelSectors = 4
  WordSize = 16
SPECIFICATION Spec
INVARIANTS KernelInPlace StacksExclusive InitialisedBeforeUse ConfigurationFound FirstThreadOnce
PROPERTY AllArrive
CHECK_DEADLOCK FALSE
