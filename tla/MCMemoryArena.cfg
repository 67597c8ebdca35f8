SPECIFICATION Spec
CONSTANTS
  PageSmall = 2
  PageLarge = 8
  AddrMod = 256
  KernelEnd = 11
  InitrdEnd = 13
  MemoryMaps <- MCMemoryMaps
INVARIANTS
  PagesDisjoint
  NoMemoryLost
  InsideAvailableMemory
CHECK_DEADLOCK FALSE
