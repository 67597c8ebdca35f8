SPECIFICATION Spec
CONSTANTS
  LargePages = 4
  DirPages = 16
  Segments <- MCSegments
  StackTop = 16
  EventBuf = 32
  NSmall = 12
  NLarge = 2
  Sizes = {1, 2, 4}
  Aligns = {1, 4}
  MaxAddr = 46
INVARIANTS
  
  PopulatedIsMapped
  
  
CHECK_DEADLOCK FALSE
