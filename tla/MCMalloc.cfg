SPECIFICATION Spec
CONSTANTS
  MinObj = 2
  SmallMax = 6
  PageSize = 7
  NPages = 2
  MetaSize = 1
  NSegments = 2
  Requests = {0, 3, 5}
INVARIANTS
  BlocksConserved
  ObjectsDisjoint
CHECK_DEADLOCK FALSE
