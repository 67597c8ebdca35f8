SPECIFICATION Spec
CONSTANTS
  NPages = 6
  Capacity <- MCCapacity
INVARIANTS
  OneOwnerPerPage
  ObjectsConserved
CHECK_DEADLOCK FALSE
