SPECIFICATION Spec
CONSTANTS
  Images <- MachineImages
  INT_MAX = 7
  BYTE = 256
  STACK_INIT = 1
  ARRAY_CHUNK = 2
INVARIANTS
  VMTypeOK
  PointersLocated
  ArraysStayAllocated
  RoomToAppend
  StackFits
PROPERTIES
  CountingIsInvisible
CHECK_DEADLOCK FALSE
