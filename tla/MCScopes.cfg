SPECIFICATION ScopeSpec
CONSTANTS
  f = f
  x = x
  y = y
  z = z
  Names <- FewNames
  Types <- FewTypes
  INT_MAX = 7
  RESOLVER_INIT = 1
INVARIANTS
  ScopeTypeOK
  RoomInTable
  SlotsStayTrue
PROPERTIES
  ImplementsNameTable
CHECK_DEADLOCK FALSE
