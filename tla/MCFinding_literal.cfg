SPECIFICATION CorrectSpec
CONSTANTS
  Programs <- LiteralPrograms
  Images <- CompiledImages
  INT_MAX = 7
  BYTE = 256
  STACK_INIT = 128
  ARRAY_CHUNK = 64
  RESOLVER_INIT = 1
  EMIT_INIT = 8
  MaxIterations = 20
INVARIANTS
  ArraysAreHomogeneous
CHECK_DEADLOCK FALSE
