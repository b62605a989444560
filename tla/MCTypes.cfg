SPECIFICATION PipelineSpec
CONSTANTS
  Programs <- TypePrograms
  Images <- CompiledImages
  INT_MAX = 7
  BYTE = 256
  STACK_INIT = 128
  ARRAY_CHUNK = 64
  RESOLVER_INIT = 1
  EMIT_INIT = 8
  MaxIterations = 20
INVARIANTS
  GeneratedCodeIsTyped
  TypesAreSound
  LocalsKeepDeclaredTypes
  ArraysAreHomogeneous
  RefusesTheIllTyped
CHECK_DEADLOCK FALSE
