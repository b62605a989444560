SPECIFICATION PipelineSpec
CONSTANTS
  Programs <- MixedPrograms
  Images <- CompiledImages
  INT_MAX = 7
  BYTE = 256
  STACK_INIT = 2
  ARRAY_CHUNK = 2
  RESOLVER_INIT = 1
  EMIT_INIT = 8
  MaxIterations = 20
INVARIANTS
  GeneratedCodeDecodes
  JumpsLandOnInstructions
  CodeIsWellFormed
CHECK_DEADLOCK FALSE
