SPECIFICATION CorrectSpec
CONSTANTS
  Programs <- AllPrograms
  Images = {}
  INT_MAX = 7
  BYTE = 40
  STACK_INIT = 2
  ARRAY_CHUNK = 2
  RESOLVER_INIT = 1
  EMIT_INIT = 8
  MaxIterations = 20
INVARIANTS
  PipelineTypeOK
  ProgramsAreRead
  MatchesReference
  StringsAreCounted
  PrintsLastExpression
  NothingDangles
PROPERTIES
  CareIsTaken
  Terminates
CHECK_DEADLOCK FALSE
