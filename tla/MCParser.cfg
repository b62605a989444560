SPECIFICATION FrontSpec
CONSTANTS
  Trees <- ParserTrees
  Inputs <- ParserInputs
  INT_MAX = 7
INVARIANTS
  SpellingsAreRead
  ReadingsAreSpellings
CHECK_DEADLOCK FALSE
