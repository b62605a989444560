SPECIFICATION LexFairSpec
CONSTANTS
  Sources <- LexerSources
  INT_MAX = 7
  INT_DIGITS = 2
  IDENT_MAX = 3
  STRING_INIT = 1
  ALLOC_MAX = 8
INVARIANTS
  LexTypeOK
  CopiesFit
PROPERTIES
  EveryTokenAdvances
  EveryStepCounts
  ReadsLongestMatch
  LexerEnds
CHECK_DEADLOCK FALSE
