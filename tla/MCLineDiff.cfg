SPECIFICATION MCSpec
CONSTANTS
  Lines <- MCLines
  ShortLen = 3
  LongLen = 7
  None = 0
  MaxCells = 49
  Contexts <- MCContexts
INVARIANTS
  AlignmentCorrect
  AlignmentMinimal
  HunksExact
CHECK_DEADLOCK FALSE
