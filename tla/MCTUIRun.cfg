SPECIFICATION RunSpec
CONSTANTS
  Size = 4
  Last <- MCLast
  Filters = {"f"}
  NoFilter = ""
  Hit <- MCHit
  Heights = {4}
  TypedBytes <- MCTypedBytes
  Inputs <- MCInputs
INVARIANT SplitArrowsOnlyMove
PROPERTY ArrowsAreWhole
CHECK_DEADLOCK FALSE
