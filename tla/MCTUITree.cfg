SPECIFICATION TreeSpec
CONSTANTS
  Size = 7
  Last <- MCLast
  Filters = {"deep", "inner", "absent"}
  NoFilter = ""
  Hit <- MCHit
  Heights = {0, 5, 6}
INVARIANTS
  ViewConsistent
  FilterShowsAllMatches
PROPERTY SelectionIsKept
CHECK_DEADLOCK FALSE
