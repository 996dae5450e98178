SPECIFICATION Spec
CONSTANTS
  Families <- MCFamilies
  MaxAlignmentCells = 12
  FloatExact = 8
  WeightModulus = 8
  LimbBase = 4
INVARIANTS
  ChangesExact
  RulesOnlyHide
  CollectionsMatched
  PowerChangesReported
  SemanticsExact
  ReportsAgree
