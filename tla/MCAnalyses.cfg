SPECIFICATION Spec
CONSTANTS
  Requests <- MCRequests
  SnakeOf <- MCSnakeOf
  Horizon = 9
  MaxAlignmentCells = 12
  FloatExact = 8
  WeightModulus = 16
  LimbBase = 4
  StroopModulus = 64
  DefaultBaseReserve = 1
  ReferenceLedger = 3
  ReferenceCloseTime = 5
  LedgerCloseInterval = 2
  MaxTime = 4
  TimeModulus = 32
INVARIANTS
  ResultsRead
  WrappingKeepsDiagnosis
  AccountsJudged
  ClaimsJudged
  InputsCompared
PROPERTIES
  ExpiryJudged
