SPECIFICATION MetaSpec
CONSTANTS
  Keys = {"account"}
  Tracked = {"account"}
  Amounts <- MCAmounts
  MinInt64 <- MCMin
  MaxInt64 = 1
  Versions = {0, 1, 2, 3, 4}
  MaxChanges = 4
INVARIANT DeltasInEveryVersion
CHECK_DEADLOCK FALSE
