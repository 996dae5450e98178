SPECIFICATION MetaSpec
CONSTANTS
  Keys = {"account", "trustline", "contractData"}
  Tracked = {"account", "trustline"}
  Amounts <- MCAmounts
  MinInt64 <- MCMin
  MaxInt64 = 1
  Versions = {0, 1, 2, 5}
  MaxChanges = 5
INVARIANTS
  DeltasExact
CHECK_DEADLOCK FALSE
