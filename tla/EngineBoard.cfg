CONSTANTS
  Setups <- MCSetups
  Rule50 = 100
  Thresholds <- MCThresholds
SPECIFICATION GameSpec
CHECK_DEADLOCK FALSE
INVARIANTS StateInfoRight MovesRight RepetitionsRight ExchangesRight
