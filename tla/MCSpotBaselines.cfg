\* Series of at most seven points over four prices.
CONSTANTS
  Configs <- MCConfigs
  Prices = {1, 2, 3, 5}
  MaxPoints = 7
SPECIFICATION MCSpec
INVARIANT AlwaysIsPeriodic
INVARIANT AlwaysIsGreediest
INVARIANT ReactiveCoversZScore
CHECK_DEADLOCK FALSE
