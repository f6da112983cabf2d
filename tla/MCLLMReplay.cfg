\* Two runs over files of at most four lines.
CONSTANTS
  NoTarget = NoTarget
  Damaged = Damaged
  Target = "b"
  Inputs <- MCInputs
  Growth <- MCGrowth
  StructuralConfigs <- MCStructuralConfigs
  TimeoutConfigs <- MCTimeoutConfigs
  Windows <- MCWindows
  Samples <- MCSamples
  Signal <- MCSignal
  Encode <- MCEncode
  window_points = 2
  MaxRuns = 2
  MaxTime = 3
SPECIFICATION HistorySpec
INVARIANT RowsReproducible
INVARIANT SummaryTellsTheRows
CHECK_DEADLOCK FALSE
