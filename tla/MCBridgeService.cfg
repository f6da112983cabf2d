\* Fourteen ticks: a window, a baseline, two gaps and two points more.
CONSTANTS
  Configs <- MCConfigs
  Values = {2, 4, 6, 8, 10, 12, 14, 16, 18, 20, 22, 24, 26, 28}
  MaxTime = 14
  MaxMissing = 2
  MaxGaps = 2
  None = None
  east = east
  west = west
SPECIFICATION MCSpec
INVARIANT ObservationsAreReplayed
INVARIANT RoundIsComplete
PROPERTY RoundsGoOn
CHECK_DEADLOCK FALSE
