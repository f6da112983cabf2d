\* Bytes of two bits, streams of up to eight bits, lists of up to five words,
\* windows of up to three points.
CONSTANTS
  Configs <- MCConfigs
  ByteBits = 2
  Signatures = {s1, s2}
  Words = {0, 1, 2}
  NULL_STATE = NULL_STATE
  OSCILLATION = OSCILLATION
  REGIME_SHIFT = REGIME_SHIFT
  Unset = Unset
  MaxBytes = 4
  MaxWords = 5
  Baselines <- MCBaselines
  Values <- MCValues
  MaxPoints = 3
  MaxAnalysed = 2
SPECIFICATION MCSpec
INVARIANT BatchEqualsStream
INVARIANT EventsAddUp
INVARIANT RepetitionsCounted
INVARIANT StreamIsCovered
INVARIANT ValuesRecovered
CHECK_DEADLOCK FALSE
