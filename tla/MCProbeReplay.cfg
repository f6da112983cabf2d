CONSTANTS
  NoModel = NoModel
  MaxSamples = 5
  Minutes = 4
  Configs <- MCConfigs
  Windows <- MCWindows
  Inputs <- MCFiles
  Encode <- MCEncode
  window_points = 2
  LOOKAHEAD = 10
  timeout_ms = 3000
  error_rate_threshold = 4
  window_size = 3
  Cooldown = 2
SPECIFICATION HistorySpec
INVARIANT CreditsMaximal
PROPERTY DecisionsEarned
CHECK_DEADLOCK FALSE
