CONSTANTS
  NoTarget = "none"
  Target = "a"
  Configs <- MCConfigs
  Samples <- MCSamples
  MaxStreak = 9
SPECIFICATION MCSpec
PROPERTY SustainedRecovery
