CONSTANTS
  NoTarget = "none"
  Target = "a"
  Configs <- MCConfigs
  Samples <- MCSamples
  MaxStreak = 9
SPECIFICATION MCFairSpec
INVARIANT CountersHonest
PROPERTY FirstRecoverySustained
PROPERTY WeakPromiseKept
PROPERTY FastStreamComesHome
