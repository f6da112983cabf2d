CONSTANTS
  NoTarget = "none"
  Target = "a"
  Configs <- MCConfigs
  Windows <- MCWindows
  MaxSignals = 3
  MaxStreak = 6
SPECIFICATION MCFairSpec
INVARIANT CountersHonest
INVARIANT FallbackIsElsewhere
INVARIANT SteadyStreamStaysHome
PROPERTY RouteNeedsSignals
PROPERTY PromiseKept
PROPERTY SettledStreamComesHome
