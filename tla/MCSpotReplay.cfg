\* Two runs, with and without a shared store.
CONSTANTS
  Inferred = Inferred
  Nothing = Nothing
  Series <- MCSeries
  MigrationConfigs <- MCMigrationConfigs
  BaselineConfigs <- MCBaselineConfigs
  ReplayConfigs <- MCReplayConfigs
  Windows <- MCWindows
  Prices = {5, 6, 7, 8, 9}
  Encode <- MCEncode
  window_points = 2
  Luck <- MCLuck
  MaxRuns = 2
SPECIFICATION HistorySpec
INVARIANT StoreNeverBehindLog
INVARIANT ArtifactsInOrder
INVARIANT EventsAreSpikes
INVARIANT CreditsSound
PROPERTY MigrationsEarned
CHECK_DEADLOCK FALSE
