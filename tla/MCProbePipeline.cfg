\* Two rounds and one fault: a write cut short can be followed by the append
\* that joins its line, and a fetch can overlap either.
CONSTANTS
  a = a
  b = b
  live = live
  old = old
  Damaged = Damaged
  LiveFile = live
  Targets <- MCTargets
  KeyRings <- MCKeyRings
  Metrics <- MCMetrics
  Lookback <- MCLookback
  Files <- MCFiles
  Archive <- MCArchive
  WindowPoints = 2
  Once = FALSE
  MaxTime = 2
  MaxLines = 4
  MaxFaults = 1
SPECIFICATION FairHistorySpec
INVARIANTS
  ProbesAccountedFor
PROPERTIES
  FetchesKeepUp
  ErrorsMeanDamage
  EveryRecordIsSeen
