CONSTANTS
  Done = Done
  Empty = Empty
  Malformed = Malformed
  NoResult = NoResult
  ServerLines <- MCLines
  Statuses = {200, 429}
  MaxClock = 2
  MaxLines = 2
SPECIFICATION MCSpec
INVARIANT TextTimed
INVARIANT ErrorsReported
INVARIANT UsageSurvives
CHECK_DEADLOCK FALSE
