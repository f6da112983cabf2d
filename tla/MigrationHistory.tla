--------------------------- MODULE MigrationHistory ---------------------------
(***************************************************************************)
(* MigrationPolicy with the history variables its properties are about.    *)
(***************************************************************************)
EXTENDS MigrationPolicy

VARIABLES
  quiet,      \* windows since the last MIGRATE, up to the cooldown
  signals     \* signal windows since the last plain recovery-band window

historyVars == <<vars, quiet, signals>>

UpTo(n, limit) == IF n < limit THEN n ELSE limit

Record(w) ==
  /\ quiet' = IF decision'.action = "MIGRATE" THEN 0
              ELSE UpTo(quiet + 1, config.cooldown_windows)
  /\ signals' = IF signal_detected(w) THEN UpTo(signals + 1, config.min_consecutive_signals)
                ELSE IF InRecoveryBand(w) THEN 0
                ELSE signals

NothingYet == quiet = config.cooldown_windows /\ signals = 0

-----------------------------------------------------------------------------
(* The workload is not drained again and again: short of an emergency, two *)
(* migrations are at least cooldown_windows windows apart, and the second  *)
(* one took the configured number of signals since the stream was last     *)
(* inside the recovery band, although the count goes down as well as up.   *)
MigrationsEarned ==
  [][ decision'.action = "MIGRATE" /\ ~emergency(decision'.window)
      => /\ quiet + 1 >= config.cooldown_windows
         /\ signals' >= config.min_consecutive_signals ]_historyVars
=============================================================================
