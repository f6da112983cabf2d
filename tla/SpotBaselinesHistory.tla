------------------------- MODULE SpotBaselinesHistory -------------------------
(***************************************************************************)
(* SpotBaselines with the counts a replay summary reports: the points      *)
(* seen and the migration_count of each policy.                            *)
(***************************************************************************)
EXTENDS SpotBaselines

VARIABLES points, migrations

historyVars == <<vars, points, migrations>>

HistoryInit ==
  /\ Init
  /\ points = 0
  /\ migrations = [p \in Policies |-> 0]

Record ==
  /\ points' = points + 1
  /\ migrations' = [p \in Policies |->
       IF action'[p] = "MIGRATE" THEN migrations[p] + 1 ELSE migrations[p]]

HistoryNext == \E price \in Prices, lucky \in Draws : evaluate(price, lucky) /\ Record

HistorySpec == HistoryInit /\ [][HistoryNext]_historyVars

-----------------------------------------------------------------------------
(* Type invariant; a cooldown never exceeds the configured one.            *)
TypeOK ==
  /\ config \in Configs
  /\ price_history \in [Priced -> Seq(Int)]
  /\ \A p \in Priced : Len(price_history[p]) <= config[p].rolling_window_points
  /\ velocity_history \in Seq(Int)
  /\ cooldown_remaining \in [Policies -> Nat]
  /\ \A p \in Policies : cooldown_remaining[p] <= config[p].cooldown_points
  /\ action \in [Policies -> Actions]
  /\ points \in Nat
  /\ migrations \in [Policies -> Nat]

Period == IF config["always_migrate"].cooldown_points = 0 THEN 1
          ELSE config["always_migrate"].cooldown_points

(* AlwaysMigratePolicy migrates on the first point and then on every       *)
(* cooldown_points-th one exactly, a cooldown of zero meaning every point: *)
(* the count is the number of points over the period, rounded up.          *)
AlwaysIsPeriodic ==
  /\ points <= migrations["always_migrate"] * Period
  /\ migrations["always_migrate"] * Period < points + Period

(* The promise of the trivial baseline, "triggers migration continuously   *)
(* according to cooldown": no baseline whose cooldown is as long has ever  *)
(* migrated more often, on any prices and any luck.                        *)
AlwaysIsGreediest ==
  \A p \in Policies :
    config["always_migrate"].cooldown_points <= config[p].cooldown_points
      => migrations[p] <= migrations["always_migrate"]

(* The reactive policy that looks at the same window with a z-score        *)
(* threshold and a cooldown no larger than the z-score policy's has        *)
(* migrated as often, although their cooldowns run out of step.            *)
Comparable ==
  /\ config["reactive"].rolling_window_points = config["zscore"].rolling_window_points
  /\ config["reactive"].cooldown_points <= config["zscore"].cooldown_points
  /\ config["reactive"].price_zscore_threshold = config["zscore"].zscore_threshold

ReactiveCoversZScore ==
  Comparable => migrations["zscore"] <= migrations["reactive"]
=============================================================================
