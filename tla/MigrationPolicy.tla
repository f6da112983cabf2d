--------------------------- MODULE MigrationPolicy ---------------------------
(***************************************************************************)
(* MigrationPolicy of scripts/spotfsm/policy.py: the structural policy     *)
(* that decides whether a spot workload stays, is watched or migrates.     *)
(* Numbers are integers: levels and thresholds in thousandths, weights in  *)
(* tenths, deltas doubled and the score multiplied by ScoreScale.          *)
(***************************************************************************)
EXTENDS RollingBaseline

CONSTANTS
  Configs,   \* the PolicyConfig records a policy may be built with
  Windows    \* the EncodedWindow records it may be given

VARIABLES
  config,
  hazard_history,
  rupture_history,
  consecutive_signals,
  cooldown_remaining,
  state,
  decision     \* the MigrationDecision last returned, with its window

vars == <<config, hazard_history, rupture_history, consecutive_signals,
          cooldown_remaining, state, decision>>

Actions == {"STABLE", "OBSERVE", "MIGRATE"}

NoDecision == [action |-> "NONE"]

-----------------------------------------------------------------------------
(* Twice the value's distance to the median of the windows before it.      *)
DoubleDelta(value, history) ==
  IF history = << >> THEN 0 ELSE 2 * value - DoubleMedian(history)

hazard_delta(w)  == DoubleDelta(w.hazard, hazard_history)
rupture_delta(w) == DoubleDelta(w.rupture, rupture_history)

(* A key the signature does not hold takes the value of the metric.        *)
SignatureValue(w, key, metric) ==
  IF key \in DOMAIN w.signature THEN w.signature[key] ELSE metric

Bias(holds, amount) == IF holds THEN amount ELSE 0

Biases(w) ==
    Bias(w.coherence <= config.coherence_ceiling, config.low_coherence_bias)
  + Bias(w.entropy - w.coherence >= config.min_entropy_gap, config.entropy_gap_bias)
  + Bias(/\ SignatureValue(w, "c", w.coherence) <= config.signature_coherence_ceiling
         /\ SignatureValue(w, "e", w.entropy) >= config.signature_entropy_floor,
         config.signature_bias)

ScoreScale == 20

Score(w) ==
    2 * (w.hazard * config.hazard_weight + w.rupture * config.rupture_weight)
  + NonNegative(hazard_delta(w)) * config.hazard_delta_weight
  + NonNegative(rupture_delta(w)) * config.rupture_delta_weight
  + ScoreScale * Biases(w)

signal_detected(w) ==
  /\ w.hazard >= config.hazard_floor
  /\ w.rupture >= config.rupture_floor
  /\ \/ hazard_delta(w) >= 2 * config.min_hazard_delta
     \/ rupture_delta(w) >= 2 * config.min_rupture_delta
     \/ w.hazard >= config.emergency_hazard
     \/ w.rupture >= config.emergency_rupture

InRecoveryBand(w) ==
  w.hazard <= config.recovery_hazard /\ w.rupture <= config.recovery_rupture

emergency(w) ==
  w.hazard >= config.emergency_hazard /\ w.rupture >= config.emergency_rupture

SignalsAfter(w) ==
  IF signal_detected(w) THEN consecutive_signals + 1
  ELSE IF InRecoveryBand(w) \/ consecutive_signals = 0 THEN 0
  ELSE consecutive_signals - 1

CooledDown == IF cooldown_remaining > 0 THEN cooldown_remaining - 1 ELSE cooldown_remaining

(* Mutated form: the cooldown does not hold a migration back.              *)
Migrates_Hot(w) ==
  \/ emergency(w)
  \/ /\ Score(w) >= ScoreScale * config.score_migrate_threshold
     /\ SignalsAfter(w) >= config.min_consecutive_signals

Migrates(w) ==
  \/ emergency(w)
  \/ /\ Score(w) >= ScoreScale * config.score_migrate_threshold
     /\ SignalsAfter(w) >= config.min_consecutive_signals
     /\ CooledDown = 0

(* Reason to observe now, or a window outside the recovery band while the  *)
(* last action was not STABLE.                                             *)
Observes(w) ==
  /\ ~Migrates(w)
  /\ \/ signal_detected(w)
     \/ Score(w) >= ScoreScale * config.score_observe_threshold
     \/ ~InRecoveryBand(w) /\ state # "STABLE"

-----------------------------------------------------------------------------
(* What every evaluation does, whatever the action.                        *)
Conclude(w, action) ==
  /\ consecutive_signals' = SignalsAfter(w)
  /\ cooldown_remaining' = IF action = "MIGRATE" THEN config.cooldown_windows ELSE CooledDown
  /\ state' = action
  /\ hazard_history' = PushBounded(hazard_history, w.hazard, config.history_window)
  /\ rupture_history' = PushBounded(rupture_history, w.rupture, config.history_window)
  /\ decision' = [action |-> action, window |-> w]
  /\ UNCHANGED config

Migrate(w) == Migrates(w) /\ Conclude(w, "MIGRATE")
Observe(w) == Observes(w) /\ Conclude(w, "OBSERVE")
Relax(w)   == ~Migrates(w) /\ ~Observes(w) /\ Conclude(w, "STABLE")

evaluate(w) == Migrate(w) \/ Observe(w) \/ Relax(w)

(* A policy just built.                                                    *)
Fresh ==
  /\ hazard_history = << >>
  /\ rupture_history = << >>
  /\ consecutive_signals = 0
  /\ cooldown_remaining = 0
  /\ state = "STABLE"
  /\ decision = NoDecision

Init == config \in Configs /\ Fresh

Next == \E w \in Windows : evaluate(w)

Spec == Init /\ [][Next]_vars
=============================================================================
