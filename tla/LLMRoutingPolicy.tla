--------------------------- MODULE LLMRoutingPolicy ---------------------------
(***************************************************************************)
(* LLMRoutingPolicy of scripts/llm_probe/policy.py, the first port of the  *)
(* migration policy to LLM signals: three actions, a cooldown between two  *)
(* routings, and an OBSERVE that sticks until the recovery band.  Numbers  *)
(* are integers: levels and thresholds in thousandths, weights in tenths,  *)
(* deltas doubled and the score multiplied by ScoreScale.                  *)
(***************************************************************************)
EXTENDS RollingBaseline

CONSTANTS
  Configs,   \* the LLMRoutingPolicyConfig records a policy may be built with
  Windows    \* the EncodedWindow records it may be given

ASSUME ConfigsAssumption ==
  \A c \in Configs : c.cooldown_windows \in Nat /\ c.min_consecutive_signals \in Nat

VARIABLES
  config,
  hazard_history,
  rupture_history,
  consecutive_signals,
  cooldown_remaining,
  state,
  decision     \* the RoutingDecision last returned

vars == <<config, hazard_history, rupture_history, consecutive_signals,
          cooldown_remaining, state, decision>>

Actions == {"STABLE", "OBSERVE", "ROUTE"}

NoDecision == [action |-> "NONE"]

-----------------------------------------------------------------------------
DoubleDelta(value, history) ==
  IF history = << >> THEN 0 ELSE 2 * value - DoubleMedian(history)

hazard_delta(w)  == DoubleDelta(w.hazard, hazard_history)
rupture_delta(w) == DoubleDelta(w.rupture, rupture_history)

ScoreScale == 20

Score(w) ==
    2 * (w.hazard * config.hazard_weight + w.rupture * config.rupture_weight)
  + NonNegative(hazard_delta(w)) * config.hazard_delta_weight
  + NonNegative(rupture_delta(w)) * config.rupture_delta_weight
  + ScoreScale *
      (  (IF w.coherence <= config.coherence_ceiling THEN config.low_coherence_bias ELSE 0)
       + (IF w.entropy - w.coherence >= config.min_entropy_gap THEN config.entropy_gap_bias ELSE 0))

signal_detected(w) ==
  /\ w.hazard >= config.hazard_floor
  /\ w.rupture >= config.rupture_floor
  /\ \/ hazard_delta(w) >= 2 * config.min_hazard_delta
     \/ rupture_delta(w) >= 2 * config.min_rupture_delta
     \/ w.hazard >= config.emergency_hazard
     \/ w.rupture >= config.emergency_rupture

InRecoveryBand(w) ==
  /\ w.hazard <= config.recovery_hazard
  /\ w.rupture <= config.recovery_rupture

emergency(w) ==
  /\ w.hazard >= config.emergency_hazard
  /\ w.rupture >= config.emergency_rupture

SignalsAfter(w) ==
  IF signal_detected(w) THEN consecutive_signals + 1
  ELSE IF InRecoveryBand(w) \/ consecutive_signals = 0 THEN 0
  ELSE consecutive_signals - 1

CooledDown == IF cooldown_remaining > 0 THEN cooldown_remaining - 1 ELSE cooldown_remaining

(* Mutated form: the cooldown does not hold a routing back.                *)
route_condition_Hot(w) ==
  /\ Score(w) >= ScoreScale * config.score_route_threshold
  /\ SignalsAfter(w) >= config.min_consecutive_signals

route_condition(w) ==
  /\ Score(w) >= ScoreScale * config.score_route_threshold
  /\ SignalsAfter(w) >= config.min_consecutive_signals
  /\ CooledDown = 0

Routes(w) == emergency(w) \/ route_condition(w)

(* Reason to observe now, or a window outside the recovery band while the  *)
(* last action was not STABLE.                                             *)
Observes(w) ==
  /\ ~Routes(w)
  /\ \/ signal_detected(w)
     \/ Score(w) >= ScoreScale * config.score_observe_threshold
     \/ ~InRecoveryBand(w) /\ state # "STABLE"

-----------------------------------------------------------------------------
(* What every evaluation does, whatever the action.                        *)
Conclude(w, action) ==
  /\ consecutive_signals' = SignalsAfter(w)
  /\ cooldown_remaining' = IF action = "ROUTE" THEN config.cooldown_windows ELSE CooledDown
  /\ state' = action
  /\ hazard_history' = PushBounded(hazard_history, w.hazard, config.history_window)
  /\ rupture_history' = PushBounded(rupture_history, w.rupture, config.history_window)
  /\ decision' = [action |-> action, window |-> w]
  /\ UNCHANGED config

Route(w)   == Routes(w) /\ Conclude(w, "ROUTE")
Observe(w) == Observes(w) /\ Conclude(w, "OBSERVE")
Relax(w)   == ~Routes(w) /\ ~Observes(w) /\ Conclude(w, "STABLE")

evaluate(w) == Route(w) \/ Observe(w) \/ Relax(w)

(* A policy just built.                                                    *)
Fresh ==
  /\ hazard_history = << >>
  /\ rupture_history = << >>
  /\ consecutive_signals = 0
  /\ cooldown_remaining = 0
  /\ state = "STABLE"
  /\ decision = NoDecision

Init == config \in Configs /\ Fresh

Next == \E w \in Windows : evaluate(w)

Spec == Init /\ [][Next]_vars
=============================================================================
