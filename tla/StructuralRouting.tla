-------------------------- MODULE StructuralRouting --------------------------
(***************************************************************************)
(* StructuralRoutingPolicy of scripts/llm_routing/policy.py: the state     *)
(* machine that turns each structural window of one metric stream into a   *)
(* routing decision.                                                       *)
(*                                                                         *)
(* Numbers.  Hazard, rupture, coherence, entropy and every threshold are   *)
(* integers in thousandths, the four score weights integers in tenths.     *)
(* The median of an even number of values is a half, so medians and deltas *)
(* are kept doubled and the score is kept multiplied by ScoreScale.        *)
(***************************************************************************)
EXTENDS RoutingTopology, RollingBaseline

CONSTANTS
  Configs,   \* the StructuralRoutingConfig records a policy may be built with
  Windows,   \* the EncodedWindow records a stream may deliver
  Target     \* the target named by the metric id of the stream

(* The counts of a configuration are not negative, its priority is a list, *)
(* and the two levels of a window are numbers; the code coerces them with  *)
(* int(), tuple() and float().                                             *)
ASSUME ConfigsAssumption ==
  \A c \in Configs :
    /\ c.history_window \in Nat
    /\ c.min_consecutive_signals \in Nat
    /\ c.cooldown_windows \in Nat
    /\ c.recovery_windows \in Nat
    /\ IsPriority(c.topology.provider_priority)

ASSUME WindowsAssumption ==
  \A w \in Windows : w.hazard \in Int /\ w.rupture \in Int

VARIABLES
  config,
  hazard_history,
  rupture_history,
  consecutive_signals,
  cooldown_remaining,
  recovery_streak,
  on_fallback,
  decision     \* the RoutingDecision last returned

vars == <<config, hazard_history, rupture_history, consecutive_signals,
          cooldown_remaining, recovery_streak, on_fallback, decision>>

Actions == {"PRIMARY", "OBSERVE", "ROUTE_FALLBACK"}

NoDecision == [action |-> "NONE", selected_target |-> NoTarget, window |-> "none"]

primary_target  == PrimaryTarget(config.topology, Target)
fallback_target == FallbackTargetFor(config.topology, primary_target)

-----------------------------------------------------------------------------
(* Deltas and score                                                        *)

(* Mutated form: an empty history is a baseline of zero.                   *)
DoubleDelta_ZeroBaseline(value, history) ==
  IF history = << >> THEN 2 * value ELSE 2 * value - DoubleMedian(history)

(* Twice the distance of a value to its baseline; an empty history makes   *)
(* the value its own baseline.                                             *)
DoubleDelta(value, history) ==
  IF history = << >> THEN 0 ELSE 2 * value - DoubleMedian(history)

hazard_delta(w)  == DoubleDelta(w.hazard, hazard_history)
rupture_delta(w) == DoubleDelta(w.rupture, rupture_history)

(* parse_signature(...).get(key, default): a key the signature lacks, or   *)
(* whose number does not parse, is absent from its domain.                 *)
SignatureValue(w, key, default) ==
  IF key \in DOMAIN w.signature THEN w.signature[key] ELSE default

ScoreScale == 20

Biases(w) ==
    (IF w.coherence <= config.coherence_ceiling THEN config.low_coherence_bias ELSE 0)
  + (IF w.entropy - w.coherence >= config.min_entropy_gap THEN config.entropy_gap_bias ELSE 0)
  + (IF /\ SignatureValue(w, "c", w.coherence) <= config.signature_coherence_ceiling
        /\ SignatureValue(w, "e", w.entropy) >= config.signature_entropy_floor
     THEN config.signature_bias ELSE 0)

Score(w) ==
    2 * (w.hazard * config.hazard_weight + w.rupture * config.rupture_weight)
  + NonNegative(hazard_delta(w)) * config.hazard_delta_weight
  + NonNegative(rupture_delta(w)) * config.rupture_delta_weight
  + ScoreScale * Biases(w)

-----------------------------------------------------------------------------
(* The conditions of evaluate                                              *)

signal_detected(w) ==
  /\ w.hazard >= config.hazard_floor
  /\ w.rupture >= config.rupture_floor
  /\ \/ hazard_delta(w) >= 2 * config.min_hazard_delta
     \/ rupture_delta(w) >= 2 * config.min_rupture_delta
     \/ w.hazard >= config.emergency_hazard
     \/ w.rupture >= config.emergency_rupture

InRecoveryBand(w) ==
  /\ w.hazard <= config.recovery_hazard
  /\ w.rupture <= config.recovery_rupture

SignalsAfter(w) ==
  IF signal_detected(w) THEN consecutive_signals + 1
  ELSE IF InRecoveryBand(w) \/ consecutive_signals = 0 THEN 0
  ELSE consecutive_signals - 1

CooledDown == IF cooldown_remaining > 0 THEN cooldown_remaining - 1 ELSE cooldown_remaining

emergency(w) ==
  /\ w.hazard >= config.emergency_hazard
  /\ w.rupture >= config.emergency_rupture

(* Mutated form: the consecutive signals are not asked for.                *)
route_condition_AnyScore(w) ==
  /\ Score(w) >= ScoreScale * config.score_route_threshold
  /\ CooledDown = 0

route_condition(w) ==
  /\ Score(w) >= ScoreScale * config.score_route_threshold
  /\ SignalsAfter(w) >= config.min_consecutive_signals
  /\ CooledDown = 0

observe_condition(w) ==
  \/ signal_detected(w)
  \/ Score(w) >= ScoreScale * config.score_observe_threshold

(* What sends traffic to the fallback, and re-arms the cooldown there.     *)
Trigger(w) == emergency(w) \/ route_condition(w)

(* Mutated forms: the streak is kept between the bands, or only counted    *)
(* while the cooldown runs.                                                *)
StreakAfter_NotCleared(w) ==
  IF Trigger(w) THEN 0 ELSE IF InRecoveryBand(w) THEN recovery_streak + 1 ELSE recovery_streak
StreakAfter_WhileCooling(w) ==
  IF InRecoveryBand(w) /\ ~Trigger(w) /\ cooldown_remaining > 0 THEN recovery_streak + 1 ELSE 0

(* Cooldown and streak after a window met on the fallback: a trigger       *)
(* re-arms the one and clears the other.                                   *)
CooldownAfter(w) == IF Trigger(w) THEN config.cooldown_windows ELSE CooledDown
StreakAfter(w) == IF InRecoveryBand(w) /\ ~Trigger(w) THEN recovery_streak + 1 ELSE 0

MayReturn(w) ==
  /\ StreakAfter(w) >= config.recovery_windows
  /\ CooldownAfter(w) = 0
  /\ ~observe_condition(w)

-----------------------------------------------------------------------------
(* evaluate, one action for each way it can end                            *)

(* deque(maxlen=history_window).append                                     *)
Remember(history, value) ==
  LET longer == Append(history, value)
  IN IF Len(longer) > config.history_window THEN Tail(longer) ELSE longer

(* What every evaluation does before it returns a decision.                *)
Conclude(w, action, target) ==
  /\ consecutive_signals' = SignalsAfter(w)
  /\ hazard_history' = Remember(hazard_history, w.hazard)
  /\ rupture_history' = Remember(rupture_history, w.rupture)
  /\ decision' = [action |-> action, selected_target |-> target, window |-> w]
  /\ UNCHANGED config

(* On the fallback, a window that does not yet allow the return.           *)
HoldFallback(w) ==
  /\ on_fallback
  /\ ~MayReturn(w)
  /\ cooldown_remaining' = CooldownAfter(w)
  /\ recovery_streak' = StreakAfter(w)
  /\ UNCHANGED on_fallback
  /\ Conclude(w, "ROUTE_FALLBACK",
              IF fallback_target # NoTarget THEN fallback_target ELSE primary_target)

(* On the fallback, enough stable windows and nothing left to observe.     *)
ReturnToPrimary(w) ==
  /\ on_fallback
  /\ MayReturn(w)
  /\ cooldown_remaining' = CooldownAfter(w)
  /\ recovery_streak' = StreakAfter(w)
  /\ on_fallback' = FALSE
  /\ Conclude(w, "PRIMARY", primary_target)

(* Mutated form: leaving the primary keeps the streak of the last outage.  *)
RouteToFallback_StaleStreak(w) ==
  /\ ~on_fallback
  /\ Trigger(w)
  /\ fallback_target # NoTarget
  /\ on_fallback' = TRUE
  /\ cooldown_remaining' = config.cooldown_windows
  /\ UNCHANGED recovery_streak
  /\ Conclude(w, "ROUTE_FALLBACK", fallback_target)

(* On the primary, a trigger routes away when there is somewhere to go.    *)
RouteToFallback(w) ==
  /\ ~on_fallback
  /\ Trigger(w)
  /\ fallback_target # NoTarget
  /\ on_fallback' = TRUE
  /\ cooldown_remaining' = config.cooldown_windows
  /\ recovery_streak' = 0
  /\ Conclude(w, "ROUTE_FALLBACK", fallback_target)

(* On the primary, every other window: observe it or carry on.             *)
StayOnPrimary(w) ==
  /\ ~on_fallback
  /\ Trigger(w) => fallback_target = NoTarget
  /\ cooldown_remaining' = CooledDown
  /\ UNCHANGED <<recovery_streak, on_fallback>>
  /\ Conclude(w,
              IF Trigger(w) \/ observe_condition(w) THEN "OBSERVE" ELSE "PRIMARY",
              primary_target)

evaluate(w) ==
  \/ HoldFallback(w)
  \/ ReturnToPrimary(w)
  \/ RouteToFallback(w)
  \/ StayOnPrimary(w)

-----------------------------------------------------------------------------
Init ==
  /\ config \in Configs
  /\ hazard_history = << >>
  /\ rupture_history = << >>
  /\ consecutive_signals = 0
  /\ cooldown_remaining = 0
  /\ recovery_streak = 0
  /\ on_fallback = FALSE
  /\ decision = NoDecision

Next == \E w \in Windows : evaluate(w)

Spec == Init /\ [][Next]_vars
=============================================================================
