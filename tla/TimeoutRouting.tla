---------------------------- MODULE TimeoutRouting ----------------------------
(***************************************************************************)
(* TimeoutRoutingPolicy of scripts/llm_routing/policy.py: the baseline     *)
(* that leaves the primary on an error or a late first token and comes     *)
(* back after enough fast answers.  Times are integers in milliseconds;    *)
(* the ratio it reports as score decides nothing and is left out.          *)
(***************************************************************************)
EXTENDS RoutingTopology

CONSTANTS
  Configs,   \* the TimeoutRoutingConfig records a policy may be built with
  Samples,   \* the ProbeResult records [error, ttft_ms] a stream may deliver
  Target     \* "provider.model" of the probed stream

(* The counts of a configuration are not negative, its priority is a list. *)
ASSUME ConfigsAssumption ==
  \A c \in Configs :
    /\ c.cooldown_points \in Nat
    /\ c.recovery_windows \in Nat
    /\ IsPriority(c.topology.provider_priority)

VARIABLES
  config,
  cooldown_remaining,
  recovery_streak,
  on_fallback,
  decision     \* the RoutingDecision last returned

vars == <<config, cooldown_remaining, recovery_streak, on_fallback, decision>>

NoDecision == [action |-> "NONE", selected_target |-> NoTarget]

primary_target  == PrimaryTarget(config.topology, Target)
fallback_target == FallbackTargetFor(config.topology, primary_target)

trigger(s)   == s.error \/ s.ttft_ms >= config.ttft_timeout_ms
recovered(s) == ~s.error /\ s.ttft_ms <= config.recovery_ttft_ms

CooledDown == IF cooldown_remaining > 0 THEN cooldown_remaining - 1 ELSE cooldown_remaining

(* Mutated form: the streak starts again once it is full.                  *)
StreakAfter_Wrapping(s) ==
  IF recovered(s) THEN (recovery_streak + 1) % config.recovery_windows ELSE 0

(* The streak after a sample met on the fallback that is no trigger.       *)
StreakAfter(s) == IF recovered(s) THEN recovery_streak + 1 ELSE 0

(* Mutated forms: one of the two conditions is dropped.                    *)
MayReturn_AnyStreak(s) == CooledDown = 0
MayReturn_AnyCooldown(s) == StreakAfter(s) >= config.recovery_windows

MayReturn(s) ==
  /\ StreakAfter(s) >= config.recovery_windows
  /\ CooledDown = 0

Decide(action, target) ==
  /\ decision' = [action |-> action, selected_target |-> target]
  /\ UNCHANGED config

HoldTarget == IF fallback_target # NoTarget THEN fallback_target ELSE primary_target

-----------------------------------------------------------------------------
(* evaluate, one action for each way it can end                            *)

(* Mutated form: the failure does not re-arm the cooldown.                 *)
HoldAfterTrigger_NotRearmed(s) ==
  /\ on_fallback
  /\ trigger(s)
  /\ cooldown_remaining' = CooledDown
  /\ recovery_streak' = 0
  /\ UNCHANGED on_fallback
  /\ Decide("ROUTE_FALLBACK", HoldTarget)

(* On the fallback, another failure re-arms the cooldown.                  *)
HoldAfterTrigger(s) ==
  /\ on_fallback
  /\ trigger(s)
  /\ cooldown_remaining' = config.cooldown_points
  /\ recovery_streak' = 0
  /\ UNCHANGED on_fallback
  /\ Decide("ROUTE_FALLBACK", HoldTarget)

(* On the fallback, an answer that does not yet allow the return.          *)
HoldFallback(s) ==
  /\ on_fallback
  /\ ~trigger(s)
  /\ ~MayReturn(s)
  /\ cooldown_remaining' = CooledDown
  /\ recovery_streak' = StreakAfter(s)
  /\ UNCHANGED on_fallback
  /\ Decide("ROUTE_FALLBACK", HoldTarget)

(* On the fallback, enough fast answers.  The streak keeps its value.      *)
ReturnToPrimary(s) ==
  /\ on_fallback
  /\ ~trigger(s)
  /\ MayReturn(s)
  /\ cooldown_remaining' = CooledDown
  /\ recovery_streak' = StreakAfter(s)
  /\ on_fallback' = FALSE
  /\ Decide("PRIMARY", primary_target)

(* On the primary, a failure routes away when there is somewhere to go.    *)
(* Unlike StructuralRouting, this entry leaves the streak as it was.       *)
RouteToFallback(s) ==
  /\ ~on_fallback
  /\ trigger(s)
  /\ fallback_target # NoTarget
  /\ on_fallback' = TRUE
  /\ cooldown_remaining' = config.cooldown_points
  /\ UNCHANGED recovery_streak
  /\ Decide("ROUTE_FALLBACK", fallback_target)

(* On the primary, every other sample.                                     *)
StayOnPrimary(s) ==
  /\ ~on_fallback
  /\ trigger(s) => fallback_target = NoTarget
  /\ cooldown_remaining' = CooledDown
  /\ UNCHANGED <<recovery_streak, on_fallback>>
  /\ Decide("PRIMARY", primary_target)

evaluate(s) ==
  \/ HoldAfterTrigger(s)
  \/ HoldFallback(s)
  \/ ReturnToPrimary(s)
  \/ RouteToFallback(s)
  \/ StayOnPrimary(s)

-----------------------------------------------------------------------------
Init ==
  /\ config \in Configs
  /\ cooldown_remaining = 0
  /\ recovery_streak = 0
  /\ on_fallback = FALSE
  /\ decision = NoDecision

Next == \E s \in Samples : evaluate(s)

Spec == Init /\ [][Next]_vars
=============================================================================
