-------------------------- MODULE StructuralHistory --------------------------
(***************************************************************************)
(* StructuralRouting with the history variables its promises are about.    *)
(* They record what the stream delivered, never what the policy counts.    *)
(***************************************************************************)
EXTENDS StructuralRouting

VARIABLES
  calm,       \* recovery-band windows in a row since the last trigger
  quiet,      \* windows since the last trigger
  signals,    \* signal windows since the last plain recovery-band window
  steady      \* every window so far had the same hazard and rupture

historyVars == <<vars, calm, quiet, signals, steady>>

UpTo(n, limit) == IF n < limit THEN n ELSE limit

Verdict(w) ==
  IF Trigger(w) THEN "trouble"
  ELSE IF ~InRecoveryBand(w) THEN "unsettled"
  ELSE IF observe_condition(w) THEN "calm" ELSE "settled"

SignalsSeen(w) ==
  IF signal_detected(w) THEN UpTo(signals + 1, config.min_consecutive_signals)
  ELSE IF InRecoveryBand(w) THEN 0
  ELSE signals

Record(w) ==
  /\ calm' = IF Verdict(w) \in {"calm", "settled"}
             THEN UpTo(calm + 1, config.recovery_windows) ELSE 0
  /\ quiet' = IF Verdict(w) = "trouble" THEN 0 ELSE UpTo(quiet + 1, config.cooldown_windows)
  /\ signals' = SignalsSeen(w)
  /\ steady' = (/\ steady
                /\ \/ decision.action = "NONE"
                   \/ /\ decision.window.hazard = w.hazard
                      /\ decision.window.rupture = w.rupture)

HistoryInit == Init /\ calm = 0 /\ quiet = 0 /\ signals = 0 /\ steady = TRUE

HistoryNext == \E w \in Windows : evaluate(w) /\ Record(w)

HistorySpec == HistoryInit /\ [][HistoryNext]_historyVars

(* The service keeps polling, so windows keep coming.                      *)
FairHistorySpec == HistorySpec /\ WF_historyVars(HistoryNext)

-----------------------------------------------------------------------------
(* Type invariant: the counters are naturals, the cooldown stays within    *)
(* its configuration, the two histories grow together up to the window.    *)
TypeOK ==
  /\ config \in Configs
  /\ hazard_history \in Seq(Int)
  /\ rupture_history \in Seq(Int)
  /\ Len(hazard_history) = Len(rupture_history)
  /\ Len(hazard_history) <= config.history_window
  /\ consecutive_signals \in Nat
  /\ cooldown_remaining \in 0 .. config.cooldown_windows
  /\ recovery_streak \in Nat
  /\ on_fallback \in BOOLEAN
  /\ decision.action \in Actions \cup {"NONE"}
  /\ calm \in 0 .. config.recovery_windows
  /\ quiet \in 0 .. config.cooldown_windows
  /\ signals \in 0 .. config.min_consecutive_signals
  /\ steady \in BOOLEAN

(* While traffic is away the streak is the number of recovery-band windows *)
(* the stream really delivered since the last trigger, up to the number    *)
(* that matters: nothing else is ever credited towards the return.         *)
StreakEarned ==
  on_fallback => UpTo(recovery_streak, config.recovery_windows) = calm

(* While traffic is away the cooldown is the distance still to go from the *)
(* last trigger; on the primary it is always spent, so it can never delay  *)
(* leaving the primary.                                                    *)
CooldownMeasuresQuiet ==
  cooldown_remaining = IF on_fallback THEN config.cooldown_windows - quiet ELSE 0

(* The net signal count never exceeds the signals since the stream was     *)
(* last inside the recovery band, although it goes down as well as up.     *)
SignalsEarned ==
  UpTo(consecutive_signals, config.min_consecutive_signals) <= signals

(* What the policy counts is what the stream delivered.                    *)
CountersHonest == StreakEarned /\ CooldownMeasuresQuiet /\ SignalsEarned

(* A decision to route names a listed provider other than the primary,     *)
(* also when it only holds a fallback chosen many windows earlier.         *)
FallbackIsElsewhere ==
  decision.action = "ROUTE_FALLBACK" =>
    /\ decision.selected_target # primary_target
    /\ Listed(config.topology.provider_priority, decision.selected_target)

(* tests/test_llm_routing.py: the policy "resists stationary hazard".  A   *)
(* stream whose windows never change, and stay below both emergency        *)
(* levels, is never routed away however high its score.                    *)
SteadyStreamStaysHome ==
  /\ steady
  /\ decision.action # "NONE"
  /\ decision.window.hazard < config.emergency_hazard
  /\ decision.window.rupture < config.emergency_rupture
  => ~on_fallback

(* Leaving the primary without an emergency takes as many signals since    *)
(* the last recovery-band window as the configuration asks for.            *)
RouteNeedsSignals ==
  [][ /\ ~on_fallback
      /\ on_fallback'
      /\ ~emergency(decision.window)'
      => signals' >= config.min_consecutive_signals ]_historyVars

(* The router does not flap: it implements the promise of FailoverPromise, *)
(* leaving only on trouble and returning only after sustained calm, and    *)
(* then at the first window that leaves nothing to observe.                *)
Promised == INSTANCE FailoverPromise WITH
  required <- [calm |-> config.recovery_windows, quiet |-> config.cooldown_windows],
  away <- on_fallback

PromiseKept == Promised!Promise

(* A stream that settles into the recovery band gets its primary back for  *)
(* good: neither the cooldown, nor a score pushed up by deltas against the *)
(* median, nor a re-armed trigger can hold the fallback for ever.          *)
Settled == decision.action # "NONE" /\ InRecoveryBand(decision.window)

SettledStreamComesHome == <>[]Settled => <>[](~on_fallback)
=============================================================================
