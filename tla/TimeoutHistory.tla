---------------------------- MODULE TimeoutHistory ----------------------------
(***************************************************************************)
(* TimeoutRouting with the history variables its promises are about.       *)
(***************************************************************************)
EXTENDS TimeoutRouting

VARIABLES
  calm,       \* recovered samples in a row since the last trigger
  quiet,      \* samples since the last trigger
  outages     \* departures from the primary: none, the first, or a later one

historyVars == <<vars, calm, quiet, outages>>

UpTo(n, limit) == IF n < limit THEN n ELSE limit

Verdict(s) ==
  IF trigger(s) THEN "trouble" ELSE IF recovered(s) THEN "calm" ELSE "unsettled"

Record(s) ==
  /\ calm' = IF Verdict(s) = "calm" THEN UpTo(calm + 1, config.recovery_windows) ELSE 0
  /\ quiet' = IF Verdict(s) = "trouble" THEN 0 ELSE UpTo(quiet + 1, config.cooldown_points)
  /\ outages' = IF ~on_fallback /\ on_fallback' THEN UpTo(outages + 1, 2) ELSE outages

HistoryInit == Init /\ calm = 0 /\ quiet = 0 /\ outages = 0

HistoryNext == \E s \in Samples : evaluate(s) /\ Record(s)

HistorySpec == HistoryInit /\ [][HistoryNext]_historyVars

-----------------------------------------------------------------------------
(* Type invariant; the streak is a natural without a bound of its own.     *)
TypeOK ==
  /\ config \in Configs
  /\ cooldown_remaining \in 0 .. config.cooldown_points
  /\ recovery_streak \in Nat
  /\ on_fallback \in BOOLEAN
  /\ decision.action \in {"NONE", "PRIMARY", "ROUTE_FALLBACK"}
  /\ calm \in 0 .. config.recovery_windows
  /\ quiet \in 0 .. config.cooldown_points
  /\ outages \in 0 .. 2

(* Away from the primary the cooldown is the distance still to go from the *)
(* last failure; on the primary it is always spent.                        *)
CooldownMeasuresQuiet ==
  cooldown_remaining = IF on_fallback THEN config.cooldown_points - quiet ELSE 0

(* During the first outage the streak is what the stream delivered.        *)
FirstStreakEarned ==
  on_fallback /\ outages = 1 => UpTo(recovery_streak, config.recovery_windows) = calm

(* What the streak looks like before any departure, and what it keeps      *)
(* after a return: enough to satisfy the next return on its own.           *)
StreakLeftOver ==
  /\ outages = 0 => recovery_streak = 0
  /\ ~on_fallback /\ outages > 0 => recovery_streak >= config.recovery_windows

(* What the policy counts is what the stream delivered, as far as it is,   *)
(* and traffic is away only after a departure.                             *)
CountersHonest ==
  /\ on_fallback => outages > 0
  /\ CooldownMeasuresQuiet
  /\ FirstStreakEarned
  /\ StreakLeftOver

(* docs/transition_plan.md: "Recovery logic requires sustained stability   *)
(* before reverting to primary."  A return comes after recovery_windows    *)
(* recovered samples in a row since the failure that caused the departure. *)
SustainedRecovery ==
  [][ on_fallback /\ ~on_fallback' => calm' >= config.recovery_windows ]_historyVars

(* The first outage does keep that promise.                                *)
FirstRecoverySustained ==
  [][ on_fallback /\ ~on_fallback' /\ outages = 1
      => calm' >= config.recovery_windows ]_historyVars

(* What every return does guarantee: the promise of FailoverPromise with   *)
(* one recovered sample in place of the configured number.                 *)
Promised == INSTANCE FailoverPromise WITH
  required <- [calm  |-> UpTo(1, config.recovery_windows),
               quiet |-> config.cooldown_points],
  away <- on_fallback,
  calm <- UpTo(calm, 1)

WeakPromiseKept == Promised!Promise

(* The streak may be longer than what the stream delivered, never shorter: *)
(* where a recovery is asked for, traffic is not kept away once as many    *)
(* recovered samples have come and the cooldown is over.                   *)
NotKeptAway ==
  [][ on_fallback /\ on_fallback' /\ config.recovery_windows > 0
      => calm' < config.recovery_windows \/ quiet' < config.cooldown_points ]_historyVars

(* Answers that stay fast bring the primary back for good.                 *)
Fast == calm > 0

FastStreamComesHome == <>[]Fast => <>[](~on_fallback)
=============================================================================
