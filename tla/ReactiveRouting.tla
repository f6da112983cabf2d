--------------------------- MODULE ReactiveRouting ---------------------------
(***************************************************************************)
(* ReactiveRoutingPolicy of scripts/llm_probe/policy.py: route on a failed *)
(* or late sample, or while too many of the last samples failed.  Times    *)
(* are milliseconds, the error rate threshold is in tenths.                *)
(***************************************************************************)
EXTENDS RollingBaseline

CONSTANTS
  Samples,      \* the records [failed, latency] the policy may be given
  timeout_ms,
  error_rate_threshold,
  window_size,
  Cooldown      \* what a routing sets the counter to, 10 in the code

VARIABLES
  history,              \* whether each of the last samples failed
  cooldown_remaining,
  decision

reactiveVars == <<history, cooldown_remaining, decision>>

HistoryAfter(s) == PushBounded(history, s.failed, window_size)

Failures(h) == Cardinality({i \in DOMAIN h : h[i]})

Routes(s) ==
  \/ s.failed
  \/ s.latency >= timeout_ms
  \/ 10 * Failures(HistoryAfter(s)) >= error_rate_threshold * Len(HistoryAfter(s))

(* The cooldown is counted and reported but gates nothing.                 *)
CooldownAfter(s) ==
  IF Routes(s) THEN Cooldown
  ELSE IF cooldown_remaining > 0 THEN cooldown_remaining - 1 ELSE 0

evaluate(s) ==
  /\ history' = HistoryAfter(s)
  /\ cooldown_remaining' = CooldownAfter(s)
  /\ decision' = IF Routes(s) THEN "ROUTE" ELSE "STABLE"

Fresh ==
  /\ history = << >>
  /\ cooldown_remaining = 0
  /\ decision = "NONE"

Next == \E s \in Samples : evaluate(s)

ReactiveSpec == Fresh /\ [][Next]_reactiveVars
=============================================================================
