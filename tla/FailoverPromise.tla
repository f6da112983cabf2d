--------------------------- MODULE FailoverPromise ---------------------------
(***************************************************************************)
(* What a routing policy promises the operator, whatever it measures:      *)
(* docs/transition_plan.md asks for "cooldown and recovery logic so the    *)
(* router does not flap between providers" and that "recovery logic        *)
(* requires sustained stability before reverting to primary".              *)
(*                                                                         *)
(* The environment delivers verdicts.  "trouble" is reason to leave the    *)
(* primary, "calm" is a stable observation, "unsettled" is neither, and    *)
(* "settled" is calm without anything left to look at.  The state counts,  *)
(* from the observations alone, how long the stream has been calm since it *)
(* last gave trouble and how long ago that was; each count saturates where *)
(* the promise stops asking.                                               *)
(***************************************************************************)
EXTENDS Naturals

VARIABLES
  required,    \* the calm verdicts and the distance to trouble a return needs
  away,        \* TRUE while traffic is routed to the fallback
  calm,        \* calm verdicts in a row since the last trouble
  quiet        \* verdicts since the last trouble

promiseVars == <<required, away, calm, quiet>>

Verdicts == {"trouble", "unsettled", "calm", "settled"}

UpTo(n, limit) == IF n < limit THEN n ELSE limit

CalmAfter(verdict) ==
  IF verdict \in {"calm", "settled"} THEN UpTo(calm + 1, required.calm) ELSE 0

QuietAfter(verdict) ==
  IF verdict = "trouble" THEN 0 ELSE UpTo(quiet + 1, required.quiet)

Count(verdict) ==
  /\ calm' = CalmAfter(verdict)
  /\ quiet' = QuietAfter(verdict)
  /\ UNCHANGED required

(* Only trouble sends traffic away.                                        *)
Depart(verdict) ==
  /\ ~away
  /\ verdict = "trouble"
  /\ away' = TRUE
  /\ Count(verdict)

Sustained(verdict) ==
  CalmAfter(verdict) >= required.calm /\ QuietAfter(verdict) >= required.quiet

(* Traffic comes back after enough calm, far enough from the last trouble. *)
Return(verdict) ==
  /\ away
  /\ Sustained(verdict)
  /\ away' = FALSE
  /\ Count(verdict)

(* A policy may leave the traffic where it is, but not away once enough    *)
(* calm has ended in a settled observation.                                *)
Remain(verdict) ==
  /\ away /\ verdict = "settled" => ~Sustained(verdict)
  /\ UNCHANGED away
  /\ Count(verdict)

PromiseInit ==
  /\ required \in [calm : Nat, quiet : Nat]
  /\ away = FALSE
  /\ calm = 0
  /\ quiet = 0

PromiseNext ==
  \E verdict \in Verdicts : Depart(verdict) \/ Return(verdict) \/ Remain(verdict)

Promise == PromiseInit /\ [][PromiseNext]_promiseVars
=============================================================================
