----------------------------- MODULE MCLLMReplay -----------------------------
(***************************************************************************)
(* Probe files of up to three lines, in any order of time, and up to one   *)
(* more line before a second run.                                          *)
(***************************************************************************)
EXTENDS LLMReplay

CONSTANT MaxTime

Good == 400
Late == 12000

Sample(target, ts, value, error) ==
  [target |-> target, ts |-> ts, ttft_ms |-> value, error |-> error]

MCLines ==
  {Sample("b", ts, value, FALSE) : ts \in 1 .. MaxTime, value \in {Good, Late}}
  \cup {Sample("b", 2, Good, TRUE), Sample("a", 1, Late, TRUE)}

MCInputs == {<<Damaged, Sample("b", 1, Good, FALSE)>>}
            \cup UNION {[1 .. n -> MCLines] : n \in 1 .. 3}

MCGrowth == {<< >>, <<Sample("b", MaxTime, Late, FALSE)>>, <<Sample("b", 1, Good, FALSE)>>,
             <<Damaged>>}

MCSamples == {l \in MCLines : l.target = "b"}

MCSignal(s) == s.ttft_ms

Level(hazard, rupture, c, e) ==
  [hazard |-> hazard, rupture |-> rupture, coherence |-> c, entropy |-> e,
   signature |-> [c |-> c, s |-> 0, e |-> e]]

(* The latest window holds the last two values.                            *)
MCEncode(values) ==
  LET late == Cardinality({i \in {Len(values) - 1, Len(values)} : values[i] >= Late})
  IN CASE late = 0 -> Level(570, 0, 600, 600)
       [] late = 1 -> Level(817, 420, 440, 860)
       [] OTHER    -> Level(950, 600, 400, 1000)

MCWindows == {MCEncode(<<Good, Good>>), MCEncode(<<Good, Late>>), MCEncode(<<Late, Late>>)}

(* With and without a primary of its own beside the replayed target.       *)
MCTopologies == {TopologyFromMapping("a", "b", <<"a", "b">>),
                 TopologyFromMapping(NoTarget, "b", <<"b", "c">>)}

MCStructuralConfigs ==
  {[topology |-> t,
    hazard_floor |-> 750, rupture_floor |-> 350, coherence_ceiling |-> 480,
    recovery_hazard |-> 720, recovery_rupture |-> 250, history_window |-> 2,
    min_hazard_delta |-> 5, min_rupture_delta |-> 10,
    hazard_weight |-> 6, rupture_weight |-> 9,
    hazard_delta_weight |-> 30, rupture_delta_weight |-> 25,
    low_coherence_bias |-> 80, entropy_gap_bias |-> 80, signature_bias |-> 100,
    min_entropy_gap |-> 420, score_observe_threshold |-> 950, score_route_threshold |-> 1050,
    min_consecutive_signals |-> 1, cooldown_windows |-> 1, recovery_windows |-> 1,
    emergency_hazard |-> 920, emergency_rupture |-> 520,
    signature_coherence_ceiling |-> 450, signature_entropy_floor |-> 930] : t \in MCTopologies}

MCTimeoutConfigs ==
  {[topology |-> t, ttft_timeout_ms |-> 10000, recovery_ttft_ms |-> 1000,
    cooldown_points |-> 1, recovery_windows |-> 1] : t \in MCTopologies}
=============================================================================
