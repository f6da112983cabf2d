------------------------ MODULE MCStructuralRouting ------------------------
(***************************************************************************)
(* Small instances of StructuralHistory.                                   *)
(***************************************************************************)
EXTENDS StructuralHistory

CONSTANTS MaxSignals, MaxStreak

(* Coherence and entropy in thousandths give the two levels the way the    *)
(* analyser does: hazard is 0.95 times the larger, rupture their distance. *)
Level(c, e) ==
  [hazard    |-> (95 * (IF c > e THEN c ELSE e)) \div 100,
   rupture   |-> NonNegative(e - c),
   coherence |-> c,
   entropy   |-> e,
   signature |-> [c |-> c, s |-> 0, e |-> e]]

MCWindows == {
  Level(600, 600),      \* calm
  Level(540, 740),      \* calm, near the edge of the recovery band
  Level(500, 700),      \* calm, between the two
  Level(860, 300),      \* highly coherent: no signal, outside the band
  Level(440, 860),      \* degraded: above both floors
  Level(400, 1000)}     \* emergency

MCTopologies == {
  TopologyFromMapping("a", NoTarget, <<"a", "b">>),
  TopologyFromMapping("a", NoTarget, <<"b", "a">>),
  TopologyFromMapping(NoTarget, "a", <<"b", "c">>),
  TopologyFromMapping("a", NoTarget, << >>),
  TopologyFromMapping(NoTarget, NoTarget, << >>)}

ConfigWith(topology, history, signalsNeeded, cooldown, recovery) ==
  [topology |-> topology,
   hazard_floor |-> 750, rupture_floor |-> 350,
   coherence_ceiling |-> 480,
   recovery_hazard |-> 720, recovery_rupture |-> 250,
   history_window |-> history,
   min_hazard_delta |-> 5, min_rupture_delta |-> 10,
   hazard_weight |-> 6, rupture_weight |-> 9,
   hazard_delta_weight |-> 30, rupture_delta_weight |-> 25,
   low_coherence_bias |-> 80, entropy_gap_bias |-> 80, signature_bias |-> 100,
   min_entropy_gap |-> 420,
   score_observe_threshold |-> 950, score_route_threshold |-> 1050,
   min_consecutive_signals |-> signalsNeeded,
   cooldown_windows |-> cooldown, recovery_windows |-> recovery,
   emergency_hazard |-> 920, emergency_rupture |-> 520,
   signature_coherence_ceiling |-> 450, signature_entropy_floor |-> 930]

MCConfigs ==
       {ConfigWith(t, 2, 1, 1, 2) : t \in MCTopologies}
  \cup {ConfigWith(TopologyFromMapping("a", NoTarget, <<"a", "b">>), h, s, c, r) :
          h \in {2, 3}, s \in {1, 2}, c \in {0, 2}, r \in {1, 3}}

MCNext ==
  /\ HistoryNext
  /\ consecutive_signals' <= MaxSignals
  /\ recovery_streak' <= MaxStreak

MCSpec == HistoryInit /\ [][MCNext]_historyVars

MCFairSpec == MCSpec /\ WF_historyVars(MCNext)
=============================================================================
