----------------------------- MODULE MCSpotReplay -----------------------------
(***************************************************************************)
(* Series of five points, in and out of time order, with inferred events   *)
(* and with notices, over at most two runs.                                *)
(***************************************************************************)
EXTENDS SpotReplayHistory

Times == {<<1, 2, 3, 4, 5>>, <<2, 4, 4, 6, 9>>, <<3, 1, 4, 2, 5>>}

PriceLists == {<<5, 6, 7, 8, 9>>, <<5, 5, 9, 5, 9>>, <<5, 6, 5, 6, 5>>,
               <<6, 6, 5, 6, 6>>, <<6, 5, 6, 6, 5>>, <<6, 5, 6, 7, 8>>}

Notices == {Inferred, << >>, <<4>>, <<5, 8>>, <<1, 4>>}

MakePoints(times, prices) ==
  [i \in DOMAIN times |-> [ts |-> times[i], price |-> prices[i]]]

MCSeries ==
  {[points |-> MakePoints(t, p), notices |-> n, again |-> FALSE] :
     t \in Times, p \in PriceLists, n \in Notices}
  \cup {[points |-> MakePoints(<<6, 7>>, <<5, 9>>), notices |-> Inferred, again |-> TRUE]}

Level(c, e) ==
  [hazard    |-> (95 * (IF c > e THEN c ELSE e)) \div 100,
   rupture   |-> IF e > c THEN e - c ELSE 0,
   coherence |-> c,
   entropy   |-> e,
   signature |-> [c |-> c, s |-> 0, e |-> e]]

(* The latest window holds the last two prices.                            *)
MCEncode(prefix) ==
  LET rise == prefix[Len(prefix)].price - prefix[Len(prefix) - 1].price
  IN CASE rise <= 0 -> Level(600, 600)
       [] rise = 1  -> Level(440, 940)
       [] OTHER     -> Level(400, 1000)

MCWindows == {Level(600, 600), Level(440, 940), Level(400, 1000)}

MCMigrationConfigs ==
  {[hazard_floor |-> 820, rupture_floor |-> 380, coherence_ceiling |-> 480,
    recovery_hazard |-> 800, recovery_rupture |-> 300, history_window |-> 2,
    min_hazard_delta |-> 5, min_rupture_delta |-> 10,
    hazard_weight |-> 6, rupture_weight |-> 9,
    hazard_delta_weight |-> 30, rupture_delta_weight |-> 25,
    low_coherence_bias |-> 80, entropy_gap_bias |-> 80, signature_bias |-> 100,
    min_entropy_gap |-> 420, score_observe_threshold |-> 950, score_migrate_threshold |-> 1080,
    min_consecutive_signals |-> counts[1], cooldown_windows |-> counts[2],
    emergency_hazard |-> 920, emergency_rupture |-> 520,
    signature_coherence_ceiling |-> 450, signature_entropy_floor |-> 930] :
     counts \in {<<1, 2>>, <<2, 2>>}}

MCBaselineConfigs ==
  {[p \in {"reactive", "zscore", "always_migrate", "random"} |->
      CASE p = "reactive" ->
             [rolling_window_points |-> 2, price_zscore_threshold |-> 100,
              price_zscore_observe |-> 60, price_multiplier_threshold |-> 115,
              velocity_std_multiplier |-> 150, cooldown_points |-> 1]
        [] p = "zscore" ->
             [rolling_window_points |-> 2, zscore_threshold |-> 100, cooldown_points |-> 1]
        [] p = "always_migrate" -> [cooldown_points |-> 2]
        [] OTHER -> [firing_probability |-> 50, cooldown_points |-> 1]]}

MCReplayConfigs ==
  {[event_lookahead_points |-> 2, event_spike_multiplier |-> 112, event_spike_absolute |-> 5,
    event_attribution_lookback_points |-> lookback] : lookback \in {1, 2}}

MCLuck == [i \in 1 .. 12 |-> i % 3 = 2]
=============================================================================
