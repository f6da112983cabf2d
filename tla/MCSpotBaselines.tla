--------------------------- MODULE MCSpotBaselines ---------------------------
(***************************************************************************)
(* Up to MaxPoints prices, with cooldowns of zero, one, two and three and  *)
(* windows of one, two and three points.                                   *)
(***************************************************************************)
EXTENDS SpotBaselinesHistory

CONSTANT MaxPoints   \* bound on the points of a series

Config(window, cooldowns, probability) ==
  [p \in Policies |->
     CASE p = "reactive" ->
            [rolling_window_points |-> window, price_zscore_threshold |-> 100,
             price_zscore_observe |-> 60, price_multiplier_threshold |-> 180,
             velocity_std_multiplier |-> 150, cooldown_points |-> cooldowns[1]]
       [] p = "zscore" ->
            [rolling_window_points |-> window, zscore_threshold |-> 100,
             cooldown_points |-> cooldowns[2]]
       [] p = "always_migrate" -> [cooldown_points |-> cooldowns[3]]
       [] OTHER -> [firing_probability |-> probability, cooldown_points |-> cooldowns[4]]]

MCConfigs ==
  {Config(2, <<2, 2, 2, 2>>, 50), Config(3, <<2, 3, 1, 2>>, 0),
   Config(2, <<0, 1, 0, 0>>, 50), Config(3, <<3, 3, 3, 3>>, 100),
   Config(1, <<1, 1, 2, 3>>, 50)}

MCNext == points < MaxPoints /\ HistoryNext

MCSpec == HistoryInit /\ [][MCNext]_historyVars
=============================================================================
