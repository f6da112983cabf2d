--------------------------- MODULE MCTimeoutRouting ---------------------------
(***************************************************************************)
(* Small instances of TimeoutHistory.                                      *)
(***************************************************************************)
EXTENDS TimeoutHistory

CONSTANT MaxStreak

MCSamples == {
  [error |-> FALSE, ttft_ms |-> 900],      \* recovered
  [error |-> FALSE, ttft_ms |-> 1000],     \* recovered, at the limit
  [error |-> FALSE, ttft_ms |-> 5000],     \* neither
  [error |-> FALSE, ttft_ms |-> 10000],    \* late, at the limit
  [error |-> TRUE,  ttft_ms |-> 300]}      \* failed fast

MCTopologies == {
  TopologyFromMapping("a", NoTarget, <<"a", "b">>),
  TopologyFromMapping(NoTarget, "a", <<"b", "c">>),
  TopologyFromMapping(NoTarget, NoTarget, << >>)}

MCConfigs ==
  {[topology |-> t, ttft_timeout_ms |-> 10000, recovery_ttft_ms |-> 1000,
    cooldown_points |-> c, recovery_windows |-> r] :
     t \in MCTopologies, c \in 0 .. 3, r \in 1 .. 4}

MCNext == HistoryNext /\ recovery_streak' <= MaxStreak

MCSpec == HistoryInit /\ [][MCNext]_historyVars

MCFairSpec == MCSpec /\ WF_historyVars(MCNext)
=============================================================================
