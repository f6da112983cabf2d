---------------------------- MODULE MCBridgeService ----------------------------
(***************************************************************************)
(* Bridges of one to three metrics; the files that are refused differ from *)
(* an accepted one in one thing each.  A point tells when it came.  The    *)
(* clock stands still while a round is printed and goes on by a tick at    *)
(* most after a metric has been polled.                                    *)
(***************************************************************************)
EXTENDS BridgeService, FiniteSets

CONSTANTS MaxGaps, east, west

Prometheus(n) == [provider |-> "prometheus", period_seconds |-> 1, lookback_points |-> n,
                  complete |-> TRUE, region |-> None]
CloudWatch(n, region) == [Prometheus(n) EXCEPT !.provider = "cloudwatch", !.region = region]
Probe(n) == [Prometheus(n) EXCEPT !.provider = "llm_probe"]

Config(metrics, window, stride, period) ==
  [metrics |-> metrics, window_points |-> window, stride_points |-> stride,
   baseline_period |-> period, poll_interval_seconds |-> 1, once |-> FALSE, region |-> None,
   base_url |-> "http", blocks |-> {"prometheus", "cloudwatch", "llm_probe"}]

One == Config(<<Prometheus(10)>>, 8, 3, 2)

GoodConfigs ==
  {One,
   Config(<<CloudWatch(12, east), Prometheus(12)>>, 8, 3, 2),
   [Config(<<Probe(10), CloudWatch(11, None)>>, 9, 1, 1) EXCEPT !.region = west],
   [Config(<<CloudWatch(9, None), Prometheus(7), Probe(13)>>, 8, 4, 4) EXCEPT !.once = TRUE],
   [Config(<<Probe(9)>>, 8, 4, -1) EXCEPT !.poll_interval_seconds = -1]}

Broken(metric) == [One EXCEPT !.metrics = <<Prometheus(10), metric>>]

BadConfigs ==
  {[One EXCEPT !.metrics = << >>], [One EXCEPT !.base_url = None],
   [One EXCEPT !.blocks = {"cloudwatch"}],
   [One EXCEPT !.window_points = 7], [One EXCEPT !.stride_points = 0],
   Broken(Prometheus(0)), Broken([Prometheus(9) EXCEPT !.period_seconds = 0]),
   Broken([Prometheus(9) EXCEPT !.complete = FALSE]),
   Broken([Prometheus(9) EXCEPT !.provider = "graphite"])}

MCConfigs == GoodConfigs \cup BadConfigs

(* A tick while the bridge waits, or between two fetches close together.   *)
ClockMoves ==
  /\ Accepted
  /\ \/ phase \in {"start", "sleep"}
     \/ /\ phase = "poll"
        /\ \A i \in DOMAIN observations : observations[i].last_timestamp \in {now, now - 1}

MCNext ==
  \/ Bridge
  \/ ClockMoves /\ (Arrive(2 * (now + 1)) \/ (now - Len(points) < MaxGaps /\ Gap))

MCSpec == Init /\ [][MCNext]_vars /\ WF_vars(Bridge)
=============================================================================
