----------------------------- MODULE BridgeService -----------------------------
(***************************************************************************)
(* scripts/telemetry_bridge: the configuration and what is refused of it,  *)
(* the loop that polls every metric and then prints a line for each, and   *)
(* the three connectors.  One quantity, a point per tick at most, is there *)
(* to be read through all of them, and grows while the bridge polls.  How  *)
(* the files behind llm_probe are read is module ProbePipeline.            *)
(***************************************************************************)
EXTENDS TelemetryEncoder

CONSTANTS
  Configs,      \* what the YAML files and the command lines ask for
  Values,       \* of points
  MaxTime,      \* bound on the clock
  MaxMissing,   \* bound on the newest points CloudWatch does not have yet
  None

ASSUME ConfigsAssumption ==
  \A c \in Configs :
    /\ {c.window_points, c.stride_points, c.baseline_period, c.poll_interval_seconds} \subseteq Int
    /\ \A i \in DOMAIN c.metrics : c.metrics[i].lookback_points \in Int

ASSUME MetricsAssumption ==
  \A c \in Configs : c.metrics \in Seq({c.metrics[i] : i \in DOMAIN c.metrics})

(* A tick of the clock is the period of the metrics; zero is refused.      *)
ASSUME PeriodAssumption ==
  \A c \in Configs : \A i \in DOMAIN c.metrics : c.metrics[i].period_seconds \in {0, 1}

ASSUME NoneAssumption == None \notin {"fetch", "no_samples", "no_window"}

VARIABLES
  config,
  points, stamps, now,         \* the quantity, and when its points came
  phase, connectors, clients,  \* of the bridge; clients of regions, cached
  next, observations           \* the round: the metric that is next, and what there is

world  == <<points, stamps, now>>
vars   == <<config, world, phase, connectors, clients, next, observations>>

Count == Len(config.metrics)

-----------------------------------------------------------------------------
(* MetricDefinition.validate, BridgeConfig.from_mapping, and the blocks    *)
(* build_bridge_service asks for; an empty block is no block.  A metric is *)
(* complete if it has its query, its namespace and metric_name, or an id   *)
(* that names a probe.                                                     *)

Valid(metric) ==
  /\ metric.provider \in {"prometheus", "cloudwatch", "llm_probe"}
  /\ metric.period_seconds > 0
  /\ metric.lookback_points > 0
  /\ metric.complete

Loads ==
  /\ config.metrics # << >>
  /\ \A i \in 1 .. Count : Valid(config.metrics[i])
  /\ "prometheus" \in config.blocks => config.base_url # None

(* Mutated form: the two providers with a server are built.                *)
Providers_Servers == {config.metrics[i].provider : i \in 1 .. Count} \cap {"prometheus", "cloudwatch"}

Providers == {config.metrics[i].provider : i \in 1 .. Count}

Accepted == Loads /\ Providers \subseteq config.blocks /\ EncoderAccepts(config)

Start ==
  /\ phase = "start"
  /\ Accepted
  /\ phase' = "poll"
  /\ connectors' = Providers
  /\ UNCHANGED <<config, world, clients, next, observations>>

Refuse ==
  /\ phase = "start"
  /\ ~Accepted
  /\ phase' = "refused"
  /\ UNCHANGED <<config, world, connectors, clients, next, observations>>

-----------------------------------------------------------------------------
(* fetch_points, each at its own now.  A service answers with the points   *)
(* of a range of time, CloudWatch without some of the newest; what is not  *)
(* a finite number is left out.                                            *)

Metric == config.metrics[next]

Region == IF Metric.region # None THEN Metric.region ELSE config.region

(* Mutated form: a period for each point.                                  *)
Span_Whole == AtLeastZero(Metric.lookback_points * Metric.period_seconds)

Span == AtLeastZero((Metric.lookback_points - 1) * Metric.period_seconds)

InRange(i) == now - Span <= stamps[i] /\ stamps[i] <= now

PrometheusOffers(first, last) ==
  /\ Metric.provider = "prometheus"
  /\ \A i \in 1 .. Len(points) : i \in first .. last <=> InRange(i)

CloudWatchOffers(first, last) ==
  /\ Metric.provider = "cloudwatch"
  /\ Region # None
  /\ Len(points) - last <= MaxMissing
  /\ \A i \in 1 .. Len(points) : i \in first .. last <=> InRange(i) /\ i <= last

ProbesOffer(first, last) ==
  /\ Metric.provider = "llm_probe"
  /\ first = AtLeastZero(Len(points) - Metric.lookback_points) + 1
  /\ last = Len(points)

Offers(first, last) ==
  PrometheusOffers(first, last) \/ CloudWatchOffers(first, last) \/ ProbesOffer(first, last)

Failed(error) ==
  [sample_count |-> 0, first_timestamp |-> None, last_timestamp |-> None,
   current_value |-> None, window |-> None, error |-> error]

Encoded(first, last, windows) ==
  [sample_count |-> last - first + 1,
   first_timestamp |-> stamps[first], last_timestamp |-> stamps[last],
   current_value |-> points[last],
   window |-> IF windows = << >> THEN None ELSE windows[Len(windows)],
   error |-> IF windows = << >> THEN "no_window" ELSE None]

-----------------------------------------------------------------------------
(* poll_metric, once for each metric of the round                          *)

Observe(observation) ==
  /\ observations' = Append(observations, observation)
  /\ next' = IF next = Count THEN 1 ELSE next + 1
  /\ phase' = IF next = Count THEN "emit" ELSE "poll"
  /\ UNCHANGED <<config, world, connectors>>

(* The connector is looked up outside of the try: without one the bridge   *)
(* would end here.                                                         *)
Polls == phase = "poll" /\ Metric.provider \in connectors

(* The client of a region is kept; making one may fail and is tried again. *)
KeepClient ==
  clients' = IF Metric.provider = "cloudwatch" THEN clients \cup {Region} ELSE clients

FetchFails ==
  /\ Polls
  /\ Observe(Failed("fetch"))
  /\ UNCHANGED clients \/ (Region # None /\ KeepClient)

FetchNothing ==
  /\ Polls
  /\ \E last \in 0 .. Len(points) : Offers(last + 1, last)
  /\ Observe(Failed("no_samples"))
  /\ KeepClient

(* encode; the engine that has not been built is an exception like others. *)
FetchPoints ==
  \E first \in 1 .. Len(points), last \in 1 .. Len(points) :
    /\ Polls
    /\ first <= last
    /\ Offers(first, last)
    /\ \E windows \in {EncodeLatest(config, SubSeq(points, first, last)), << >>} :
         Observe(Encoded(first, last, windows))
    /\ KeepClient

-----------------------------------------------------------------------------
(* main: a line for each observation, to stdout and to the file            *)

EmitOne ==
  /\ phase = "emit"
  /\ next < Count
  /\ next' = next + 1
  /\ UNCHANGED <<config, world, phase, connectors, clients, observations>>

EmitLast ==
  /\ phase = "emit"
  /\ next = Count
  /\ phase' = IF config.once THEN "ended" ELSE "sleep"
  /\ next' = 1
  /\ observations' = << >>
  /\ UNCHANGED <<config, world, connectors, clients>>

EmitFails ==
  /\ phase = "emit"
  /\ phase' = "failed"
  /\ UNCHANGED <<config, world, connectors, clients, next, observations>>

(* time.sleep rejects a negative number, which nothing has checked.        *)
Wake ==
  /\ phase = "sleep"
  /\ phase' = IF config.poll_interval_seconds < 0 THEN "crashed" ELSE "poll"
  /\ UNCHANGED <<config, world, connectors, clients, next, observations>>

-----------------------------------------------------------------------------
Bridge ==
  \/ Start \/ Refuse
  \/ FetchFails \/ FetchNothing \/ FetchPoints
  \/ EmitOne \/ EmitLast \/ EmitFails \/ Wake

Passes ==
  /\ now < MaxTime
  /\ now' = now + 1
  /\ UNCHANGED <<config, phase, connectors, clients, next, observations>>

Gap == Passes /\ UNCHANGED <<points, stamps>>

Arrive(value) ==
  /\ Passes
  /\ points' = Append(points, value)
  /\ stamps' = Append(stamps, now')

Init ==
  /\ config \in Configs
  /\ points = << >> /\ stamps = << >> /\ now = 0
  /\ phase = "start" /\ connectors = {} /\ clients = {}
  /\ next = 1 /\ observations = << >>

Next == Bridge \/ Gap \/ \E value \in Values : Arrive(value)

Spec == Init /\ [][Next]_vars

(* A request that stays silent is ended by its timeout, and the loop waits *)
(* for nothing else.  A timeout does not end an answer that trickles in:   *)
(* that answers come to an end is assumed of the servers.                  *)
FairSpec == Spec /\ WF_vars(Bridge)

-----------------------------------------------------------------------------
(* Asking for the latest window gives one as soon as there are points for  *)
(* it: aligned to the stride it is the last of all windows, otherwise it   *)
(* ends with the newest point.                                             *)
LatestIsOne ==
  EncoderAccepts(config) /\ MaxStart(config, points) >= 0 =>
    /\ EncodeAligned(config, points) = <<EncodeAll(config, points)[Len(EncodeAll(config, points))]>>
    /\ EncodeLatest(config, points) = <<Window(config, points, MaxStart(config, points))>>

(* Whatever gaps the quantity has, whatever of it a service leaves out and *)
(* however it grows while other metrics are polled: the window the bridge  *)
(* reports, and so its hazard, is the one a replay of the whole series     *)
(* computes at that point, once it is given a window's points and a whole  *)
(* baseline period before them.                                            *)
Replayed(o) ==
  o.window # None /\ config.baseline_period > 0
  /\ o.sample_count >= config.window_points + config.baseline_period
  => \E last \in 1 .. Len(points) :
       /\ stamps[last] = o.last_timestamp
       /\ <<o.window>> = EncodeLatest(config, SubSeq(points, 1, last))

ObservationsAreReplayed ==
  \A i \in DOMAIN observations : Replayed(observations[i])

(* A round has an observation of every metric when it is printed, whatever *)
(* failed on the way; none has more points than its metric looks back over,*)
(* or older ones, and one without an error has a window, of the newest.    *)
RoundIsComplete ==
  phase = "emit" =>
    /\ Len(observations) = Count
    /\ \A i \in 1 .. Count :
         LET o == observations[i]
             metric == config.metrics[i]
         IN /\ o.sample_count <= metric.lookback_points
            /\ o.error = None => o.window.subset[config.window_points] = o.current_value
            /\ o.sample_count > 0 /\ metric.provider # "llm_probe"
               => o.last_timestamp - o.first_timestamp
                    < metric.lookback_points * metric.period_seconds

(* A bridge that has started ends every round, whatever its sources do, if *)
(* its output works, and every sleep that is one is followed by a round.   *)
RoundsGoOn ==
  /\ phase = "poll" ~> phase \in {"sleep", "ended", "failed"}
  /\ phase = "sleep" /\ config.poll_interval_seconds >= 0 ~> phase = "poll"
=============================================================================
