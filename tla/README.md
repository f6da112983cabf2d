# SpotFSM in TLA+

This directory specifies SpotFSM, a controller that watches a stream of telemetry, turns it
into structural measures (hazard, rupture, signatures) and decides from them when to route
LLM traffic away from a degraded provider, or, in its older use, when to migrate a spot
instance before it is interrupted. The modules are checked with TLC on small instances; the
theorems are proved with TLAPS for every value of the constants. `PROJECT.json` maps every
definition to the lines it models, and lists the runs, the mutants that each property
catches, the hazards and the theorems.

Paths below are those of the repository; `scripts/` stands for `src/scripts/` and `core/`
for `src/src/core/` where the repository is checked out in `src/`.

Contents: 1 the system, 2 the modules, 3 the runs, 4 fairness, 5 the proofs, 6 a finding and
observations, 7 what is not modelled, 8 the plan.

## 1. The system and its parts

    probe poller --> JSONL files --> telemetry bridge --> live dashboard (JSON lines)
    (llm_probe)       |    |          (telemetry_bridge)
                      |    +--> probe replay     (llm_probe/replay_routing)
                      +-------> routing replay   (llm_routing/replay)
    price files ----------------> spot replay    (spotfsm/replay) --> operator --> Redis
                    each of the four uses: encoder --> engine (C++) --> policy

| Part | State | Operations | Hard behaviour |
|---|---|---|---|
| Structural routing policy `llm_routing/policy.py` | two bounded histories, consecutive signals, cooldown, recovery streak, side | `evaluate` | the counters that gate return and departure interact; scores relative to a median |
| Timeout baseline, same file | cooldown, recovery streak, side | `evaluate` | counters left over from an earlier outage |
| Routing topology `llm_routing/types.py` | none | fallback for a target | priority lists without, with, or with only the target |
| Probe routing policies `llm_probe/policy.py` | histories, signals, cooldown, last action | `evaluate` | one object shared by several streams |
| Probe poller `llm_probe/poller.py` | results of a round; the reading of one stream | probe each target, append each result | streams that break anywhere, crashes between and inside appends, the wall clock |
| Telemetry bridge `telemetry_bridge/` | the configuration, cached clients, the observations of a round | load and refuse, fetch from three kinds of source, encode, report, sleep | each fetch at its own now; sources that fail, lag or have gaps; files read while they are appended to; damaged lines; clock set back |
| Routing replay, probe replay | rows, summaries, output files | run over recorded files | reruns over grown files, crashes between the two outputs, attribution of events |
| Encoder and decoder `research/regime_manifold/` | none between calls | windows, baselines, bytes | alignment, boundaries of baselines, quantisation at ties and caps |
| Engine `core/byte_stream_manifold.cpp`, `core/structural_entropy.cpp` | per-signature deques; the labels | windows over bits, labelling in a parallel loop | iterations in any order, stale deque entries, loop bounds |
| Spot policies `spotfsm/policy.py` | histories, cooldowns | five `evaluate`s | cooldowns of rival policies run out of step |
| Spot replay and operator `spotfsm/replay.py`, `operator.py` | store, log, rows, output files | evaluate, execute, record, write | crash between store and log, runs over what another left, shared log |
| Spot datasets `spotfsm/datasets.py` | the archive on disk, a zstd child with two pipes | look for, download, decompress, select series | runs that share the file; downloads cut short; pipes read one after the other |
| Attribution `telemetry_replay/analysis.py` | none | events, credit, lead times | greedy credit, overlapping events |

What makes each of them correct, in a sentence:

* **Routing policies**: traffic leaves the primary only on trouble, goes to a provider other
  than the primary, returns only after the cooldown and sustained calm, does return when the
  stream settles, and never moves because of a level that does not change.
* **Poller and bridge**: a probe is recorded at most once; a fetch sees what was on disk
  when it began; damage in a file is reported, never passed over; every record is seen in
  the end.
* **Bridge rounds**: whatever fails, a round has one observation per metric, of no more
  points than asked for and up to the newest there is; what it reports is what a replay of
  the whole series would; the next round comes.
* **Datasets**: no answer is made of part of a frame, a whole archive is not damaged again,
  a load ends.
* **One probe**: the time to first token is that of the first text, an error is never lost,
  the token counts are the last ones the server sent.
* **Replays**: the same samples give the same decisions, what is on disk is in order, and no
  policy is credited with more than it did.
* **Encoder and engine**: live and replayed windows agree, what is quantised is recovered to
  half a bucket, and parallel labelling equals sequential.

The parts call one another synchronously in one process, except these: the poller and the
bridge share only files; the points of a metric go on arriving while others are polled; the
engine's labelling runs its iterations in parallel; the operator writes to a store other
processes read; runs of the spot replay share an archive, and each reads it through a child
process. These are where interleavings, crashes and lost writes are modelled.

## 2. The modules

Numbers: the policies work with decimals of three places at most. The modules count them in
thousandths and weights in tenths; medians and deltas from them are doubled, so that the
mean of two is an integer; scores are scaled by the product. Everything is an exact integer,
where the code rounds to double precision.

The order below is also the order in which the modules were planned and built.

**Routing policies.**

| Module | Models | How |
|---|---|---|
| `RoutingTopology` | `RoutingTopologyConfig` | parsing of the mapping, and the fallback as the first listed target behind the primary, round the list |
| `RollingBaseline` | bounded histories and `statistics.median` | operators used by all three structural policies |
| `StructuralRouting` | `StructuralRoutingPolicy` | one action for each way `evaluate` can end: `HoldFallback`, `ReturnToPrimary`, `RouteToFallback`, `StayOnPrimary`; each updates histories, signals, cooldown, streak and side as the code does |
| `TimeoutRouting` | `TimeoutRoutingPolicy` | likewise; a sample is an error flag and a time to first token |
| `FailoverPromise` | the plan's "cooldown and recovery logic so the router does not flap" | the abstract specification of both: it counts calm and quiet from what the stream delivers and knows no counters of the policy. Traffic leaves on trouble only, may come back when calm and quiet have lasted, and must when that ends in a window with nothing left to observe |
| `StructuralHistory`, `TimeoutHistory` | - | add history variables that record the stream, state the properties, and instantiate `FailoverPromise` under a refinement mapping |
| `LLMRoutingPolicy`, `ReactiveRouting` | `LLMRoutingPolicy`, `ReactiveRoutingPolicy` | the probe-side policies; `Route`, `Observe`, `Relax` |

**From the probe to the bridge.**

| Module | Models | How |
|---|---|---|
| `ProbeStream` | one probe of either protocol | the request fails, is rejected or accepted; then line by line, blank lines end an event; the stream may end or raise after any line; the clock ticks in between |
| `ProbePipeline` | poller process, bridge process, files, wall clock | the poller records probes in memory and appends them one by one; it may die anywhere and a write may be cut short (`EmitTorn`, tail left open) so that the next append joins its line; the bridge reads the files line by line between the poller's steps; the clock may be set back; a fetch sorts its points by counting (`KthOldest`) |
| `BridgeService` | the bridge's configuration, its loop and the three connectors | a quantity with gaps grows while the metrics of a round are polled; Prometheus answers a range of time, CloudWatch without some of the newest points, the probe files with the last ones; any fetch may fail, any encoding may give nothing |

The first two end with history variables, what the server really sent and what was on disk
when a fetch began, and the properties about them. The history of a stream keeps the event
the server has open apart from the parser's `event_name` and `data_lines`, so that a name
that outlived its event would show. `ProbePipeline` has the files of one connector in
detail, `BridgeService` the loop around all three.

**Replays.**

| Module | Models | How |
|---|---|---|
| `ProbeReplay` | `replay_routing.py` | extends `LLMRoutingPolicy` and instantiates `ReactiveRouting`; one model after the other with the same two policies, then the greedy attribution, a recursive function of the places of the routings; at its end the history of the windows the shared policy saw |
| `LLMReplay` | `llm_routing/replay.py` | instantiates `StructuralRouting` and `TimeoutRouting`; load, sort (by the place of each sample), warm up, replay, CSV, summary, each write a step, crashes between them, reruns over grown files with new policies; at its end what earlier runs decided |

**Spot instances.**

| Module | Models | How |
|---|---|---|
| `MigrationPolicy` | `MigrationPolicy` | `Migrate`, `Observe`, `Relax` |
| `SpotBaselines` | the four baselines | integer prices; a z-score test is a comparison of squares, so no root is taken; random draws are nondeterministic |
| `ReplayAttribution` | events, credit, summary counts | pure operators; the scan is a recursive function |
| `SpotReplay` | `run_replay`, `SimulatedOperator`, the outputs | instantiates the policies; evaluate, set the store, append to the log, write CSV and summary are single steps with a crash possible after each; a second run with another series finds what the first left |
| `MigrationHistory`, `SpotBaselinesHistory`, `SpotReplayHistory` | - | history variables and properties |
| `SpotDatasets` | the Zenodo loader | runs that share a directory; each looks for the archive, misses or finds it, downloads chunk by chunk with a handle of its own, reads it through a zstd child with two bounded pipes; requests and bodies break, runs crash; what is found is answered with the operators `Series` and `TopSeries` |

**Encoder and engine.**

| Module | Models | How |
|---|---|---|
| `TelemetryEncoder` | which points each window, its baseline and its velocities are made of | pure operators over an encoder and a series; `BridgeService` applies them to its lookback and to the whole prefix |
| `BitCodec` | the byte of each point and its decoding | exact ratios, round half to even; the unit is `EPSILON_ZSCORE`; instantiated by `Engine` |
| `StructuralEvents` | `transform_rich`, `aggregate`, `StructuralProcessor`, counts | each iteration of the parallel loop is a step and they run in any order; the runs are a recursive function of the labels, the counts cardinalities |
| `ByteStream` | `analyze_byte_stream` | one window per step; a signature is any function of the window's bits, chosen as windows come up |
| `Engine` | codec, streams and labelling together | the encoder makes bytes of the points of a window and hands them over as a stream of one window; a window is labelled in every order before its signature is made; or a linked program calls the labelling with words that are no bits |

In the replays the measures of the latest window of a prefix are a constant operator
`Encode`: the policies see any function of the prefix, and the modules of the encoder say
which points that function may look at. `MC...` modules give the constants their values and
add the bounds; no configuration replaces a definition.

## 3. The runs

| Run | Shows | Instance |
|---|---|---|
| `structural_routing` | the structural policy counts what the stream delivered (`CountersHonest`), routes to another listed target (`FallbackIsElsewhere`), never leaves for a level that does not change (`SteadyStreamStaysHome`) nor without enough signals (`RouteNeedsSignals`), keeps both sides of `FailoverPromise` (`PromiseKept`), and brings a settled stream home (`SettledStreamComesHome`) | 6 windows, from calm to emergency, that reach each branch and both edges of the recovery band; 5 topologies; histories 2-3, signals 1-2, cooldown 0-2, recovery 1-3 |
| `timeout_routing` | what the timeout baseline does keep: the counters, a full recovery in the first outage, `FailoverPromise` with one recovered sample in later ones, return of a fast stream | 5 samples with both limits; cooldown 0-3, recovery 1-4 |
| `timeout_flaps` | that it does not keep "sustained stability" (a violation, section 6) | the same |
| `probe_replay` | attribution is one to one within the lookahead, and a maximum matching in a file in order of time (`CreditsMaximal`); with the policy shared by the models each ROUTE and each STABLE is earned (`DecisionsEarned`) | up to 5 samples of two models in every interleaving, four minutes apart with a lookahead of ten: two samples are inside, three outside; files out of order of time among them |
| `probe_stream` | `TextTimed`, `ErrorsReported`, `UsageSurvives` for both protocols | two lines between the events, each of every kind (names, text, usage, errors, malformed), clock up to 2, ends or raises anywhere |
| `probe_pipeline` | a probe is recorded at most once (`ProbesAccountedFor`), fetches see what was there and never less than before (`FetchesKeepUp`), an error means damage and damage an error (`ErrorsMeanDamage`), every record is seen (`EveryRecordIsSeen`) | two targets, a metric on one, two files, four lines, one fault (crash, torn write or clock step), clock 2 |
| `llm_replay` | earlier decisions are reproduced by a rerun over a grown file (`RowsReproducible`); a whole summary is never ahead of its rows and its lead has the sign of the rows (`SummaryTellsTheRows`) | files of up to three lines and one more, unsorted and damaged ones among them; two runs |
| `spot_baselines` | the always-migrating policy is exactly periodic and bounds the others; the reactive policy has migrated at least as often as the z-score one | 7 points over the prices 1, 2, 3, 5; cooldowns 0-3, windows 1-3 |
| `spot_replay` | store and log (`StoreNeverBehindLog`), CSV and summary (`ArtifactsInOrder`), inferred events (`EventsAreSpikes`), credit (`CreditsSound`), migrations (`MigrationsEarned`) | five points: six price lists at three lists of times, in and out of order, with inferred events, no notice, one or two; a second run over another series, shared store or not |
| `bridge_service` | bridge and replay agree (`ObservationsAreReplayed`) when a window and a whole baseline period were fetched; a round is complete whatever fails (`RoundIsComplete`); rounds end and follow one another (`RoundsGoOn`) | 14 ticks of at most a point each, all points different, up to two gaps; CloudWatch up to two points behind; five configurations of one to three metrics with every kind of source, windows of 8 and 9 (8 is the least the code accepts), strides 1, 3, 4, baselines -1 to 4, lookbacks below, at and above what is needed; nine that are refused, each for one thing |
| `spot_datasets` | a run that answers has read the archive up to the end of a frame, which of an archive of one frame is all of it (`AnswersAreWhole`); an archive that is whole, when no run has missed it before, stays whole (`ArchiveSurvives`); a load ends unless zstd hangs on its full stderr pipe (`LoadsEnd`) | two runs, archives of three rows in one frame or two, one with a row that cannot be read; pipes of two rows and one line; jobs for one series, a missing series and the widest series |
| `engine` | labelling in any order equals the sequential one (`BatchEqualsStream`), runs, counts and collapse agree with the bits (`EventsAddUp`), repetitions (`RepetitionsCounted`), coverage, and one window of all its points for the encoder (`StreamIsCovered`), velocities and deviations that come back within half a bucket or at the cap, with sign and order (`ValuesRecovered`) | 4 bytes of 2 bits, all steps, caps, lookbacks and signature functions onto two; word lists up to 5; windows of up to 3 points of ten values on both sides of both caps, deviations 0 to 7 with ties; those of up to two points are analysed |

Why the bounds are enough. The policies' counters saturate at the configuration's limits as
far as any condition can tell, so limits of one to three, with zero where the code allows
it, give every order in which they can run out; `MaxSignals` and `MaxStreak` only cut off
growth beyond that, and in `structural_routing` the streak's bound is never reached. In
`timeout_routing` a streak of nine is more than twice the longest recovery: two full outages
fit. One fault in `probe_pipeline` is followed by two rounds and fetches, so a torn line is
joined, read and reported. Two runs of a replay are the fewest in which one finds what
another left, at whatever step that one died. In `bridge_service` a tick is a period
(`PeriodAssumption`): a window of 8, a baseline of 2, two gaps and two points still fit in
14, so that every boundary of the lookback is passed by gaps as well as by points; a round
takes as many ticks as it has metrics, and more would only repeat what the first ones show.
In `spot_datasets` a hole needs two writers at different positions, and both pipes fill with
less than an archive.

Deadlock is checked where the system runs for ever (`structural_routing`, `timeout_routing`,
`probe_pipeline`). Replays, loads, single probes and functions end, and the bridge may be
asked for one round.

Every property has a mutant, a definition with a plausible bug, that TLC finds to violate it
under the same configuration. The mutated forms stand beside the definitions they would
replace and are used by nothing else.

## 4. Fairness

* `structural_routing`, `timeout_routing`: weak fairness of the next sample. The service
  polls in a loop without end; nothing is assumed of what the samples say.
* `probe_pipeline`: weak fairness of the clock and of the bridge's steps. The bridge polls
  in a loop without end (`cli.py:46`) and is scheduled by the operating system; the clock
  goes on. Nothing is assumed of the poller, which may be down for ever, and no fault is
  needed for anything good to happen. `EveryRecordIsSeen` counts an observation that reports
  damage as an answer, because a damaged line makes every later fetch fail.
* `bridge_service`: weak fairness of the bridge's own steps. A request that stays silent is
  ended by its timeout (`connectors.py:70`; for CloudWatch the client's default), and the
  loop waits for nothing else but `time.sleep`. The timeout bounds silence, not duration:
  that an answer does not trickle in for ever is assumed of the servers. Nothing is assumed
  of what the sources answer, of whether they do, or of the arrival of points.
* `spot_datasets`: weak fairness of the zstd child and of the reader of each run. Nothing
  forces zstd to report on stderr, and nothing is assumed of downloads.

The other runs check safety only.

## 5. The proofs

TLAPS proves, without other assumptions than the named ones on the constants:

| Theorem | States |
|---|---|
| `StructuralProofs!FallbackDiffers` | for every topology the fallback is a listed target other than the one it stands in for, or there is none |
| `StructuralProofs!TypeCorrect` | types, cooldown within its configuration, histories within their window |
| `StructuralProofs!CountersAreHonest` | `CountersHonest` |
| `StructuralProofs!KeepsPromise` | the structural policy implements `FailoverPromise`, the duty to come back included |
| `StructuralProofs!RoutesElsewhere` | `FallbackIsElsewhere` |
| `StructuralProofs!DeparturesAreEarned` | `RouteNeedsSignals` |
| `StructuralProofs!SteadyStreamIsKept` | `SteadyStreamStaysHome`, for configurations whose least deltas and number of signals are positive |
| `TimeoutProofs!TypeCorrect`, `CountersAreHonest`, `FirstReturnIsSustained`, `KeepsWeakPromise` | the same for what the timeout baseline keeps |
| `TimeoutProofs!ReturnsInTime` | `NotKeptAway`: no recovered sample that ends both cooldown and streak leaves traffic away |
| `ProbeProofs!TextIsTimed`, `ErrorsAreReported`, `UsageIsKept` | `TextTimed`, `ErrorsReported`, `UsageSurvives`, whatever lines a server sends and wherever the stream breaks |
| `ProbeProofs!ProbesAreAccountedFor` | `ProbesAccountedFor` for any targets, crashes, torn writes and clock |
| `ProbeProofs!ErrorsAreDamage` | `ErrorsMeanDamage` for every interleaving of poller and bridge |
| `ProbeProofs!FetchesSeeAll` | `FetchesKeepUp`, likewise, for any number of files and metrics |
| `BridgeAndReplayProofs!LatestIsAlwaysOne` | asking for the latest window gives exactly one, the last of all when aligned |
| `BridgeAndReplayProofs!BridgeAgreesWithReplay` | `ObservationsAreReplayed` for every quantity, gap, configuration and interleaving |
| `BridgeAndReplayProofs!RoundsAreComplete` | `RoundIsComplete`, likewise |
| `BridgeAndReplayProofs!SummariesTellTheRows` | `SummaryTellsTheRows` for files of any length and any number of runs that die anywhere |
| `BridgeAndReplayProofs!RowsAreReproduced` | `RowsReproducible`, likewise, for all encoders and policies |
| `ProbeReplayProofs!DecisionsAreEarned` | `DecisionsEarned` for all probe files, encoders and policies |
| `ProbeReplayProofs!CreditsAreMaximal` | `CreditsMaximal` for probe files of any length |
| `SpotProofs!TypeCorrect`, `AlwaysKeepsThePeriod`, `NobodyOutpacesAlways`, `ReactiveKeepsAhead` | types, and the three properties of `spot_baselines` |
| `SpotProofs!AnswersComeWhole`, `ArchiveStays` | `AnswersAreWhole` and `ArchiveSurvives` for any number of runs, archives and pipes |
| `SpotReplayProofs!StoreKeepsUp`, `ArtifactsStayInOrder` | `StoreNeverBehindLog` and `ArtifactsInOrder` for all series, and wherever any number of runs die |
| `SpotReplayProofs!MigrationsAreEarned` | `MigrationsEarned` |
| `SpotReplayProofs!EventsAreDetected` | `EventsAreSpikes` for price series of any length |
| `SpotReplayProofs!CreditsAreSound` | `CreditsSound` for all series, notices and policies |
| `EngineProofs!LabellingsAreEqual` | `BatchEqualsStream` for streams of any length and any order of the iterations |
| `EngineProofs!PointsAreRecovered` | `ValuesRecovered` for all integers |
| `EngineProofs!EventsAllAddUp` | `EventsAddUp` for streams of any length |
| `EngineProofs!StreamsAreCovered` | `StreamIsCovered` for streams, windows and steps of any length |
| `EngineProofs!RepetitionsAreCounted` | `RepetitionsCounted`, likewise, for any lookback and any signatures |

*Routing.* That a return comes after sustained calm is not inductive: it speaks of what the
stream delivered, the guard of `recovery_streak` and `cooldown_remaining`. `CountersHonest`
is the link: while traffic is away the streak, as far as it matters, is the number of calm
windows since the last trigger, and the cooldown the distance still to go. It is inductive
with the type invariant; one step per way `evaluate` can end shows it. The refinement then
maps each of them to `Depart`, `Return` or `Remain` of `FailoverPromise`, and
`RouteNeedsSignals` follows from the part about signals, whose count also goes down. For the
target, `Elsewhere` adds to `FallbackIsElsewhere` that traffic is only ever away when there
is a fallback, and cites `FallbackDiffers`. The timeout baseline needs one conjunct more,
`StreakLeftOver`: what the streak is between outages, the very thing that limits its promise
to the first one. The duty to come back is the other half: `SustainedMeans` shows that calm
and quiet which have lasted are a full streak and a spent cooldown, so that a settled window
takes the branch of `ReturnToPrimary`. `ReturnsInTime` says the same of the timeout
baseline, from `NothingMissing`: its streak is never shorter than what the stream delivered.

*Baselines.* A bound on the number of migrations is not inductive, as two policies may be at
different places in their cooldowns. `Leads(a, b)` strengthens it: either `a` has migrated
more often, or as often and its cooldown is no longer than that of `b`. It holds step by
step when `a` acts whenever it may, or whenever `b` does. `PeriodsElapsed` ties points,
migrations and the running cooldown into one equation, from which the exact count follows.

*A steady stream.* `RankedConstant` shows that every rank of a constant sequence is its
value, so the median of a history that holds nothing but the value of the window is that
value and the deltas are zero. `SteadyInv` says that as long as the stream is steady its
histories are constant and no signal was counted; `RememberConstant` keeps it when the deque
drops its oldest value. With a least delta of zero every window above the floors would be a
signal, hence the condition `Discerning`.

*Earned decisions.* The probe-side policy and the migration policy count alike. `CountsInv`
ties their counters to what they were given: the cooldown is what is left of it since the
last act, and the signal count does not exceed the signals seen. That an act is earned
follows at the step itself. In the probe replay the invariant speaks of whatever model the
windows were of, because the policy is shared.

*Store, log and artifacts.* `StoreInv` places the last record of the log: it is of an older
run, or of this one and no newer than its last row; between the two steps of the operator
the store holds the execution under way. `DiskInv` says that every row, of this run and on
disk, has its record in the log, which only grows, and for each phase of whose run rows and
summary on disk are. A crash leaves the phase for the next run, so that both speak of runs
by number.

*Bridge and encoder.* `WindowOfTail`: the window and the baseline at a start in a series are
those at the shifted start in a tail of it, when the tail holds the baseline. The points
fetched are a tail of a prefix of the series, whatever gaps it has and however many points
came since the round began, and the prefix does not change when it grows. For complete
rounds, `StampsApart` says that points come a tick apart at least, so that a range of time
holds no more points than ticks; `RoundSound` ties the place in the round to the
observations made.

*Datasets.* `Honest`: a zstd that succeeded stood at the end of a frame, and its reader left
the pipe empty before it closed. What is answered is then made of the rows up to the end of
a frame, although the file may have been cut back to nothing under the child. That a whole
archive stays needs no more than that a handle writes what was published.

*One probe.* `StreamInv` has a part for each promise. `TextInv`: no line with text is
collected unless text was seen, and the time to first token, once taken, lies between that
sight and now. `SentInv`: while the probe is on, the event the parser has open is the one
the server has, by name and data; the history keeps the latter for itself. `TroubleInv`:
whatever data line can end in an error (one that is trouble, several that may not join) is
suspected before its event ends, and a whole `error` event is an alarm; so every error
reported has one of the two, and every alarm is answered. `UsageInv` ties the counts to the
last usage of a completed event.

*Poller and files.* `AccountInv` counts each finished probe once: in the buffer of its round
or on a line of the live file, where `TailInv` says what a torn write leaves, the only way
to lose one short of a crash. `FetchInv` follows the bridge through the file: what it has
seen damaged is what a cut write damaged, and the damage that was there when it began is
still ahead of it or has ended the fetch (`DamageInv`).

*A fetch sees all.* `KeepInv`, with what was on disk when the fetch began as a set of
records. `HeldInv`: each of them the cursor has passed is among the points, which are at
least as many, and the others are still ahead unless damaged since. `GatherInv`: while
nothing is damaged, no point comes from anywhere but the lines passed. `OldInv`: while the
clock has not been set back either, what the last observation of the metric told is still on
disk, and was when the fetch began. `KthOldest` counts and orders the points, so that the
last of those kept is the newest of all.

*Function of the samples.* `StructuralIsFunction` and `TimeoutIsFunction`: `evaluate`,
written as four and five ways it can end, is a function of what the policy holds and what it
is given. `ComputedInv` then says that there is a sequence of memories from fresh policies
to the present ones, each made of the one before and the samples so far, that left exactly
the rows; and another for the run before. Two such sequences agree as long as their samples
do, by the least place at which they might not.

*Rows and summary.* `PlacesInOrder` and `PlacesAreFilled`: the place of a sample, the number
of samples before it, is a bijection, so the series is in order of time. Rows carry the
times of their samples, and in a table in order of time the sign of the lead is the order of
the first routes. `ReportInv` places the run of the rows and that of the summary at each
stage.

*Credit.* That the greedy attribution of the probe replay is maximal is shown by a cover of
one end of each credited pair that every possible pair has an end in (`Covers`). A credited
routing joins the cover. For one that finds its events used, let u be the last unused event
before it: behind u all that is in reach is used, by routings from u on, whose events cover
them, and the routings before u have a cover of their own. This needs rows in order of time,
and without it the greedy choice need not be maximal. In the spot replay a migration is
credited with the first of the closest events, and the lookback windows of events that are a
lookback apart are disjoint. That the inferred events are the first spikes of their anchors
goes down from the last point, the way the scan is defined.

*Engine.* `LabelInv` says of the iterations that have run, in whatever order, what they
wrote and when they raised the flag; `FeedInv` says the same of the streaming processor.
`ScanInv` and `HandedInv` cut the windows: each starts a step behind the one before, and a
window of points is handed over as a stream as long as that window. `CodecInv` ties each
byte to its point; half a bucket comes from the bounds of rounding half to even.
`RepetitionInv`: the deque of a signature is the tail of the places where it occurred, those
within the lookback, so its length is their number; the histogram adds up by an injection.
`aggregate` is a recursive function of the number of labels it has joined: `RunsFit` says of
the runs of each prefix that they follow one another from its first event to its last, that
each holds one label and that neighbours differ. The step from one prefix to the next is
`Joined`; that it holds of all of them goes by the least prefix of which it might not. The
counts of the labels are cardinalities of disjoint sets that cover the stream.

Assumptions on the constants. `ConfigsAssumption`, `WindowsAssumption`,
`MigrationAssumption`, `PricesAssumption`, `ReplayConfigsAssumption`,
`ByteStreamAssumption`: counts and limits are naturals, those the code clamps to at least
one are positive, weights, levels and thresholds are integers. `MetricsAssumption`,
`PeriodAssumption`, `WindowAssumption`: a metric's period is a tick or the zero that is
refused, a window's length is an integer. `StreamAssumption`, `LinesAssumption`,
`RecordsAssumption`, `SeriesAssumption`, `ArchivesAssumption`, `ArchiveAssumption`,
`PipelineAssumption`, `BaselinesAssumption`, `ValuesAssumption`: what is read is a sequence
of records with times, prices and values that are numbers, the archive of Zenodo ends with a
frame, the bridge's metrics are about probed targets and the live file is one of those it
reads. `PipesAssumption`: a pipe holds something. `LabelsAssumption`: the three labels
differ. `NoneAssumption`, `NothingAssumption` and `DamagedAssumption` say that the values
that stand for "nothing" or for a damaged line are none of the others. TLC evaluates each
with every run that uses it.

Only model-checked is liveness (`SettledStreamComesHome`, `FastStreamComesHome`,
`EveryRecordIsSeen`, `RoundsGoOn`, `LoadsEnd`), which needs fairness and is outside the
reach of TLAPS. What each of them needs from the steps, apart from fairness, is proved as a
safety or an action property:

| Liveness | What is proved of it |
|---|---|
| `SettledStreamComesHome` | `KeepsPromise`: traffic is not left away at a settled window that completes cooldown and streak |
| `FastStreamComesHome` | `ReturnsInTime`, the same of the timeout baseline |
| `EveryRecordIsSeen` | `FetchesSeeAll`: a fetch begun when the record is on disk tells of it or reports damage |
| `RoundsGoOn` | `BridgeAndReplayProofs!RoundsAreFinite`: each step of the bridge shortens its round, nothing else touches it, and a round takes two steps for each metric at most. `LookupsSucceed`: the look-up outside the try finds its connector, so that a fetch may always fail, at least |
| `LoadsEnd` | `SpotProofs!OnlyStderrCanHang`: zstd or its reader can go on unless stderr is full. `LoadsAreFinite`: each of their steps shortens the load, no other puts it off, and a load of n rows takes 2n + 8 steps at most |

For the last two the bound is a measure that goes down (`LeftOfRound`, `LeftOfLoad`).
`Balanced` keeps the pipes within what was sent and taken and says that only a full pipe
blocks zstd; a file cut back under zstd ends the load sooner, never later. `ZstdCan` and
`ReaderCan` spell out the guards of the two, since ENABLED has no proof rules here; TLC
finds them equal to ENABLED on the instance of `spot_datasets`, and found `NotKeptAway`,
`RoundsShorten`, `LookupSucceeds`, `OnlyStderrHangs` and `LoadsShorten` to hold on the
instances of their runs, although no run lists them.

## 6. A finding and observations

**The timeout baseline does not ask for sustained recovery after its first outage**
(`timeout_flaps`). `TimeoutRoutingPolicy.evaluate` enters the fallback without clearing
`recovery_streak` (policy.py:270-273; the structural policy clears it at 159 and 171), so
the streak of an earlier outage counts towards the next return. In the run's trace the
primary fails a second time and one recovered sample brings traffic back, where
`docs/transition_plan.md:95` says "Recovery logic requires sustained stability before
reverting to primary". `WeakPromiseKept` says what is left of the promise.

Observations made while modelling, not stated as findings:

* The greedy attribution of `replay_routing.py` credits the most only when the rows are in
  order of time, and its rows keep the order of the file: after a clock set back another
  pairing may credit more.
* `LLMRoutingPolicy` answers STABLE on the first calm window after a ROUTE
  (`llm_probe/policy.py:184-185`), without a streak.
* `replay_routing.py:154-171` replays all models through one `LLMRoutingPolicy`; its
  histories and counters carry over, where `docs/transition_plan.md:77` treats each
  provider, model and signal as a stream of its own.
* Warm-up rows of the routing replay name the replayed target PRIMARY (`replay.py:98,109`),
  later ones the configured primary (`policy.py:52-53`).
* `encoder.py:184-185,219`: the leading zero of the velocities is stripped only for the
  first window; the features of all others include a step that never happened.
* The `hazard` of a signal (`encoder.py:124`) is 0.95 times the larger of entropy and
  coherence, so a very coherent window has a high hazard; and `StructuralResult.stability`
  is never assigned, so every signature says `s0.000`.
* The Python encoder packs bits with the most significant first, the engine's default
  unpacks the least significant first, and the encoder does not ask for anything else: the
  engine sees the bits of every byte in reverse.
* `baseline_period` 0 makes the first value of the series the baseline of every later
  window, and a lookback shorter than a window is accepted and never ready.
* The example configuration (lookback 64, window 32, baseline 60) does not meet the
  condition of `ObservationsAreReplayed`: there bridge and replay may differ.
* A configuration is hardly validated (`telemetry_bridge/types.py`): a negative poll
  interval ends the bridge with an exception after its first round (`cli.py:53`), a lookback
  shorter than the window reports too few samples for ever. An empty `llm_probe:` block
  counts as none and is refused, although everything in it has a default.
* A CloudWatch answer that lacks the newest points is taken as it is: the window reported is
  then an older one, under the time of its own last point.
* A truncated archive is never downloaded again: `replay.py` never passes `overwrite`
  (`datasets.py:37-38`), so every later run fails until somebody removes the file. When the
  file ends between two frames zstd cannot tell, and the rows so far are taken for all.
* `replay.py` never asks for `limit_points`, and takes the product from
  `--product-description`, whose default makes the configuration's product unused. Series
  from Zenodo keep the order of the archive, those from the AWS CLI are sorted by time.
* Only `analyze_bytes` is bound to Python (`core/bindings.cpp`): words that are no bits
  reach the labelling only from programs linked with the library.

## 7. What is not modelled

* Real-valued statistics (entropy, coherence, damped trajectories, regime classification,
  autocorrelation): formulas over reals, out of TLC's reach. They are arbitrary functions of
  the points they see.
* Of the bridge: the text of requests and answers, and Prometheus with a step larger than
  its scrape interval, where one scrape answers for several points. What is modelled of a
  request is which points come back.
* Of the datasets: the AWS CLI loader and the interruption labels, which read a file in one
  go and keep no state, and `evaluate_phase3.sh`, which calls the replay for a list of
  series.
* Parsing of the probe's and the policies' configuration files and their tables of defaults:
  stateless; what it guarantees are the assumptions on the constants. Command lines,
  logging, reports, dashboards' layout.
* `core/manifold_builder.cpp`, `core/io_utils.cpp`: not compiled into the engine.
* Codec analytics: counts for a report.

A 32-bit overflow of `StructuralEvent::index` needs a stream of four billion bits and is
left out; other counters are Python integers or `size_t`.

## 8. Plan

Done: the routing policies; pipeline and streams; both replays; the spot use case; the
bridge with its connectors; datasets; encoder, codec and engine composed; a proof of every
safety and action property the runs check, and of what each liveness property needs from the
steps.

Next, in this order:

1. An abstract specification of two files overwritten one after the other, implemented by
   both replays.
2. Probes that take long: a bound on the time between two probes of a target under a bound
   on the server, which the poller's timeouts do not give.
