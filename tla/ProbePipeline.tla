---------------------------- MODULE ProbePipeline ----------------------------
(***************************************************************************)
(* How a probe becomes an observation.  The poller                         *)
(* (scripts/llm_probe/poller.py) probes its targets one after the other,   *)
(* keeps the results of the round in memory and only then appends them,    *)
(* one line each, to a JSONL file.  The bridge                             *)
(* (scripts/telemetry_bridge) shares nothing with it but that file: for    *)
(* every metric it reads all the files its glob matches, from their first  *)
(* line, while the poller goes on appending.                               *)
(*                                                                         *)
(* A line is a record or Damaged (text that json.loads rejects).  tail     *)
(* says how the live file ends: "closed" by a newline, or open, after a    *)
(* write cut short, behind a "whole" record or behind a "part" of one.     *)
(* What the measurement of one target does is module ProbeStream.          *)
(***************************************************************************)
EXTENDS Naturals, FiniteSets, SequencesExt

CONSTANTS Targets,      \* the targets of llm_probe.targets, in order
          KeyRings,     \* the targets whose API key is set, per environment
          Metrics,      \* the target each bridge metric is about, in order
          Lookback,     \* lookback_points, per metric
          WindowPoints, \* window_points of the encoder
          Files,        \* the files the glob matches, in sorted order
          LiveFile,     \* the one of them the poller appends to
          Archive,      \* the lines each file holds at the start
          Once,         \* the poller runs with --once
          Damaged,
          MaxTime,      \* bound on the clock
          MaxLines,     \* bound on the lines of the live file
          MaxFaults     \* bound on crashes and writes cut short

ASSUME PipelineAssumption ==
  /\ Range(Metrics) \subseteq Range(Targets)
  /\ KeyRings \subseteq SUBSET Range(Targets)
  /\ LiveFile \in Range(Files)
  /\ Lookback \in [DOMAIN Metrics -> Nat \ {0}]
  /\ WindowPoints \in Nat
  /\ Targets \in Seq(Range(Targets))
  /\ Files \in Seq(Range(Files))
  /\ Metrics \in Seq(Range(Metrics))

\* The archived lines are those of writes that were not cut short.
Archived == (UNION {Range(Archive[f]) : f \in Range(Files)}) \ {Damaged}

ASSUME ArchiveAssumption ==
  /\ Archive \in [Range(Files) -> Seq(Archived)]
  /\ \A r \in Archived : r.ts \in Nat

ASSUME DamagedAssumption ==
  Damaged \notin [target : Range(Targets), ts : Nat]

VARIABLES now, stepped, faults,           \* the world
          keys, poller, next, started, results,
          disk, tail,                     \* what the two processes share
          bridge, metric, cutoff, file, line, points, batch, emitted

world      == <<now, stepped, faults>>
pollerVars == <<keys, poller, next, started, results>>
storage    == <<disk, tail>>
fetchVars  == <<cutoff, file, line, points>>
bridgeVars == <<bridge, metric, fetchVars, batch, emitted>>
vars       == <<world, pollerVars, storage, bridgeVars>>

NoStamp == 0

Record(target, ts) == [target |-> target, ts |-> ts]

(***************************************************************************)
(* The world: a wall clock, which an adjustment may set back once.         *)
(***************************************************************************)
Tick ==
  /\ now < MaxTime
  /\ now' = now + 1
  /\ UNCHANGED <<stepped, faults, pollerVars, storage, bridgeVars>>

StepBack ==
  /\ ~stepped
  /\ now > 1
  /\ now' = now - 1
  /\ stepped' = TRUE
  /\ UNCHANGED <<faults, pollerVars, storage, bridgeVars>>

(***************************************************************************)
(* The poller: one round of probes, then one append per result.            *)
(***************************************************************************)
RoundOver == next > Len(Targets)

\* The process ends: its locals, the results not yet written among them, go.
StopPoller ==
  /\ poller' = "down"
  /\ next' = 1
  /\ started' = NoStamp
  /\ results' = <<>>

StartRound ==
  /\ poller = "sleeping"
  /\ Len(disk[LiveFile]) + Len(Targets) <= MaxLines
  /\ poller' = "probing"
  /\ UNCHANGED <<keys, next, started, results, world, storage, bridgeVars>>

SkipTarget ==
  /\ poller = "probing"
  /\ ~RoundOver
  /\ Targets[next] \notin keys
  /\ next' = next + 1
  /\ UNCHANGED <<keys, poller, started, results, world, storage, bridgeVars>>

SendProbe ==
  /\ poller = "probing"
  /\ ~RoundOver
  /\ Targets[next] \in keys
  /\ poller' = "waiting"
  /\ started' = now
  /\ UNCHANGED <<keys, next, results, world, storage, bridgeVars>>

FinishProbe ==
  /\ poller = "waiting"
  /\ poller' = "probing"
  /\ results' = Append(results, Record(Targets[next], started))
  /\ next' = next + 1
  /\ started' = NoStamp
  /\ UNCHANGED <<keys, world, storage, bridgeVars>>

\* Appending to an open tail completes that line, not a line of its own.
Appended(lines, text) ==
  IF tail = "closed" THEN Append(lines, text) ELSE Append(Front(lines), Damaged)

Emitting == poller = "probing" /\ RoundOver /\ results # <<>>

(* Mutated form: the round is forgotten after its first append.            *)
EmitResult_FirstOnly ==
  /\ Emitting
  /\ disk' = [disk EXCEPT ![LiveFile] = Appended(@, Head(results))]
  /\ tail' = "closed"
  /\ results' = <<>>
  /\ UNCHANGED <<keys, poller, next, started, world, bridgeVars>>

EmitResult ==
  /\ Emitting
  /\ disk' = [disk EXCEPT ![LiveFile] = Appended(@, Head(results))]
  /\ tail' = "closed"
  /\ results' = Tail(results)
  /\ UNCHANGED <<keys, poller, next, started, world, bridgeVars>>

\* The write fails (a full disk) after nothing, some or all of the record's
\* text has reached the file; the exception ends the poller.
EmitTorn ==
  /\ Emitting
  /\ faults < MaxFaults
  /\ faults' = faults + 1
  /\ \/ UNCHANGED storage
     \/ /\ disk' = [disk EXCEPT ![LiveFile] = Appended(@, Damaged)]
        /\ tail' = "part"
     \/ /\ disk' = [disk EXCEPT ![LiveFile] = Appended(@, Head(results))]
        /\ tail' = IF tail = "closed" THEN "whole" ELSE "part"
  /\ StopPoller
  /\ UNCHANGED <<now, stepped, keys, bridgeVars>>

EndRound ==
  /\ poller = "probing"
  /\ RoundOver
  /\ results = <<>>
  /\ poller' = IF Once THEN "down" ELSE "sleeping"
  /\ next' = 1
  /\ UNCHANGED <<keys, started, results, world, storage, bridgeVars>>

CrashPoller ==
  /\ poller # "down"
  /\ faults < MaxFaults
  /\ faults' = faults + 1
  /\ StopPoller
  /\ UNCHANGED <<now, stepped, keys, storage, bridgeVars>>

\* The operator starts the poller again, perhaps with other API keys.
RestartPoller ==
  /\ poller = "down"
  /\ poller' = "sleeping"
  /\ keys' \in KeyRings
  /\ UNCHANGED <<next, started, results, world, storage, bridgeVars>>

(***************************************************************************)
(* The bridge: per metric a fetch over all the files, then an observation. *)
(***************************************************************************)
Observation(samples, last, error) ==
  [samples |-> samples, last |-> last, error |-> error]

AllFetched == metric > Len(Metrics)

BeginFetch ==
  /\ bridge = "polling"
  /\ ~AllFetched
  /\ bridge' = "reading"
  /\ cutoff' = now
  /\ UNCHANGED <<metric, file, line, points, batch, emitted, world, pollerVars, storage>>

Reading   == bridge = "reading" /\ file <= Len(Files)
Lines     == disk[Files[file]]

Wanted(r) == r.target = Metrics[metric] /\ r.ts <= cutoff

ReadRecord ==
  /\ Reading
  /\ line <= Len(Lines)
  /\ Lines[line] # Damaged
  /\ points' = IF Wanted(Lines[line]) THEN Append(points, Lines[line].ts) ELSE points
  /\ line' = line + 1
  /\ UNCHANGED <<bridge, metric, cutoff, file, batch, emitted, world, pollerVars, storage>>

EndOfFile ==
  /\ Reading
  /\ line > Len(Lines)
  /\ file' = file + 1
  /\ line' = 1
  /\ UNCHANGED <<bridge, metric, cutoff, points, batch, emitted, world, pollerVars, storage>>

Observe(observation) ==
  /\ batch' = Append(batch, observation)
  /\ metric' = metric + 1
  /\ bridge' = "polling"
  /\ cutoff' = NoStamp
  /\ file' = 1
  /\ line' = 1
  /\ points' = <<>>
  /\ UNCHANGED <<emitted, world, pollerVars, storage>>

(* Mutated form: a line that cannot be parsed is passed over in silence.   *)
FailFetch_Skipped ==
  /\ Reading
  /\ line <= Len(Lines)
  /\ Lines[line] = Damaged
  /\ line' = line + 1
  /\ UNCHANGED <<bridge, metric, cutoff, file, points, batch, emitted, world,
                 pollerVars, storage>>

\* The ConnectorError of a line that cannot be parsed: no samples at all.
FailFetch ==
  /\ Reading
  /\ line <= Len(Lines)
  /\ Lines[line] = Damaged
  /\ Observe(Observation(0, NoStamp, "parse"))

(* Mutated form: the points keep the order of the files.                   *)
Sorted_ByFile(stamps) == stamps

\* The k-th of the timestamps: less than k of them are older.
KthOldest(stamps, k) ==
  CHOOSE t \in Range(stamps) :
    /\ Cardinality({i \in DOMAIN stamps : stamps[i] < t}) < k
    /\ k <= Cardinality({i \in DOMAIN stamps : stamps[i] <= t})

Sorted(stamps) == [k \in DOMAIN stamps |-> KthOldest(stamps, k)]

(* Mutated form: the lookback keeps the oldest points.                     *)
Latest_Oldest(stamps, n) ==
  SubSeq(stamps, 1, IF Len(stamps) > n THEN n ELSE Len(stamps))

Latest(stamps, n) ==
  SubSeq(stamps, IF Len(stamps) > n THEN Len(stamps) - n + 1 ELSE 1, Len(stamps))

Fetched == Latest(Sorted(points), Lookback[metric])

Concluded(samples) ==
  CASE samples = <<>>               -> Observation(0, NoStamp, "empty")
    [] Len(samples) \in 1 .. (WindowPoints - 1) ->
         Observation(Len(samples), Last(samples), "short")
    [] OTHER                        -> Observation(Len(samples), Last(samples), "none")

FinishFetch ==
  /\ bridge = "reading"
  /\ file > Len(Files)
  /\ Observe(Concluded(Fetched))

EmitObservations ==
  /\ bridge = "polling"
  /\ AllFetched
  /\ emitted' = [m \in DOMAIN Metrics |-> batch[m]]
  /\ batch' = <<>>
  /\ metric' = 1
  /\ UNCHANGED <<bridge, fetchVars, world, pollerVars, storage>>

-----------------------------------------------------------------------------
Init ==
  /\ now = 1
  /\ stepped = FALSE
  /\ faults = 0
  /\ keys \in KeyRings
  /\ poller = "sleeping"
  /\ next = 1
  /\ started = NoStamp
  /\ results = <<>>
  /\ disk = Archive
  /\ tail = "closed"
  /\ bridge = "polling"
  /\ metric = 1
  /\ cutoff = NoStamp
  /\ file = 1
  /\ line = 1
  /\ points = <<>>
  /\ batch = <<>>
  /\ emitted = [m \in DOMAIN Metrics |-> Observation(0, NoStamp, "empty")]

World      == Tick \/ StepBack
PollerStep == \/ StartRound \/ SkipTarget \/ SendProbe \/ FinishProbe
              \/ EmitResult \/ EndRound \/ RestartPoller
Fault      == EmitTorn \/ CrashPoller
BridgeStep == \/ BeginFetch \/ ReadRecord \/ EndOfFile \/ FailFetch
              \/ FinishFetch \/ EmitObservations

Next == World \/ PollerStep \/ Fault \/ BridgeStep

\* Time passes, and the bridge loops until it is killed (cli.py:46).  The
\* poller may be down for ever.
Fairness == WF_vars(Tick) /\ WF_vars(BridgeStep)

Spec == Init /\ [][Next]_vars /\ Fairness


-----------------------------------------------------------------------------
(***************************************************************************)
(* The properties of the probe pipeline, and the history they need: how    *)
(* many probes of each target were finished, whether a write was ever cut  *)
(* short, and what the files held when the running fetch began.            *)
(***************************************************************************)

VARIABLES done, torn, atStart

history == <<done, torn, atStart>>

AllLines == UNION {Range(disk[f]) : f \in Range(Files)}

\* The positions in these lines of the records of a target.
Holding(lines, target) ==
  {i \in DOMAIN lines : lines[i] # Damaged /\ lines[i].target = target}

\* Where in the files the records are that a fetch of this target wants, and
\* their timestamps.
OnDisk(target, limit) ==
  UNION {{[file |-> f, line |-> l, ts |-> disk[Files[f]][l].ts] :
            l \in {i \in Holding(disk[Files[f]], target) : disk[Files[f]][i].ts <= limit}} :
           f \in DOMAIN Files}

NoFetch == [damage |-> FALSE, held |-> {}]

HistoryInit ==
  /\ Init
  /\ done = [t \in Range(Targets) |-> 0]
  /\ torn = FALSE
  /\ atStart = NoFetch

HistoryNext ==
  /\ Next
  /\ done' = IF results' # results /\ Len(results') > Len(results)
               THEN [done EXCEPT ![Last(results').target] = @ + 1]
               ELSE done
  /\ torn' = (torn \/ tail' # "closed")
  /\ atStart' = IF bridge = "polling" /\ bridge' = "reading"
                  THEN [damage |-> Damaged \in AllLines,
                        held   |-> OnDisk(Metrics[metric], cutoff')]
                  ELSE IF bridge' = "polling" THEN NoFetch ELSE atStart

hvars == <<vars, history>>

HistorySpec     == HistoryInit /\ [][HistoryNext]_hvars
FairHistorySpec == HistorySpec /\ Fairness

-----------------------------------------------------------------------------
Count(lines, target) == Cardinality(Holding(lines, target))

Written(target)  == Count(disk[LiveFile], target) - Count(Archive[LiveFile], target)
Buffered(target) == Count(results, target)

\* A finished probe is in the buffer of its round or on one line of the file,
\* never on two; and without a crash or a failed write none is missing.
ProbesAccountedFor ==
  \A t \in Range(Targets) :
    /\ Written(t) + Buffered(t) <= done[t]
    /\ faults = 0 => Written(t) + Buffered(t) = done[t]

\* However the poller's appends and the bridge's reads interleave, the bridge
\* reports a line it cannot parse only when a write was once cut short.
ParseErrorsNeedTornWrite ==
  \A m \in DOMAIN Metrics : emitted[m].error = "parse" => torn

Concludes == Len(batch') > Len(batch)

\* A fetch misses nothing that was on disk when it began: its count and its
\* newest sample are at least what the files held then, whatever was appended
\* while it was reading.
FetchSeesThePast ==
  [][ Concludes /\ Last(batch').error # "parse"
      => LET held == Cardinality(atStart.held)
         IN /\ Last(batch').samples >= IF held < Lookback[metric] THEN held ELSE Lookback[metric]
            /\ \A r \in atStart.held : r.ts <= Last(batch').last ]_hvars

\* A metric read over a damaged line is never reported as clean, whichever
\* target the damaged line was about.
DamageIsNeverHidden ==
  [][Concludes /\ atStart.damage => Last(batch').error = "parse"]_hvars

\* From one observation of a metric to the next its newest sample does not
\* get older and its samples do not get fewer, unless a parse error came
\* between or the clock was set back.
ViewNeverShrinks ==
  [][\A m \in DOMAIN Metrics :
       \/ stepped
       \/ "parse" \in {emitted[m].error, emitted'[m].error}
       \/ /\ emitted[m].last <= emitted'[m].last
          /\ emitted[m].samples <= emitted'[m].samples]_hvars

\* What an observation says of a target only gains on the disk and on the
\* observation before it.
FetchesKeepUp == FetchSeesThePast /\ ViewNeverShrinks

\* A parse error is reported for damage a cut write has left, always, and for
\* nothing else.
ErrorsMeanDamage == DamageIsNeverHidden /\ []ParseErrorsNeedTornWrite

\* A record on disk is seen, in the end, by every metric of its target: an
\* observation is emitted that is no older, or that reports damage.
EveryRecordIsSeen ==
  \A m \in DOMAIN Metrics : \A ts \in 1 .. MaxTime :
    (Record(Metrics[m], ts) \in AllLines)
      ~> (emitted[m].last >= ts \/ emitted[m].error = "parse")
=============================================================================
