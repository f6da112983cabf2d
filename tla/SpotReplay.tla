------------------------------ MODULE SpotReplay ------------------------------
(***************************************************************************)
(* scripts/spotfsm/replay.py and operator.py: a price series is replayed   *)
(* through the structural policy and four baselines.  After each point the *)
(* simulated operator executes the structural decision: it sets the state  *)
(* of the workload in a store (Redis, or a dictionary of the process) and  *)
(* then appends a record to a log that every run appends to.  At the end   *)
(* the CSV of the rows and the JSON summary are overwritten in place.  The *)
(* process may die between any two of these steps and be run again, on     *)
(* the same or on another series.                                          *)
(*                                                                         *)
(* The variables m_... are those of MigrationPolicy, b_... those of the    *)
(* baselines.  What is on disk carries the run that wrote it, which the    *)
(* program does not see.                                                   *)
(***************************************************************************)
EXTENDS ReplayAttribution, SequencesExt

CONSTANTS
  Series,            \* what may be replayed: points, and notices or Inferred
  Inferred,          \* no --interruption-events-csv
  MigrationConfigs, BaselineConfigs, ReplayConfigs,
  Windows, Prices,
  Encode(_),         \* the latest window of a prefix of points
  window_points,
  Luck,              \* the draws of random.Random(42) against the probability
  Nothing,           \* no payload in the store
  MaxRuns            \* bound on the runs of the program

(* A deque takes no negative bound.                                        *)
ASSUME MigrationAssumption ==
  \A c \in MigrationConfigs :
    /\ c.cooldown_windows \in Nat
    /\ c.min_consecutive_signals \in Nat
    /\ c.history_window \in Nat

(* Prices and times are of points in a row, in whatever order of time.     *)
ASSUME SeriesAssumption ==
  \A s \in Series :
    /\ s.points \in Seq([ts : Int, price : Int])
    /\ s.notices = Inferred \/ s.notices \in Seq(Int)

ASSUME ReplayConfigsAssumption ==
  \A c \in ReplayConfigs :
    /\ c.event_lookahead_points \in Int /\ c.event_attribution_lookback_points \in Int
    /\ c.event_spike_multiplier \in Int /\ c.event_spike_absolute \in Int

(* What the operator writes, to the store and to the log.                  *)
Executions ==
  [run : Nat, index : Nat, last_action : {"STABLE", "OBSERVE", "MIGRATE"},
   state : {"STABLE", "HAZARD_DETECTED", "MIGRATING"}]

ASSUME NothingAssumption == Nothing \notin Executions

VARIABLES
  series, replay_config, redis,
  run, phase,
  rows,
  pending,           \* the structural decision the operator is executing
  store, log,
  csv, summary,
  draws,             \* draws taken from the random policy's generator
  m_config, m_hazard_history, m_rupture_history, m_consecutive_signals,
  m_cooldown_remaining, m_state, m_decision,
  b_config, b_price_history, b_velocity_history, b_cooldown_remaining, b_action

migrationVars == <<m_config, m_hazard_history, m_rupture_history, m_consecutive_signals,
                   m_cooldown_remaining, m_state, m_decision>>
baselineVars  == <<b_config, b_price_history, b_velocity_history, b_cooldown_remaining, b_action>>
policyVars    == <<migrationVars, baselineVars, draws>>
inputVars     == <<series, replay_config, redis>>
artifacts     == <<csv, summary>>
replayVars    == <<inputVars, run, phase, rows, pending, store, log, artifacts, policyVars>>

Migration == INSTANCE MigrationPolicy WITH
  Configs <- MigrationConfigs, config <- m_config,
  hazard_history <- m_hazard_history, rupture_history <- m_rupture_history,
  consecutive_signals <- m_consecutive_signals, cooldown_remaining <- m_cooldown_remaining,
  state <- m_state, decision <- m_decision

Baselines == INSTANCE SpotBaselines WITH
  Configs <- BaselineConfigs, config <- b_config,
  price_history <- b_price_history, velocity_history <- b_velocity_history,
  cooldown_remaining <- b_cooldown_remaining, action <- b_action

ReplayPolicies == {"spotfsm"} \cup Baselines!Policies

points == series.points
idx    == Len(rows) + 1

EventsOf(s) ==
  IF s.notices = Inferred THEN detect_price_spike_events(s.points, replay_config)
  ELSE MappedEvents(s.points, s.notices)

Events == EventsOf(series)

-----------------------------------------------------------------------------
(* The random policy draws only when its cooldown is over.                 *)
EvaluateBaselines ==
  /\ Baselines!evaluate(points[idx].price, Luck[draws + 1])
  /\ draws' = IF Baselines!Ready("random") THEN draws + 1 ELSE draws

WarmupPoint ==
  /\ phase = "evaluate"
  /\ idx <= Len(points)
  /\ idx < window_points
  /\ EvaluateBaselines
  /\ pending' = "STABLE"
  /\ phase' = "execute"
  /\ UNCHANGED <<inputVars, run, rows, store, log, artifacts, migrationVars>>

EvaluatePoint ==
  /\ phase = "evaluate"
  /\ idx <= Len(points)
  /\ idx >= window_points
  /\ Migration!evaluate(Encode(SubSeq(points, 1, idx)))
  /\ EvaluateBaselines
  /\ pending' = m_decision'.action
  /\ phase' = "execute"
  /\ UNCHANGED <<inputVars, run, rows, store, log, artifacts>>

-----------------------------------------------------------------------------
(* SimulatedOperator.execute                                               *)

WorkloadState(action) ==
  CASE action = "MIGRATE" -> "MIGRATING"
    [] action = "OBSERVE" -> "HAZARD_DETECTED"
    [] action = "STABLE"  -> "STABLE"

Executed(action) ==
  [run |-> run, index |-> idx, last_action |-> action, state |-> WorkloadState(action)]

(* Mutated form: doing nothing leaves the state alone.                     *)
SetState_ActionsOnly ==
  /\ phase = "execute"
  /\ store' = IF pending = "STABLE" THEN store ELSE Executed(pending)
  /\ phase' = "log"
  /\ UNCHANGED <<inputVars, run, rows, pending, log, artifacts, policyVars>>

SetState ==
  /\ phase = "execute"
  /\ store' = Executed(pending)
  /\ phase' = "log"
  /\ UNCHANGED <<inputVars, run, rows, pending, log, artifacts, policyVars>>

Logged == Append(log, Executed(pending))

Row ==
  [ts     |-> points[idx].ts,
   action |-> [p \in ReplayPolicies |-> IF p = "spotfsm" THEN pending ELSE b_action[p]],
   state  |-> WorkloadState(pending),
   event_here |-> \E k \in DOMAIN Events : Events[k].event_index = idx]

(* The record is appended, execute returns and the row is made.            *)
AppendRecord ==
  /\ phase = "log"
  /\ log' = Logged
  /\ rows' = Append(rows, Row)
  /\ pending' = "STABLE"
  /\ phase' = "evaluate"
  /\ UNCHANGED <<inputVars, run, store, artifacts, policyVars>>

-----------------------------------------------------------------------------
(* The artifacts                                                           *)

Migrations(table, p) == {i \in DOMAIN table : table[i].action[p] = "MIGRATE"}

SummaryOf(s, table) ==
  [p \in ReplayPolicies |->
     PolicySummary(s.points, EventsOf(s), Migrations(table, p),
                   replay_config.event_attribution_lookback_points)]

Whole(n, text) == [run |-> n, whole |-> TRUE, text |-> text]
Cut(n)         == [run |-> n, whole |-> FALSE, text |-> << >>]

(* Mutated form: the summary is written before the rows.                   *)
OpenCsv_AfterSummary ==
  /\ phase = "evaluate"
  /\ idx > Len(points)
  /\ csv' = [run |-> run, series |-> series, rows |-> << >>]
  /\ summary' = Whole(run, SummaryOf(series, rows))
  /\ phase' = "csv"
  /\ UNCHANGED <<inputVars, run, rows, pending, store, log, policyVars>>

OpenCsv ==
  /\ phase = "evaluate"
  /\ idx > Len(points)
  /\ csv' = [run |-> run, series |-> series, rows |-> << >>]
  /\ phase' = "csv"
  /\ UNCHANGED <<inputVars, run, rows, pending, store, log, summary, policyVars>>

WriteRows ==
  /\ phase = "csv"
  /\ csv' = [csv EXCEPT !.rows = rows]
  /\ phase' = "summary"
  /\ UNCHANGED <<inputVars, run, rows, pending, store, log, summary, policyVars>>

OpenSummary ==
  /\ phase = "summary"
  /\ summary' = Cut(run)
  /\ phase' = "write"
  /\ UNCHANGED <<inputVars, run, rows, pending, store, log, csv, policyVars>>

WriteSummary ==
  /\ phase = "write"
  /\ summary' = Whole(run, SummaryOf(series, rows))
  /\ phase' = "ended"
  /\ UNCHANGED <<inputVars, run, rows, pending, store, log, csv, policyVars>>

-----------------------------------------------------------------------------
(* The process dies, or an exception ends it; a store of its own dies with *)
(* it, and of the rows being written a part may have reached the disk.     *)
Crash ==
  /\ phase # "ended"
  /\ phase' = "ended"
  /\ csv' \in IF phase = "csv" THEN {[csv EXCEPT !.rows = table] : table \in Prefixes(rows)}
              ELSE {csv}
  /\ store' = IF redis THEN store ELSE Nothing
  /\ UNCHANGED <<inputVars, run, rows, pending, log, summary, policyVars>>

Reseeded == draws' = 0

RebuildPolicies ==
  /\ m_hazard_history' = << >>
  /\ m_rupture_history' = << >>
  /\ m_consecutive_signals' = 0
  /\ m_cooldown_remaining' = 0
  /\ m_state' = "STABLE"
  /\ m_decision' = Migration!NoDecision
  /\ b_price_history' = [p \in Baselines!Priced |-> << >>]
  /\ b_velocity_history' = << >>
  /\ b_cooldown_remaining' = [p \in Baselines!Policies |-> 0]
  /\ b_action' = [p \in Baselines!Policies |-> "STABLE"]
  /\ Reseeded
  /\ UNCHANGED <<m_config, b_config>>

(* The program is run again with the same configuration.                   *)
Rerun ==
  /\ phase = "ended"
  /\ run < MaxRuns
  /\ run' = run + 1
  /\ series' \in {series} \cup {s \in Series : s.again}
  /\ phase' = "evaluate"
  /\ rows' = << >>
  /\ pending' = "STABLE"
  /\ store' = IF redis THEN store ELSE Nothing
  /\ RebuildPolicies
  /\ UNCHANGED <<replay_config, redis, log, artifacts>>

ReplayInit ==
  /\ series \in Series
  /\ replay_config \in ReplayConfigs
  /\ redis \in BOOLEAN
  /\ run = 1
  /\ phase = "evaluate"
  /\ rows = << >>
  /\ pending = "STABLE"
  /\ store = Nothing
  /\ log = << >>
  /\ csv = [run |-> 0, series |-> series, rows |-> << >>]
  /\ summary = Cut(0)
  /\ draws = 0
  /\ Migration!Init
  /\ Baselines!Init

(* The steps that ask no window of the structural policy.                  *)
Unjudged == \/ WarmupPoint \/ SetState \/ AppendRecord
            \/ OpenCsv \/ WriteRows \/ OpenSummary \/ WriteSummary

ReplayNext == EvaluatePoint \/ Unjudged \/ Crash \/ Rerun

ReplaySpec == ReplayInit /\ [][ReplayNext]_replayVars
=============================================================================
