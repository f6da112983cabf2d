-------------------------- MODULE SpotReplayHistory --------------------------
(***************************************************************************)
(* The properties of the spot replay, with the history of its structural   *)
(* policy.                                                                 *)
(***************************************************************************)
EXTENDS SpotReplay

VARIABLES quiet, signals

windowHistory == <<quiet, signals>>
historyVars == <<replayVars, windowHistory>>

Drained == INSTANCE MigrationHistory WITH
  Configs <- MigrationConfigs, config <- m_config,
  hazard_history <- m_hazard_history, rupture_history <- m_rupture_history,
  consecutive_signals <- m_consecutive_signals, cooldown_remaining <- m_cooldown_remaining,
  state <- m_state, decision <- m_decision

HistoryInit == ReplayInit /\ Drained!NothingYet

HistoryNext ==
  \/ EvaluatePoint /\ Drained!Record(m_decision'.window)
  \/ (Unjudged \/ Crash) /\ UNCHANGED windowHistory
  \/ /\ Rerun
     /\ quiet' = m_config.cooldown_windows
     /\ signals' = 0

HistorySpec == HistoryInit /\ [][HistoryNext]_historyVars

-----------------------------------------------------------------------------
Older(x, y) == \/ x.run < y.run
               \/ x.run = y.run /\ x.index < y.index

(* The store is set before the record is appended: whatever run died       *)
(* between the two, the shared store never describes an older execution    *)
(* than the last record of the log, and equals it between two points.      *)
StoreNeverBehindLog ==
  /\ log # << >> /\ store # Nothing => ~Older(store, Last(log))
  /\ log # << >> /\ redis => store # Nothing
  /\ phase = "evaluate" /\ rows # << >> => store = Last(log)

(* The CSV is written by a run that has executed all of it: every row on   *)
(* disk has its record in the log with the row's action and state, though  *)
(* the log is shared with runs that died and with other series.            *)
CsvIsLogged ==
  \A i \in DOMAIN csv.rows : \E k \in DOMAIN log :
    log[k] = [run |-> csv.run, index |-> i,
              last_action |-> csv.rows[i].action["spotfsm"], state |-> csv.rows[i].state]

(* A whole summary on disk is never of a newer run than the rows, and when *)
(* it is of the same run it reports exactly the rows on disk.              *)
SummaryNeverAhead ==
  summary.whole =>
    /\ summary.run <= csv.run
    /\ summary.run = csv.run => summary.text = SummaryOf(csv.series, csv.rows)

(* Rows and summary on disk are in order with the executions and with one  *)
(* another.                                                                *)
ArtifactsInOrder == CsvIsLogged /\ SummaryNeverAhead

(* The structural policy spaces its migrations and earns each.             *)
MigrationsEarned == Drained!MigrationsEarned

-----------------------------------------------------------------------------
(* The report                                                              *)

(* What the scan for inferred events amounts to: the events follow one     *)
(* another without overlap, each is the first spike of its anchor, and no  *)
(* point outside them is followed by a spike within the lookahead.         *)
EventsAreSpikes ==
  LET found == detect_price_spike_events(points, replay_config)
      Covered == UNION {found[k].anchor_index .. found[k].event_index : k \in DOMAIN found}
  IN /\ \A k \in DOMAIN found :
          /\ found[k].event_index \in Spikes(points, found[k].anchor_index, replay_config)
          /\ \A i \in Spikes(points, found[k].anchor_index, replay_config) :
               found[k].event_index <= i
          /\ k > 1 => found[k - 1].event_index < found[k].anchor_index
     /\ \A i \in DOMAIN points \ Covered : Spikes(points, i, replay_config) = {}

Sorted == \A i, j \in DOMAIN points : i < j => points[i].ts <= points[j].ts

Lookback == replay_config.event_attribution_lookback_points

(* In a series in time order no migration gets credit for an interruption  *)
(* notice that was out when it was decided, although the notice is moved   *)
(* to the closest point, which may be a later one.                         *)
CreditPrecedesNotice ==
  series.notices # Inferred /\ Sorted =>
    \A p \in ReplayPolicies :
      \A k \in MatchedEvents(Events, Migrations(rows, p), Lookback) :
        points[ChosenAction(Events[k], Migrations(rows, p), Lookback)].ts < series.notices[k]

(* A migration is credited once, so that no more events are avoided than   *)
(* migrations made and the reported precision is at most one, as long as   *)
(* the events are a lookback apart.                                        *)
Apart ==
  \A j, k \in DOMAIN Events : j # k =>
    Distance(Events[j].event_index, Events[k].event_index) >= Lookback

CreditedOnce ==
  Apart => \A p \in ReplayPolicies :
    LET actions == Migrations(rows, p)
    IN /\ Cardinality(MatchedEvents(Events, actions, Lookback))
            = Cardinality(AssignedActions(Events, actions, Lookback))
       /\ Cardinality(MatchedEvents(Events, actions, Lookback)) <= Cardinality(actions)

(* What is credited to a policy is a migration that came in time, once.    *)
CreditsSound == CreditPrecedesNotice /\ CreditedOnce
=============================================================================
