----------------------------- MODULE ProbeReplay -----------------------------
(***************************************************************************)
(* scripts/llm_probe/replay_routing.py: the probe file is grouped by model *)
(* and every model's samples are replayed, one model after the other,      *)
(* through one LLMRoutingPolicy and one ReactiveRoutingPolicy; then the    *)
(* routings are credited with the failures they came before.               *)
(*                                                                         *)
(* The variables of LLMRoutingPolicy are those of the policy main builds.  *)
(* The encoder is a parameter: Encode gives the latest window of a prefix  *)
(* of the latencies.                                                       *)
(***************************************************************************)
EXTENDS LLMRoutingPolicy, SequencesExt

CONSTANTS
  Inputs,         \* the sequences of records [model, ts, failed, latency] a file may hold
  Encode(_),
  window_points,
  LOOKAHEAD,
  timeout_ms, error_rate_threshold, window_size, Cooldown,
  NoModel

(* Records come in the order of the file, which need not be that of time.  *)
ASSUME RecordsAssumption ==
  /\ LOOKAHEAD \in Int
  /\ \A file \in Inputs : file \in Seq(Range(file)) /\ \A r \in Range(file) : r.ts \in Int

VARIABLES
  input,
  keys,           \* the models still to be replayed
  model,          \* the model being replayed, or NoModel
  rows,
  summaries,      \* what was written for each model replayed
  r_history, r_cooldown_remaining, r_decision

reactiveVars == <<r_history, r_cooldown_remaining, r_decision>>
replayVars == <<vars, input, keys, model, rows, summaries, reactiveVars>>

Samples == [failed : BOOLEAN, latency : Nat]

Reactive == INSTANCE ReactiveRouting WITH
  history <- r_history, cooldown_remaining <- r_cooldown_remaining, decision <- r_decision

-----------------------------------------------------------------------------
(* The samples of a model, in the order of the file.                       *)
Nth(places, k) == CHOOSE i \in places : Cardinality({j \in places : j < i}) = k - 1

ResultsOf(m) ==
  LET mine == {i \in DOMAIN input : input[i].model = m}
  IN [k \in 1 .. Cardinality(mine) |-> input[Nth(mine, k)]]

(* dict keeps its keys in order of first insertion.                        *)
ModelsInOrder(records) ==
  FoldLeft(LAMBDA ms, r : IF Contains(ms, r.model) THEN ms ELSE Append(ms, r.model),
           << >>, records)

(* Ground truth: a failed or a late sample.                                *)
IsEvent(r) == r.failed \/ r.latency >= timeout_ms

(* Mutated form: an event may be credited to several actions.              *)
Creditable_Reused(results, events, used, a) ==
  {e \in events :
     /\ e > a
     /\ results[e].ts - results[a].ts <= LOOKAHEAD}

(* The events an action can still be credited with.                        *)
Creditable(results, events, used, a) ==
  {e \in events :
     /\ e > a
     /\ e \notin used
     /\ results[e].ts - results[a].ts <= LOOKAHEAD}

First(open) == CHOOSE e \in open : \A f \in open : e <= f

(* _analyze_lead_time: each action, in their order, takes the first such   *)
(* event.                                                                  *)
Credits(results, actions, events) ==
  LET Upto[a \in 0 .. Len(results)] ==
        IF a = 0 THEN {}
        ELSE LET before == Upto[a - 1]
                 open == Creditable(results, events, {p[2] : p \in before}, a)
             IN IF a \notin actions \/ open = {} THEN before
                ELSE before \cup {<<a, First(open)>>}
  IN Upto[Len(results)]

LeadTime(results, actions, events) ==
  LET pairs == Credits(results, actions, events)
  IN [action_count   |-> Cardinality(actions),
      matched_events |-> Cardinality(pairs),
      lead_times     |-> {results[p[2]].ts - results[p[1]].ts : p \in pairs}]

-----------------------------------------------------------------------------
(* main takes the next model; both policies stay as the last model left    *)
(* them.                                                                   *)
StartModel ==
  /\ model = NoModel
  /\ keys # << >>
  /\ model' = Head(keys)
  /\ keys' = Tail(keys)
  /\ rows' = << >>
  /\ UNCHANGED <<vars, input, summaries, reactiveVars>>

(* The latencies of this model up to and with the next sample.             *)
Prefix == [i \in 1 .. (Len(rows) + 1) |-> ResultsOf(model)[i].latency]

LatestWindow == Encode(Prefix)

WindowReady == Len(Prefix) >= window_points

(* One sample: the structural policy sees it once a full window is there,  *)
(* the reactive one always.                                                *)
ReplaySample ==
  /\ model # NoModel
  /\ Len(rows) < Len(ResultsOf(model))
  /\ LET r == ResultsOf(model)[Len(rows) + 1]
     IN /\ Reactive!evaluate(r)
        /\ \/ /\ WindowReady
              /\ evaluate(LatestWindow)
              /\ rows' = Append(rows, [struct |-> decision'.action, react |-> r_decision',
                                       failed |-> r.failed, event |-> IsEvent(r)])
           \/ /\ ~WindowReady
              /\ UNCHANGED vars
              /\ rows' = Append(rows, [struct |-> "warmup", react |-> r_decision',
                                       failed |-> r.failed, event |-> IsEvent(r)])
  /\ UNCHANGED <<input, keys, model, summaries>>

(* Lead times of both policies, written under the name of the model.       *)
FinishModel ==
  /\ model # NoModel
  /\ Len(rows) = Len(ResultsOf(model))
  /\ LET results == ResultsOf(model)
         events  == {i \in DOMAIN results : IsEvent(results[i])}
         routes(column) == {i \in DOMAIN results : rows[i][column] = "ROUTE"}
     IN summaries' = summaries \cup
          {[model      |-> model,
            events     |-> events,
            structural |-> LeadTime(results, routes("struct"), events),
            reactive   |-> LeadTime(results, routes("react"), events)]}
  /\ model' = NoModel
  /\ UNCHANGED <<vars, input, keys, rows, reactiveVars>>

ReplayInit ==
  /\ Init
  /\ Reactive!Fresh
  /\ input \in Inputs
  /\ keys = ModelsInOrder(input)
  /\ model = NoModel
  /\ rows = << >>
  /\ summaries = {}

ReplayNext == StartModel \/ ReplaySample \/ FinishModel

ReplaySpec == ReplayInit /\ [][ReplayNext]_replayVars

-----------------------------------------------------------------------------
(* Pairs of a routing and a later event inside the lookahead.              *)
Pairable(results, events) ==
  {p \in (DOMAIN results) \X events :
     p[2] > p[1] /\ results[p[2]].ts - results[p[1]].ts <= LOOKAHEAD}

OneToOne(pairs) == \A p, q \in pairs : p[1] = q[1] <=> p[2] = q[2]

InTimeOrder(results) ==
  \A i, j \in DOMAIN results : i < j => results[i].ts <= results[j].ts

(* The greedy attribution is one to one, and pairs a routing with an event *)
(* behind it inside the lookahead.  In a file in order of time it is       *)
(* maximal: no other way of pairing them so matches more.                  *)
CreditsMaximal ==
  model # NoModel /\ Len(rows) = Len(ResultsOf(model)) =>
    LET results == ResultsOf(model)
        events  == {i \in DOMAIN results : IsEvent(results[i])}
        routed  == {i \in DOMAIN results : rows[i].react = "ROUTE"}
        pairs   == Credits(results, routed, events)
        choices == {p \in Pairable(results, events) : p[1] \in routed}
    IN /\ pairs \subseteq choices
       /\ OneToOne(pairs)
       /\ InTimeOrder(results) =>
            \A more \in kSubset(Cardinality(pairs) + 1, choices) : ~OneToOne(more)

-----------------------------------------------------------------------------
(***************************************************************************)
(* The history of the windows the structural policy of the replay saw,     *)
(* of whatever model they were.                                            *)
(***************************************************************************)

VARIABLES
  quiet,      \* windows since the last ROUTE, up to the cooldown
  signals     \* signal windows since the last plain recovery-band window

windowHistory == <<quiet, signals>>
policyVars == <<vars, windowHistory>>

UpTo(n, limit) == IF n < limit THEN n ELSE limit

Record(w) ==
  /\ quiet' = IF decision'.action = "ROUTE" THEN 0 ELSE UpTo(quiet + 1, config.cooldown_windows)
  /\ signals' = IF signal_detected(w) THEN UpTo(signals + 1, config.min_consecutive_signals)
                ELSE IF InRecoveryBand(w) THEN 0
                ELSE signals

HistoryInit == ReplayInit /\ quiet = config.cooldown_windows /\ signals = 0

HistoryNext ==
  \/ (StartModel \/ FinishModel) /\ UNCHANGED windowHistory
  \/ /\ ReplaySample
     /\ IF WindowReady THEN Record(LatestWindow)
        ELSE UNCHANGED windowHistory

HistorySpec == HistoryInit /\ [][HistoryNext]_<<replayVars, windowHistory>>

-----------------------------------------------------------------------------
(* Short of an emergency, two routings are at least cooldown_windows       *)
(* windows apart, and the second one took the configured number of signals *)
(* since the stream was last inside the recovery band.                     *)
RouteEarned ==
  decision'.action = "ROUTE" /\ ~emergency(decision'.window)
    => /\ quiet + 1 >= config.cooldown_windows
       /\ signals' >= config.min_consecutive_signals

(* Once a degradation was seen, only the recovery band clears it: a stream *)
(* that hovers between the band and the thresholds stays observed.         *)
ClearedInBand ==
  state # "STABLE" /\ state' = "STABLE" => InRecoveryBand(decision'.window)

(* Both hold of every decision of the shared policy, also when the replay  *)
(* goes from one model to the next between two windows.                    *)
DecisionsEarned == [][RouteEarned /\ ClearedInBand]_policyVars
=============================================================================
