------------------------------ MODULE LLMReplay ------------------------------
(***************************************************************************)
(* scripts/llm_routing/replay.py: the probe files are loaded, one metric's *)
(* samples are sorted by time and replayed through both routing policies,  *)
(* and the decisions are written, first the CSV of the rows, then the JSON *)
(* summary.  Both files are overwritten in place, so a process that dies   *)
(* leaves what it had written; the operator runs the program again, on     *)
(* files that may have grown.                                              *)
(*                                                                         *)
(* The variables s_... are those of the structural policy, t_... those of  *)
(* the timeout policy.  Encode, the latest window of a prefix of values,   *)
(* is a parameter.  A file on disk carries the number of the run that      *)
(* wrote it, which the program does not see.                               *)
(***************************************************************************)
EXTENDS RoutingTopology, SequencesExt

CONSTANTS
  Inputs,            \* what the probe files may hold: sequences of lines
  Growth,            \* what may be appended to them between two runs
  StructuralConfigs, TimeoutConfigs,
  Windows, Samples,
  Target,            \* metric_id_to_target of the replayed metric
  Signal(_),         \* value_for_signal of the metric's signal
  Encode(_),
  window_points,
  Damaged,           \* a line that is no probe record
  MaxRuns            \* bound on the runs of the program

(* A line is a record with its time, or damaged.                           *)
ASSUME LinesAssumption ==
  \A file \in Inputs \cup Growth :
    /\ file \in Seq(Range(file))
    /\ \A r \in Range(file) \ {Damaged} : r.ts \in Int

(* The encoder takes the length of a window as an int().                   *)
ASSUME WindowAssumption == window_points \in Int

VARIABLES
  input,             \* the lines of the probe files, in the order they are read
  run, stage,
  samples, rows,
  csv, summary,      \* the two artifacts on disk
  s_config, s_hazard_history, s_rupture_history, s_consecutive_signals,
  s_cooldown_remaining, s_recovery_streak, s_on_fallback, s_decision,
  t_config, t_cooldown_remaining, t_recovery_streak, t_on_fallback, t_decision

structuralVars == <<s_config, s_hazard_history, s_rupture_history, s_consecutive_signals,
                    s_cooldown_remaining, s_recovery_streak, s_on_fallback, s_decision>>
timeoutVars    == <<t_config, t_cooldown_remaining, t_recovery_streak, t_on_fallback, t_decision>>
policyVars     == <<structuralVars, timeoutVars>>
artifacts      == <<csv, summary>>
replayVars     == <<input, run, stage, samples, rows, artifacts, policyVars>>

Structural == INSTANCE StructuralRouting WITH
  Configs <- StructuralConfigs, config <- s_config,
  hazard_history <- s_hazard_history, rupture_history <- s_rupture_history,
  consecutive_signals <- s_consecutive_signals,
  cooldown_remaining <- s_cooldown_remaining,
  recovery_streak <- s_recovery_streak,
  on_fallback <- s_on_fallback, decision <- s_decision

Timeout == INSTANCE TimeoutRouting WITH
  Configs <- TimeoutConfigs, config <- t_config,
  cooldown_remaining <- t_cooldown_remaining,
  recovery_streak <- t_recovery_streak,
  on_fallback <- t_on_fallback, decision <- t_decision

-----------------------------------------------------------------------------
(* load_probe_series                                                       *)

(* The lines about the replayed target, sorted by time; samples of the     *)
(* same time stay in order.                                                *)
Mine == {i \in DOMAIN input : input[i].target = Target}

Before(i, j) == \/ input[i].ts < input[j].ts
                \/ input[i].ts = input[j].ts /\ i < j

Place(i) == Cardinality({j \in Mine : Before(j, i)}) + 1

Series == [k \in 1 .. Cardinality(Mine) |-> input[CHOOSE i \in Mine : Place(i) = k]]

(* A line that does not parse, or no sample at all, ends the program.      *)
LoadFails ==
  /\ stage = "load"
  /\ \/ Damaged \in Range(input)
     \/ \A r \in Range(input) : r # Damaged => r.target # Target
  /\ stage' = "ended"
  /\ UNCHANGED <<input, run, samples, rows, artifacts, policyVars>>

Load ==
  /\ stage = "load"
  /\ Damaged \notin Range(input)
  /\ Series # << >>
  /\ samples' = Series
  /\ stage' = "replay"
  /\ UNCHANGED <<input, run, rows, artifacts, policyVars>>

-----------------------------------------------------------------------------
(* run_replay                                                              *)

(* Mutated form: the encoder is given the whole series.                    *)
Prefix_WholeSeries == [i \in DOMAIN samples |-> Signal(samples[i])]

Prefix == [i \in 1 .. (Len(rows) + 1) |-> Signal(samples[i])]

Current == samples[Len(rows) + 1]

Row(action, target) ==
  [ts |-> Current.ts, structural |-> action, structural_target |-> target,
   timeout |-> t_decision'.action, timeout_target |-> t_decision'.selected_target]

(* Until the first full window the row names the metric's own target.      *)
WarmupSample ==
  /\ stage = "replay"
  /\ Len(rows) < Len(samples)
  /\ Len(rows) + 1 < window_points
  /\ Timeout!evaluate(Current)
  /\ rows' = Append(rows, Row("PRIMARY", Target))
  /\ UNCHANGED <<input, run, stage, samples, artifacts, structuralVars>>

ReplaySample ==
  /\ stage = "replay"
  /\ Len(rows) < Len(samples)
  /\ Len(rows) + 1 >= window_points
  /\ Structural!evaluate(Encode(Prefix))
  /\ Timeout!evaluate(Current)
  /\ rows' = Append(rows, Row(s_decision'.action, s_decision'.selected_target))
  /\ UNCHANGED <<input, run, stage, samples, artifacts>>

-----------------------------------------------------------------------------
(* The artifacts                                                           *)

Routed(table, policy) == {i \in DOMAIN table : table[i][policy] = "ROUTE_FALLBACK"}

(* first_route_index, counted from one: the set of it, empty for None.     *)
FirstRoute(table, policy) ==
  {i \in Routed(table, policy) : \A j \in Routed(table, policy) : i <= j}

(* structural_lead_over_timeout_s, in clock units; none without both.      *)
LeadOverTimeout(table) ==
  {table[t].ts - table[s].ts :
     s \in FirstRoute(table, "structural"), t \in FirstRoute(table, "timeout")}

SummaryOf(table) ==
  [structural_first |-> FirstRoute(table, "structural"),
   timeout_first    |-> FirstRoute(table, "timeout"),
   lead             |-> LeadOverTimeout(table)]

(* The summary on disk: the run that wrote it, and the text, none while it *)
(* is not whole.                                                           *)
Cut(n)      == [run |-> n, whole |-> FALSE, text |-> SummaryOf(<< >>)]
Whole(n, t) == [run |-> n, whole |-> TRUE, text |-> t]

(* Mutated form: the summary is opened and written before the rows.        *)
OpenCsv_AfterSummary ==
  /\ stage = "replay"
  /\ Len(rows) = Len(samples)
  /\ csv' = [run |-> run, rows |-> << >>]
  /\ summary' = Whole(run, SummaryOf(rows))
  /\ stage' = "csv"
  /\ UNCHANGED <<input, run, samples, rows, policyVars>>

OpenCsv ==
  /\ stage = "replay"
  /\ Len(rows) = Len(samples)
  /\ csv' = [run |-> run, rows |-> << >>]
  /\ stage' = "csv"
  /\ UNCHANGED <<input, run, samples, rows, summary, policyVars>>

WriteRow ==
  /\ stage = "csv"
  /\ Len(csv.rows) < Len(rows)
  /\ csv' = [csv EXCEPT !.rows = Append(@, rows[Len(@) + 1])]
  /\ UNCHANGED <<input, run, stage, samples, rows, summary, policyVars>>

OpenSummary ==
  /\ stage = "csv"
  /\ csv.rows = rows
  /\ summary' = Cut(run)
  /\ stage' = "summary"
  /\ UNCHANGED <<input, run, samples, rows, csv, policyVars>>

WriteSummary ==
  /\ stage = "summary"
  /\ summary' = Whole(run, SummaryOf(rows))
  /\ stage' = "ended"
  /\ UNCHANGED <<input, run, samples, rows, csv, policyVars>>

-----------------------------------------------------------------------------
(* The process dies.                                                       *)
Crash ==
  /\ stage # "ended"
  /\ stage' = "ended"
  /\ UNCHANGED <<input, run, samples, rows, artifacts, policyVars>>

(* Both policies are built anew, from the same config.                     *)
RebuildPolicies ==
  /\ s_hazard_history' = << >>
  /\ s_rupture_history' = << >>
  /\ s_consecutive_signals' = 0
  /\ s_cooldown_remaining' = 0
  /\ s_recovery_streak' = 0
  /\ s_on_fallback' = FALSE
  /\ s_decision' = Structural!NoDecision
  /\ t_cooldown_remaining' = 0
  /\ t_recovery_streak' = 0
  /\ t_on_fallback' = FALSE
  /\ t_decision' = Timeout!NoDecision
  /\ UNCHANGED <<s_config, t_config>>

(* The program is run again, with the same config.                         *)
Rerun ==
  /\ stage = "ended"
  /\ run < MaxRuns
  /\ run' = run + 1
  /\ \E more \in Growth : input' = input \o more
  /\ stage' = "load"
  /\ samples' = << >>
  /\ rows' = << >>
  /\ RebuildPolicies
  /\ UNCHANGED artifacts

NoFile == [run |-> 0, rows |-> << >>]

ReplayInit ==
  /\ input \in Inputs
  /\ run = 1
  /\ stage = "load"
  /\ samples = << >>
  /\ rows = << >>
  /\ csv = NoFile
  /\ summary = Cut(0)
  /\ Structural!Init
  /\ Timeout!Init
  /\ s_config.topology = t_config.topology

Replay == \/ Load \/ LoadFails \/ WarmupSample \/ ReplaySample
          \/ OpenCsv \/ WriteRow \/ OpenSummary \/ WriteSummary

ReplayNext == Replay \/ Crash \/ Rerun

ReplaySpec == ReplayInit /\ [][ReplayNext]_replayVars

-----------------------------------------------------------------------------
(***************************************************************************)
(* The properties of the routing replay, with the samples and rows of the  *)
(* run before the current one.                                             *)
(***************************************************************************)

VARIABLE past

historyVars == <<replayVars, past>>

HistoryInit == ReplayInit /\ past = [samples |-> << >>, rows |-> << >>]

HistoryNext ==
  \/ (Replay \/ Crash) /\ UNCHANGED past
  \/ Rerun /\ past' = [samples |-> samples, rows |-> rows]

HistorySpec == HistoryInit /\ [][HistoryNext]_historyVars

-----------------------------------------------------------------------------
(* A decision about a sample depends on the samples before it only, and on *)
(* nothing a former run left: running again on files that have grown at    *)
(* the end repeats every row the last run had computed.                    *)
RowsReproducible ==
  IsPrefix(past.samples, samples) =>
    \A i \in DOMAIN rows \cap DOMAIN past.rows : rows[i] = past.rows[i]

(* Whatever run died where, a summary that is whole on disk is never of a  *)
(* newer run than the rows, and when it is of the same run it is the       *)
(* summary of exactly the rows on disk.                                    *)
SummaryNeverAhead ==
  summary.whole =>
    /\ summary.run <= csv.run
    /\ summary.run = csv.run => summary.text = SummaryOf(csv.rows)

(* The reported lead has the sign of the order in the table: a positive    *)
(* one means that the structural policy routed on an earlier row, whatever *)
(* order the files held the samples in.                                    *)
LeadMeansEarlierRow ==
  \A lead \in summary.text.lead,
     s \in summary.text.structural_first, t \in summary.text.timeout_first :
    /\ lead > 0 => s < t
    /\ lead < 0 => t < s

(* A whole summary tells of the rows beside it, and of their order.        *)
SummaryTellsTheRows == SummaryNeverAhead /\ LeadMeansEarlierRow
=============================================================================
