---------------------------- MODULE SpotReplayProofs ----------------------------
(***************************************************************************)
(* Proofs about SpotReplayHistory, for all series, windows and policies,   *)
(* any number of points and of runs.                                       *)
(***************************************************************************)
EXTENDS SpotReplayHistory, FiniteSetTheorems, NaturalsInduction, WellFoundedInduction, TLAPS

Typed ==
  /\ run \in Nat
  /\ pending \in Migration!Actions
  /\ log \in Seq(Executions)
  /\ store \in Executions \cup {Nothing}
  /\ \E S : rows \in Seq(S)

(* The last record is no newer than the last row; between the two steps of *)
(* the operator the store is ahead by the execution under way.             *)
StoreInv ==
  /\ log # << >> => \/ Last(log).run < run
                    \/ Last(log).run = run /\ Last(log).index <= Len(rows)
  /\ phase = "log" => store = Executed(pending)
  /\ StoreNeverBehindLog

LoggedAs(records, i, number, row) ==
  \E k \in DOMAIN records :
    records[k] = [run |-> number, index |-> i,
              last_action |-> row.action["spotfsm"], state |-> row.state]

(* The rows of this run and those on disk are in the log, and what is on   *)
(* disk is of an older run until this one opens it.                        *)
DiskInv ==
  /\ \A i \in DOMAIN rows : LoggedAs(log, i, run, rows[i])
  /\ \A i \in DOMAIN csv.rows : LoggedAs(log, i, csv.run, csv.rows[i])
  /\ csv.run \in Nat /\ summary.run \in Nat
  /\ summary.run <= csv.run /\ csv.run <= run
  /\ phase \in {"evaluate", "execute", "log"} => csv.run < run
  /\ phase = "csv" => csv = [run |-> run, series |-> series, rows |-> << >>] /\ summary.run < run
  /\ phase = "summary" => summary.run < run
  /\ phase \in {"summary", "write"} => csv = [run |-> run, series |-> series, rows |-> rows]
  /\ SummaryNeverAhead

IInv == Typed /\ StoreInv /\ DiskInv

(* The first run finds an empty log and an empty disk.                     *)
LEMMA InitIInv == ReplayInit => IInv
<1> SUFFICES ASSUME ReplayInit PROVE IInv
  OBVIOUS
<1>1. << >> \in Seq(Executions) /\ << >> \in Seq({})
  OBVIOUS
<1>2. Typed
  BY <1>1 DEF ReplayInit, Typed, Migration!Actions
<1>3. StoreInv
  BY DEF ReplayInit, StoreInv, StoreNeverBehindLog
<1>4. DiskInv
  BY DEF ReplayInit, DiskInv, SummaryNeverAhead, Cut
<1>5. QED
  BY <1>2, <1>3, <1>4 DEF IInv

(* What the operator writes is an execution, and so it is something.       *)
LEMMA ExecutedType ==
  ASSUME Typed
  PROVE  Executed(pending) \in Executions /\ Executed(pending) # Nothing
<1>1. idx \in Nat /\ run \in Nat /\ pending \in {"STABLE", "OBSERVE", "MIGRATE"}
  BY DEF Typed, idx, Migration!Actions
<1>2. WorkloadState(pending) \in {"STABLE", "HAZARD_DETECTED", "MIGRATING"}
  BY <1>1 DEF WorkloadState
<1>3. Executed(pending) \in Executions
  BY <1>1, <1>2 DEF Executed, Executions
<1>4. QED
  BY <1>3, NothingAssumption

(* A step that writes neither store nor log nor disk.                      *)
LEMMA EvaluateIInv ==
  ASSUME IInv, WarmupPoint \/ EvaluatePoint
  PROVE  IInv'
<1>1. /\ UNCHANGED <<inputVars, run, rows, store, log, artifacts>>
      /\ phase = "evaluate" /\ phase' = "execute"
  BY DEF WarmupPoint, EvaluatePoint
<1>2. pending' \in Migration!Actions
  <2>1. CASE WarmupPoint
    BY <2>1 DEF WarmupPoint, Migration!Actions
  <2>2. CASE EvaluatePoint
    BY <2>2 DEF EvaluatePoint, Migration!evaluate, Migration!Migrate, Migration!Observe,
       Migration!Relax, Migration!Conclude, Migration!Actions
  <2>3. QED
    BY <2>1, <2>2
<1>3. Typed'
  BY <1>1, <1>2 DEF IInv, Typed
<1>4. StoreInv'
  BY <1>1 DEF IInv, StoreInv, StoreNeverBehindLog, inputVars
<1>5. DiskInv'
  BY <1>1 DEF IInv, DiskInv, LoggedAs, SummaryNeverAhead, inputVars, artifacts,
     SummaryOf, EventsOf
<1>6. QED
  BY <1>3, <1>4, <1>5 DEF IInv

(* The store is set to an execution newer than every record of the log.    *)
LEMMA SetStateIInv ==
  ASSUME IInv, SetState
  PROVE  IInv'
<1>1. /\ UNCHANGED <<inputVars, run, rows, pending, log, artifacts>>
      /\ phase = "execute" /\ phase' = "log" /\ store' = Executed(pending)
  BY DEF SetState
<1>2. Executed(pending) \in Executions /\ Executed(pending) # Nothing
  BY ExecutedType DEF IInv
<1>3. Typed'
  BY <1>1, <1>2 DEF IInv, Typed
<1>4. Executed(pending)' = Executed(pending)
  BY <1>1 DEF Executed, idx
<1>5. StoreInv'
  <2>1. Executed(pending).run = run /\ Executed(pending).index = Len(rows) + 1
    BY DEF Executed, idx
  <2>2. run \in Nat /\ Len(rows) \in Nat
    BY DEF IInv, Typed
  <2>3. log # << >> => Last(log) \in Executions
    BY DEF IInv, Typed, Last
  <2>4. log # << >> => Last(log).run \in Nat /\ Last(log).index \in Nat
    BY <2>3 DEF Executions
  <2>5. log # << >> => ~Older(Executed(pending), Last(log))
    BY <2>1, <2>2, <2>4 DEF IInv, StoreInv, Older
  <2>6. StoreNeverBehindLog'
    BY <1>1, <1>2, <2>5 DEF StoreNeverBehindLog
  <2>7. QED
    BY <1>1, <1>4, <2>6 DEF IInv, StoreInv
<1>6. DiskInv'
  BY <1>1 DEF IInv, DiskInv, LoggedAs, SummaryNeverAhead, inputVars, artifacts,
     SummaryOf, EventsOf
<1>7. QED
  BY <1>3, <1>5, <1>6 DEF IInv

(* The record of what the store holds goes to the log, and makes the row.  *)
LEMMA AppendRecordIInv ==
  ASSUME IInv, AppendRecord
  PROVE  IInv'
<1> DEFINE record == Executed(pending)
           row == Row
<1>1. /\ UNCHANGED <<inputVars, run, store, artifacts>>
      /\ phase = "log" /\ phase' = "evaluate"
      /\ log' = Append(log, record) /\ rows' = Append(rows, row) /\ pending' = "STABLE"
  BY DEF AppendRecord, Logged
<1>2. record \in Executions /\ record # Nothing /\ store = record
  BY <1>1, ExecutedType DEF IInv, StoreInv
<1>3. /\ record.run = run /\ record.index = Len(rows) + 1
      /\ record = [run |-> run, index |-> Len(rows) + 1,
                   last_action |-> row.action["spotfsm"], state |-> row.state]
  BY DEF Executed, Row, ReplayPolicies, idx
<1> HIDE DEF record, row
<1>4. PICK S : rows \in Seq(S)
  BY DEF IInv, Typed
<1>5. /\ rows \in Seq(S \cup {row}) /\ log \in Seq(Executions) /\ run \in Nat
      /\ Len(rows) \in Nat /\ Len(log) \in Nat
  BY <1>4 DEF IInv, Typed
<1>6. /\ rows' \in Seq(S \cup {row}) /\ DOMAIN rows' = 1 .. Len(rows) + 1
      /\ Len(rows') = Len(rows) + 1 /\ rows'[Len(rows) + 1] = row
      /\ DOMAIN rows = 1 .. Len(rows)
      /\ \A i \in DOMAIN rows : rows'[i] = rows[i]
  BY <1>1, <1>5
<1>7. /\ log' \in Seq(Executions) /\ DOMAIN log' = 1 .. Len(log) + 1
      /\ Len(log') = Len(log) + 1 /\ log'[Len(log) + 1] = record
      /\ DOMAIN log = 1 .. Len(log)
      /\ \A k \in DOMAIN log : log'[k] = log[k]
  BY <1>1, <1>2, <1>5
<1>8. Last(log') = record
  BY <1>7 DEF Last
<1>9. Typed'
  BY <1>1, <1>6, <1>7 DEF IInv, Typed, Migration!Actions
<1>10. StoreInv'
  <2>1. ~Older(record, record)
    BY <1>3, <1>5 DEF Older
  <2>2. StoreNeverBehindLog'
    BY <1>1, <1>2, <1>8, <2>1 DEF StoreNeverBehindLog
  <2>3. Last(log').run = run' /\ Last(log').index <= Len(rows')
    BY <1>1, <1>3, <1>5, <1>6, <1>8
  <2>4. QED
    BY <1>1, <2>2, <2>3 DEF StoreInv
<1>11. DiskInv'
  <2>1. ASSUME NEW i, NEW number, NEW one, LoggedAs(log, i, number, one)
        PROVE  LoggedAs(log', i, number, one)
    BY <1>5, <1>7, <2>1 DEF LoggedAs
  <2>2. ASSUME NEW i \in DOMAIN rows' PROVE LoggedAs(log', i, run, rows'[i])
    <3>1. CASE i \in DOMAIN rows
      BY <1>6, <2>1, <3>1 DEF IInv, DiskInv
    <3>2. CASE i = Len(rows) + 1
      <4>1. Len(log) + 1 \in DOMAIN log'
        BY <1>5, <1>7
      <4>2. QED
        BY <1>1, <1>3, <1>6, <1>7, <3>2, <4>1 DEF LoggedAs
    <3>3. QED
      BY <1>5, <1>6, <3>1, <3>2
  <2>3. \A i \in DOMAIN csv.rows : LoggedAs(log', i, csv.run, csv.rows[i])
    BY <2>1 DEF IInv, DiskInv
  <2>4. SummaryNeverAhead'
    BY <1>1 DEF IInv, DiskInv, SummaryNeverAhead, inputVars, artifacts, SummaryOf, EventsOf
  <2>5. QED
    BY <1>1, <2>2, <2>3, <2>4 DEF IInv, DiskInv, LoggedAs, inputVars, artifacts
<1>12. QED
  BY <1>9, <1>10, <1>11 DEF IInv

-----------------------------------------------------------------------------
(* Writing the artifacts, in order, touches neither store nor log.         *)
LEMMA ArtifactsIInv ==
  ASSUME IInv, OpenCsv \/ WriteRows \/ OpenSummary \/ WriteSummary
  PROVE  IInv'
<1>1. /\ UNCHANGED <<inputVars, run, rows, pending, store, log>>
      /\ phase' \in {"csv", "summary", "write", "ended"}
  BY DEF OpenCsv, WriteRows, OpenSummary, WriteSummary
<1>2. Typed' /\ StoreInv'
  BY <1>1 DEF IInv, Typed, StoreInv, StoreNeverBehindLog, inputVars
<1>3. run \in Nat /\ csv.run \in Nat /\ summary.run \in Nat
  BY DEF IInv, Typed, DiskInv
<1>4. \A i \in DOMAIN rows' : LoggedAs(log, i, run, rows[i])'
  BY <1>1 DEF IInv, DiskInv, LoggedAs
<1>5. CASE OpenCsv
  <2>1. /\ phase = "evaluate" /\ phase' = "csv" /\ UNCHANGED summary
        /\ csv' = [run |-> run, series |-> series, rows |-> << >>]
    BY <1>5 DEF OpenCsv
  <2>2. summary.run < run
    BY <1>3, <2>1 DEF IInv, DiskInv
  <2>3. SummaryNeverAhead'
    BY <1>1, <1>3, <2>1, <2>2 DEF SummaryNeverAhead, inputVars
  <2>4. csv'.run = run /\ DOMAIN csv'.rows = {}
    BY <2>1
  <2>5. DiskInv'
    BY <1>1, <1>3, <1>4, <2>1, <2>2, <2>3, <2>4 DEF DiskInv, LoggedAs, inputVars
  <2>6. QED
    BY <1>2, <2>5 DEF IInv
<1>6. CASE WriteRows
  <2>1. /\ phase = "csv" /\ phase' = "summary" /\ UNCHANGED summary
        /\ csv = [run |-> run, series |-> series, rows |-> << >>] /\ summary.run < run
        /\ csv' = [run |-> run, series |-> series, rows |-> rows]
    BY <1>6 DEF WriteRows, IInv, DiskInv
  <2>2. SummaryNeverAhead'
    BY <1>1, <1>3, <2>1 DEF SummaryNeverAhead, inputVars
  <2>3. csv'.run = run /\ csv'.rows = rows
    BY <2>1
  <2>4. DiskInv'
    BY <1>1, <1>3, <1>4, <2>1, <2>2, <2>3 DEF DiskInv, LoggedAs, inputVars
  <2>5. QED
    BY <1>2, <2>4 DEF IInv
<1>7. CASE OpenSummary \/ WriteSummary
  <2>1. /\ UNCHANGED csv
        /\ csv = [run |-> run, series |-> series, rows |-> rows]
        /\ \/ phase' = "write" /\ summary' = Cut(run)
           \/ phase' = "ended" /\ summary' = Whole(run, SummaryOf(series, rows))
    BY <1>7 DEF OpenSummary, WriteSummary, IInv, DiskInv
  <2>2. /\ csv.run = run /\ csv.series = series /\ csv.rows = rows
        /\ summary'.run = run
        /\ summary'.whole => summary'.text = SummaryOf(series, rows)
    BY <2>1 DEF Cut, Whole
  <2>3. SummaryOf(series, rows)' = SummaryOf(series, rows)
    BY <1>1 DEF SummaryOf, EventsOf, inputVars
  <2>4. SummaryOf(csv.series, csv.rows)' = SummaryOf(series, rows)
    BY <1>1, <2>1, <2>2 DEF SummaryOf, EventsOf, inputVars
  <2>5. SummaryNeverAhead'
    BY <1>1, <1>3, <2>1, <2>2, <2>4 DEF SummaryNeverAhead
  <2>6. DiskInv'
    BY <1>1, <1>3, <1>4, <2>1, <2>2, <2>5 DEF DiskInv, LoggedAs, inputVars
  <2>7. QED
    BY <1>2, <2>6 DEF IInv
<1>8. QED
  BY <1>5, <1>6, <1>7

(* A crash leaves a part of the rows on disk, and may take the store.      *)
LEMMA CrashIInv ==
  ASSUME IInv, Crash
  PROVE  IInv'
<1>1. /\ UNCHANGED <<inputVars, run, rows, pending, log, summary>>
      /\ phase' = "ended" /\ store' = IF redis THEN store ELSE Nothing
      /\ csv' \in IF phase = "csv" THEN {[csv EXCEPT !.rows = table] : table \in Prefixes(rows)}
                  ELSE {csv}
  BY DEF Crash
<1>2. Typed'
  BY <1>1 DEF IInv, Typed
<1>3. StoreInv'
  BY <1>1 DEF IInv, StoreInv, StoreNeverBehindLog, inputVars
<1>4. CASE phase = "csv"
  <2>1. /\ csv = [run |-> run, series |-> series, rows |-> << >>] /\ summary.run < run
        /\ run \in Nat /\ summary.run \in Nat
    BY <1>4 DEF IInv, Typed, DiskInv
  <2>2. PICK table \in Prefixes(rows) : csv' = [run |-> run, series |-> series, rows |-> table]
    BY <1>1, <1>4, <2>1
  <2>3. PICK S : rows \in Seq(S)
    BY DEF IInv, Typed
  <2>4. DOMAIN table \subseteq DOMAIN rows /\ \A i \in DOMAIN table : table[i] = rows[i]
    <3>1. PICK n \in 0 .. Len(rows) : table = SubSeq(rows, 1, n)
      BY <2>3 DEF Prefixes
    <3>2. table = [i \in 1 .. n |-> rows[i]]
      BY <2>3, <3>1
    <3>3. QED
      BY <2>3, <3>2
  <2>5. csv'.run = run /\ csv'.rows = table
    BY <2>2
  <2>6. SummaryNeverAhead'
    BY <1>1, <2>1, <2>5 DEF SummaryNeverAhead
  <2>7. \A i \in DOMAIN csv'.rows : LoggedAs(log, i, csv.run, csv.rows[i])'
    BY <1>1, <2>4, <2>5 DEF IInv, DiskInv, LoggedAs
  <2>8. DiskInv'
    BY <1>1, <2>1, <2>5, <2>6, <2>7 DEF IInv, DiskInv, LoggedAs
  <2>9. QED
    BY <1>2, <1>3, <2>8 DEF IInv
<1>5. CASE phase # "csv"
  <2>1. UNCHANGED csv
    BY <1>1, <1>5
  <2>2. SummaryNeverAhead'
    BY <1>1, <2>1 DEF IInv, DiskInv, SummaryNeverAhead, inputVars, SummaryOf, EventsOf
  <2>3. DiskInv'
    BY <1>1, <2>1, <2>2 DEF IInv, DiskInv, LoggedAs
  <2>4. QED
    BY <1>2, <1>3, <2>3 DEF IInv
<1>6. QED
  BY <1>4, <1>5

(* A run starts with no rows and what the others left.                     *)
LEMMA RerunIInv ==
  ASSUME IInv, Rerun
  PROVE  IInv'
<1>1. /\ UNCHANGED <<replay_config, redis, log, artifacts>>
      /\ run' = run + 1 /\ phase' = "evaluate" /\ rows' = << >> /\ pending' = "STABLE"
      /\ store' = IF redis THEN store ELSE Nothing
  BY DEF Rerun
<1>2. /\ run \in Nat /\ csv.run \in Nat /\ csv.run <= run
  BY DEF IInv, Typed, DiskInv
<1>3. Typed'
  <2>1. << >> \in Seq({})
    OBVIOUS
  <2>2. QED
    BY <1>1, <1>2, <2>1 DEF IInv, Typed, Migration!Actions
<1>4. StoreInv'
  <2>1. log # << >> => Last(log) \in Executions
    BY DEF IInv, Typed, Last
  <2>2. log # << >> => Last(log).run < run + 1
    BY <1>2, <2>1 DEF IInv, StoreInv, Executions
  <2>3. StoreNeverBehindLog'
    BY <1>1 DEF IInv, StoreInv, StoreNeverBehindLog
  <2>4. QED
    BY <1>1, <2>2, <2>3 DEF StoreInv
<1>5. DiskInv'
  <2>1. SummaryNeverAhead'
    BY <1>1 DEF IInv, DiskInv, SummaryNeverAhead, artifacts, SummaryOf, EventsOf
  <2>2. \A i \in DOMAIN csv.rows : LoggedAs(log, i, csv.run, csv.rows[i])'
    BY <1>1 DEF IInv, DiskInv, LoggedAs, artifacts
  <2>3. csv.run < run + 1 /\ csv.run <= run + 1
    BY <1>2
  <2>4. QED
    BY <1>1, <2>1, <2>2, <2>3 DEF IInv, DiskInv, LoggedAs, artifacts
<1>6. QED
  BY <1>3, <1>4, <1>5 DEF IInv

-----------------------------------------------------------------------------
(* The invariant holds in every reachable state.                           *)
LEMMA Invariant == HistorySpec => []IInv
<1>1. HistoryInit => IInv
  BY InitIInv DEF HistoryInit
<1>2. IInv /\ [HistoryNext]_historyVars => IInv'
  <2>1. IInv /\ UNCHANGED historyVars => IInv'
    BY DEF IInv, Typed, StoreInv, StoreNeverBehindLog, DiskInv, LoggedAs, SummaryNeverAhead,
       SummaryOf, EventsOf, Executed, idx, historyVars, replayVars, inputVars, artifacts
  <2>2. HistoryNext => EvaluatePoint \/ Unjudged \/ Crash \/ Rerun
    BY DEF HistoryNext
  <2>3. QED
    BY <2>1, <2>2, EvaluateIInv, SetStateIInv, AppendRecordIInv, ArtifactsIInv, CrashIInv, RerunIInv
       DEF Unjudged
<1>3. QED
  BY <1>1, <1>2, PTL DEF HistorySpec

(* Wherever a run dies, the store it shares is never behind the log.       *)
THEOREM StoreKeepsUp == HistorySpec => []StoreNeverBehindLog
<1>1. IInv => StoreNeverBehindLog
  BY DEF IInv, StoreInv
<1>2. QED
  BY <1>1, Invariant, PTL

(* The rows on disk have been executed, and a whole summary is of them or  *)
(* of an older run.                                                        *)
THEOREM ArtifactsStayInOrder == HistorySpec => []ArtifactsInOrder
<1>1. IInv => ArtifactsInOrder
  BY DEF IInv, DiskInv, LoggedAs, ArtifactsInOrder, CsvIsLogged
<1>2. QED
  BY <1>1, Invariant, PTL

-----------------------------------------------------------------------------
(* What the structural policy counts, tied to what it was given: the       *)
(* cooldown is what is left of it since the last migration, and the count  *)
(* of signals is below the signals since the last calm window.             *)
CountsInv ==
  /\ m_config \in MigrationConfigs
  /\ m_consecutive_signals \in Nat
  /\ signals \in 0 .. m_config.min_consecutive_signals
  /\ Drained!UpTo(m_consecutive_signals, m_config.min_consecutive_signals) <= signals
  /\ quiet \in 0 .. m_config.cooldown_windows
  /\ m_cooldown_remaining = m_config.cooldown_windows - quiet

(* The policy and its history count and rank alike.                        *)
LEMMA SameCount ==
  ASSUME NEW s
  PROVE  Migration!DoubleMedian(s) = Drained!DoubleMedian(s)
<1>1. \A S : Migration!Cardinality(S) = Drained!Cardinality(S)
  BY DEF Migration!Cardinality, Drained!Cardinality
<1>2. QED
  BY <1>1 DEF Migration!DoubleMedian, Drained!DoubleMedian, Migration!Ranked, Drained!Ranked

(* The policy and its history see the same signals.                        *)
LEMMA SameWindow ==
  ASSUME NEW w
  PROVE  /\ Migration!signal_detected(w) <=> Drained!signal_detected(w)
         /\ Migration!InRecoveryBand(w) <=> Drained!InRecoveryBand(w)
         /\ Migration!emergency(w) <=> Drained!emergency(w)
<1>1. Migration!hazard_delta(w) = Drained!hazard_delta(w)
  BY SameCount DEF Migration!hazard_delta, Drained!hazard_delta,
     Migration!DoubleDelta, Drained!DoubleDelta
<1>2. Migration!rupture_delta(w) = Drained!rupture_delta(w)
  BY SameCount DEF Migration!rupture_delta, Drained!rupture_delta,
     Migration!DoubleDelta, Drained!DoubleDelta
<1>3. Migration!signal_detected(w) <=> Drained!signal_detected(w)
  BY <1>1, <1>2 DEF Migration!signal_detected, Drained!signal_detected
<1>4. Migration!InRecoveryBand(w) <=> Drained!InRecoveryBand(w)
  BY DEF Migration!InRecoveryBand, Drained!InRecoveryBand
<1>5. Migration!emergency(w) <=> Drained!emergency(w)
  BY DEF Migration!emergency, Drained!emergency
<1>6. QED
  BY <1>3, <1>4, <1>5

Earned ==
  m_decision'.action = "MIGRATE" /\ ~Drained!emergency(m_decision'.window)
  => /\ quiet + 1 >= m_config.cooldown_windows
     /\ signals' >= m_config.min_consecutive_signals

(* An evaluation keeps the counts, and if it migrates has earned it.       *)
LEMMA EvaluateCounts ==
  ASSUME CountsInv, NEW w, Migration!evaluate(w), Drained!Record(w)
  PROVE  CountsInv' /\ Earned
<1> DEFINE minimum == m_config.min_consecutive_signals
           cooldown == m_config.cooldown_windows
<1>1. PICK action \in {"MIGRATE", "OBSERVE", "STABLE"} :
        /\ Migration!Conclude(w, action)
        /\ action = "MIGRATE" => Migration!Migrates(w)
  BY DEF Migration!evaluate, Migration!Migrate, Migration!Observe, Migration!Relax
<1>2. /\ m_config' = m_config
      /\ m_consecutive_signals' = Migration!SignalsAfter(w)
      /\ m_cooldown_remaining' = IF action = "MIGRATE" THEN cooldown ELSE Migration!CooledDown
      /\ m_decision' = [action |-> action, window |-> w]
  BY <1>1 DEF Migration!Conclude
<1>3. m_decision'.action = action /\ m_decision'.window = w
  BY <1>2
<1>4. /\ minimum \in Nat /\ cooldown \in Nat /\ m_consecutive_signals \in Nat
      /\ signals \in 0 .. minimum /\ quiet \in 0 .. cooldown
      /\ m_cooldown_remaining = cooldown - quiet
      /\ Drained!UpTo(m_consecutive_signals, minimum) <= signals
  BY MigrationAssumption DEF CountsInv
<1>5. /\ quiet' = IF action = "MIGRATE" THEN 0 ELSE Drained!UpTo(quiet + 1, cooldown)
      /\ signals' = IF Drained!signal_detected(w) THEN Drained!UpTo(signals + 1, minimum)
                    ELSE IF Drained!InRecoveryBand(w) THEN 0 ELSE signals
  BY <1>3 DEF Drained!Record
<1>6. Migration!CooledDown = IF cooldown - quiet > 0 THEN cooldown - quiet - 1 ELSE 0
  BY <1>4 DEF Migration!CooledDown
<1> DEFINE detected == Migration!signal_detected(w)
           calm == Migration!InRecoveryBand(w)
<1>7. /\ detected <=> Drained!signal_detected(w)
      /\ calm <=> Drained!InRecoveryBand(w)
      /\ Migration!emergency(w) <=> Drained!emergency(w)
  BY SameWindow
<1>8. Migration!SignalsAfter(w) = IF detected THEN m_consecutive_signals + 1
                                  ELSE IF calm \/ m_consecutive_signals = 0 THEN 0
                                  ELSE m_consecutive_signals - 1
  BY DEF Migration!SignalsAfter
<1> HIDE DEF minimum, cooldown, detected, calm
<1>9. quiet' \in 0 .. cooldown /\ m_cooldown_remaining' = cooldown - quiet'
  BY <1>2, <1>4, <1>5, <1>6 DEF Drained!UpTo
<1>10. /\ m_consecutive_signals' \in Nat /\ signals' \in 0 .. minimum
       /\ Drained!UpTo(m_consecutive_signals', minimum) <= signals'
  <2>1. CASE detected
    BY <1>2, <1>4, <1>5, <1>7, <1>8, <2>1 DEF Drained!UpTo
  <2>2. CASE ~detected /\ calm
    BY <1>2, <1>4, <1>5, <1>7, <1>8, <2>2 DEF Drained!UpTo
  <2>3. CASE ~detected /\ ~calm
    BY <1>2, <1>4, <1>5, <1>7, <1>8, <2>3 DEF Drained!UpTo
  <2>4. QED
    BY <2>1, <2>2, <2>3
<1>11. CountsInv'
  BY <1>2, <1>9, <1>10 DEF CountsInv, minimum, cooldown, Drained!UpTo
<1>12. ASSUME action = "MIGRATE", ~Drained!emergency(w)
       PROVE  quiet + 1 >= cooldown /\ signals' >= minimum
  <2>1. Migration!SignalsAfter(w) >= minimum /\ Migration!CooledDown = 0
    BY <1>1, <1>7, <1>12 DEF Migration!Migrates, minimum
  <2>2. quiet + 1 >= cooldown
    BY <1>4, <1>6, <2>1
  <2>3. signals' >= minimum
    BY <1>2, <1>4, <1>10, <2>1 DEF Drained!UpTo
  <2>4. QED
    BY <2>2, <2>3
<1>13. Earned
  BY <1>3, <1>12 DEF Earned, minimum, cooldown
<1>14. QED
  BY <1>11, <1>13

(* Whatever the series, the spot policy spaces its migrations by its       *)
(* cooldown and earns each, short of an emergency.                         *)
THEOREM MigrationsAreEarned == HistorySpec => MigrationsEarned
<1>1. HistoryInit => CountsInv
  <2> SUFFICES ASSUME HistoryInit PROVE CountsInv
    OBVIOUS
  <2>1. /\ m_config \in MigrationConfigs
        /\ m_consecutive_signals = 0 /\ m_cooldown_remaining = 0
        /\ quiet = m_config.cooldown_windows /\ signals = 0
    BY DEF HistoryInit, ReplayInit, Migration!Init, Migration!Fresh, Drained!NothingYet
  <2>2. m_config.cooldown_windows \in Nat /\ m_config.min_consecutive_signals \in Nat
    BY <2>1, MigrationAssumption
  <2>3. QED
    BY <2>1, <2>2 DEF CountsInv, Drained!UpTo
<1>2. CountsInv /\ [HistoryNext]_historyVars
      => CountsInv' /\ [Earned]_(Drained!historyVars)
  <2> SUFFICES ASSUME CountsInv, [HistoryNext]_historyVars
               PROVE  CountsInv' /\ [Earned]_(Drained!historyVars)
    OBVIOUS
  <2>1. CASE EvaluatePoint /\ Drained!Record(m_decision'.window)
    <3>1. PICK w : Migration!evaluate(w)
      BY <2>1 DEF EvaluatePoint
    <3>2. m_decision'.window = w
      BY <3>1 DEF Migration!evaluate, Migration!Migrate, Migration!Observe, Migration!Relax,
         Migration!Conclude
    <3>3. QED
      BY <2>1, <3>1, <3>2, EvaluateCounts
  <2>2. CASE UNCHANGED <<migrationVars, windowHistory>>
    BY <2>2 DEF migrationVars, windowHistory, CountsInv, Drained!UpTo,
       Drained!historyVars, Drained!vars
  <2>3. CASE Rerun /\ quiet' = m_config.cooldown_windows /\ signals' = 0
    <3>1. /\ m_config' = m_config /\ m_consecutive_signals' = 0 /\ m_cooldown_remaining' = 0
          /\ m_decision'.action = "NONE"
      BY <2>3 DEF Rerun, RebuildPolicies, Migration!NoDecision
    <3>2. m_config.cooldown_windows \in Nat /\ m_config.min_consecutive_signals \in Nat
      BY MigrationAssumption DEF CountsInv
    <3>3. CountsInv'
      BY <2>3, <3>1, <3>2 DEF CountsInv, Drained!UpTo
    <3>4. QED
      BY <3>1, <3>3 DEF Earned
  <2>4. QED
    <3>1. Unjudged \/ Crash => UNCHANGED migrationVars
      BY DEF Unjudged, Crash, WarmupPoint, SetState, AppendRecord, OpenCsv, WriteRows,
         OpenSummary, WriteSummary, policyVars
    <3>2. UNCHANGED historyVars => UNCHANGED <<migrationVars, windowHistory>>
      BY DEF historyVars, replayVars, policyVars
    <3>3. QED
      BY <2>1, <2>2, <2>3, <3>1, <3>2 DEF HistoryNext
<1>3. QED
  BY <1>1, <1>2, PTL DEF HistorySpec, MigrationsEarned, Drained!MigrationsEarned, Earned

-----------------------------------------------------------------------------
(* The scan for inferred events.  Its anchors are counted from the last    *)
(* one down, where a counterexample would be greatest.                     *)
LEMMA LeastNatural ==
  ASSUME NEW T \in SUBSET Nat, T # {}
  PROVE  \E n \in T : \A m \in T : n <= m
<1>1. PICK n \in T : \A m \in T : ~(<<m, n>> \in OpToRel(<, Nat))
  BY NatLessThanWellFounded, WFMin
<1>2. \A m \in T : ~(m < n)
  BY <1>1 DEF OpToRel
<1>3. QED
  BY <1>2

LEMMA Downward ==
  ASSUME NEW n \in Nat, NEW Good,
         \A m \in 1 .. n : (\A k \in m + 1 .. n : k \in Good) => m \in Good
  PROVE  \A m \in 1 .. n : m \in Good
<1> SUFFICES ASSUME NEW m \in 1 .. n, m \notin Good
             PROVE  FALSE
  OBVIOUS
<1> DEFINE T == {k \in Nat : n - k \in 1 .. n /\ n - k \notin Good}
<1>1. n - m \in Nat /\ n - (n - m) = m
  OBVIOUS
<1>2. n - m \in T
  BY <1>1
<1>3. PICK k \in T : \A j \in T : k <= j
  BY <1>2, LeastNatural
<1>4. ASSUME NEW j \in (n - k) + 1 .. n, j \notin Good
      PROVE  FALSE
  <2>1. n - j \in Nat /\ n - (n - j) = j /\ j \in 1 .. n /\ ~(k <= n - j)
    BY <1>3
  <2>2. n - j \in T
    BY <2>1, <1>4
  <2>3. QED
    BY <2>1, <2>2, <1>3
<1>5. QED
  BY <1>3, <1>4

LEMMA LeastIsLeast ==
  ASSUME NEW T \in SUBSET Nat, T # {}
  PROVE  Least(T) \in T /\ \A m \in T : Least(T) <= m
<1>1. \E n \in T : \A m \in T : n <= m
  BY LeastNatural
<1>2. QED
  BY <1>1 DEF Least

Table == Seq([ts : Int, price : Int])

LEMMA SpikesAreAhead ==
  ASSUME NEW table \in Table, NEW cfg, NEW a \in Nat
  PROVE  /\ Spikes(table, a, cfg) \subseteq a + 1 .. Len(table)
         /\ Spikes(table, a, cfg) \in SUBSET Nat
         /\ Spikes(table, a, cfg) # {} =>
              /\ Least(Spikes(table, a, cfg)) \in Spikes(table, a, cfg)
              /\ Least(Spikes(table, a, cfg)) \in a + 1 .. Len(table)
              /\ \A i \in Spikes(table, a, cfg) : Least(Spikes(table, a, cfg)) <= i
<1>1. \A i \in Spikes(table, a, cfg) : i \in a + 1 .. a + cfg.event_lookahead_points /\ i \in DOMAIN table
  BY DEF Spikes
<1>2. DOMAIN table = 1 .. Len(table) /\ Len(table) \in Nat
  BY DEF Table
<1>3. \A i \in Spikes(table, a, cfg) : i \in a + 1 .. Len(table) /\ i \in Nat
  BY <1>1, <1>2
<1>4. QED
  BY <1>3, LeastIsLeast

LEMMA ElementOf ==
  ASSUME NEW S, NEW s \in Seq(S), NEW i \in 1 .. Len(s)
  PROVE  s[i] \in S
OBVIOUS

LEMMA PointsAreTimed ==
  ASSUME NEW table \in Table, NEW i \in 1 .. Len(table)
  PROVE  table[i].ts \in Int /\ table[i].price \in Int
<1> DEFINE Points == [ts : Int, price : Int]
<1>1. table[i] \in Points
  <2> HIDE DEF Points
  <2>1. table \in Seq(Points)
    BY DEF Table, Points
  <2>2. QED
    BY <2>1, ElementOf
<1>2. QED
  BY <1>1

(* One step of the scan, given what it finds from later anchors on.        *)
Found(table, cfg, a) == PriceEvent(table, a, Least(Spikes(table, a, cfg)))

Scanned(table, cfg, later, a) ==
  IF a >= Len(table) THEN << >>
  ELSE IF Spikes(table, a, cfg) = {} THEN later[a + 1]
  ELSE <<Found(table, cfg, a)>> \o later[Least(Spikes(table, a, cfg)) + 1]

Scans(table, cfg, first, f) ==
  f = [a \in first .. Len(table) + 1 |-> Scanned(table, cfg, f, a)]

(* The scan exists: what it finds from an anchor on depends on later       *)
(* anchors only.                                                           *)
LEMMA ScanExists ==
  ASSUME NEW table \in Table, NEW cfg
  PROVE  \E f : Scans(table, cfg, 1, f)
<1> DEFINE n == Len(table) + 1
           Good == {m \in 1 .. n : \E f : Scans(table, cfg, m, f)}
<1>1. n \in Nat /\ 1 \in 1 .. n /\ Len(table) \in Nat
  BY DEF Table
<1>2. ASSUME NEW m \in 1 .. n, \A k \in m + 1 .. n : k \in Good
      PROVE  m \in Good
  <2>1. CASE m = n
    <3>1. Scans(table, cfg, m, [a \in m .. n |-> << >>])
      BY <2>1, <1>1 DEF Scans, Scanned
    <3>2. QED
      BY <3>1
  <2>2. CASE m # n
    <3>1. m + 1 \in m + 1 .. n
      BY <1>1, <2>2
    <3>2. PICK g : Scans(table, cfg, m + 1, g)
      BY <1>2, <3>1
    <3> DEFINE h == [a \in m .. n |-> IF a = m THEN Scanned(table, cfg, g, m) ELSE g[a]]
    <3>3. ASSUME NEW a \in m .. n
          PROVE  Scanned(table, cfg, h, a) = Scanned(table, cfg, g, a)
      <4>1. a \in Nat
        BY <1>1
      <4>2. CASE a >= Len(table)
        BY <4>2 DEF Scanned
      <4>3. CASE a < Len(table)
        <5>1. a + 1 \in m + 1 .. n /\ h[a + 1] = g[a + 1]
          BY <4>3, <1>1
        <5>2. Spikes(table, a, cfg) # {} =>
                h[Least(Spikes(table, a, cfg)) + 1] = g[Least(Spikes(table, a, cfg)) + 1]
          <6>1. ASSUME NEW i \in a + 1 .. Len(table)
                PROVE  h[i + 1] = g[i + 1]
            BY <4>3, <1>1
          <6>2. QED
            BY <6>1, <4>1, SpikesAreAhead
        <5>3. QED
          BY <5>1, <5>2 DEF Scanned
      <4>4. QED
        BY <4>1, <4>2, <4>3, <1>1
    <3>4. ASSUME NEW a \in m .. n
          PROVE  h[a] = Scanned(table, cfg, h, a)
      <4>1. a # m => g[a] = Scanned(table, cfg, g, a)
        <5>1. a # m => a \in m + 1 .. n
          BY <1>1
        <5>2. QED
          BY <5>1, <3>2 DEF Scans
      <4>2. QED
        BY <4>1, <3>3
    <3>5. Scans(table, cfg, m, h)
      <4>1. h = [a \in m .. n |-> h[a]]
        OBVIOUS
      <4>2. [a \in m .. n |-> h[a]] = [a \in m .. n |-> Scanned(table, cfg, h, a)]
        <5> HIDE DEF h
        <5>1. QED
          BY <3>4
      <4>3. QED
        BY <4>1, <4>2 DEF Scans
    <3>6. QED
      BY <3>5
  <2>3. QED
    BY <2>1, <2>2
<1>3. 1 \in Good
  <2> HIDE DEF Good
  <2>1. QED
    BY <1>1, <1>2, Downward
<1>4. QED
  BY <1>3

LEMMA ScanEquation ==
  ASSUME NEW table \in Table, NEW cfg
  PROVE  \A a \in 1 .. Len(table) + 1 :
           ScanFrom(table, cfg)[a] = Scanned(table, cfg, ScanFrom(table, cfg), a)
<1>1. ScanFrom(table, cfg) = CHOOSE f : Scans(table, cfg, 1, f)
  BY DEF ScanFrom, Scans, Scanned, Found
<1>2. Scans(table, cfg, 1, ScanFrom(table, cfg))
  BY <1>1, ScanExists
<1>3. QED
  BY <1>2 DEF Scans

(* What is found from an anchor on: events one after another, each the     *)
(* first spike of its anchor, and no spike that is followed up by none.    *)
EventsOfTable == [anchor_index : Int, event_index : Int, event_ts : Int]

Firsts(table, cfg, found, first) ==
  \A k \in DOMAIN found :
    /\ found[k].anchor_index \in first .. Len(table)
    /\ found[k].event_index \in Spikes(table, found[k].anchor_index, cfg)
    /\ \A i \in Spikes(table, found[k].anchor_index, cfg) : found[k].event_index <= i

Disjoint(found) ==
  \A k \in DOMAIN found : k > 1 => found[k - 1].event_index < found[k].anchor_index

Within(found, i) ==
  \E k \in DOMAIN found : i \in found[k].anchor_index .. found[k].event_index

Exhaustive(table, cfg, found, first) ==
  \A i \in first .. Len(table) : Within(found, i) \/ Spikes(table, i, cfg) = {}

Sound(table, cfg, found, first) ==
  /\ found \in Seq(EventsOfTable)
  /\ Firsts(table, cfg, found, first)
  /\ Disjoint(found)
  /\ Exhaustive(table, cfg, found, first)

LEMMA InFront ==
  ASSUME NEW S, NEW e \in S, NEW s \in Seq(S)
  PROVE  /\ <<e>> \o s \in Seq(S)
         /\ Len(<<e>> \o s) = Len(s) + 1
         /\ (<<e>> \o s)[1] = e
         /\ \A k \in 1 .. Len(s) : (<<e>> \o s)[k + 1] = s[k]
         /\ \A k \in 2 .. Len(s) + 1 : (<<e>> \o s)[k] = s[k - 1]
OBVIOUS

LEMMA ScanIsSound ==
  ASSUME NEW table \in Table, NEW cfg
  PROVE  \A a \in 1 .. Len(table) + 1 : Sound(table, cfg, ScanFrom(table, cfg)[a], a)
<1> DEFINE n == Len(table) + 1
           From == ScanFrom(table, cfg)
           Good == {m \in 1 .. n : Sound(table, cfg, From[m], m)}
<1>1. n \in Nat /\ Len(table) \in Nat /\ DOMAIN table = 1 .. Len(table)
  BY DEF Table
<1>2. ASSUME NEW m \in 1 .. n, \A k \in m + 1 .. n : k \in Good
      PROVE  Sound(table, cfg, From[m], m)
  <2>0. m \in Nat /\ From[m] = Scanned(table, cfg, From, m)
    BY <1>1, ScanEquation
  <2>1. CASE m >= Len(table)
    <3>1. From[m] = << >>
      BY <2>0, <2>1 DEF Scanned
    <3>2. ASSUME NEW i \in m .. Len(table)
          PROVE  Spikes(table, i, cfg) = {}
      <4>1. i \in Nat /\ i + 1 .. Len(table) = {}
        BY <2>1, <2>0, <1>1
      <4>2. QED
        BY <4>1, SpikesAreAhead
    <3>3. QED
      BY <3>1, <3>2 DEF Sound, Firsts, Disjoint, Exhaustive
  <2>2. CASE m < Len(table) /\ Spikes(table, m, cfg) = {}
    <3>1. From[m] = From[m + 1] /\ m + 1 \in m + 1 .. n
      BY <2>0, <2>2, <1>1 DEF Scanned
    <3>2. Sound(table, cfg, From[m], m + 1)
      BY <3>1, <1>2
    <3> HIDE DEF From
    <3>3. Firsts(table, cfg, From[m], m)
      <4>1. \A j \in m + 1 .. Len(table) : j \in m .. Len(table)
        BY <2>0, <1>1
      <4>2. QED
        BY <3>2, <4>1 DEF Sound, Firsts
    <3>4. Exhaustive(table, cfg, From[m], m)
      <4>1. \A i \in m .. Len(table) : i = m \/ i \in m + 1 .. Len(table)
        BY <2>0, <1>1
      <4>2. QED
        BY <3>2, <4>1, <2>2 DEF Sound, Exhaustive
    <3>5. QED
      BY <3>2, <3>3, <3>4 DEF Sound
  <2>3. CASE m < Len(table) /\ Spikes(table, m, cfg) # {}
    <3> DEFINE at == Least(Spikes(table, m, cfg))
               e == Found(table, cfg, m)
    <3>1. at \in Spikes(table, m, cfg) /\ at \in m + 1 .. Len(table)
          /\ \A i \in Spikes(table, m, cfg) : at <= i
      BY <2>0, <2>3, SpikesAreAhead
    <3>2. at + 1 \in m + 1 .. n /\ at \in Nat /\ at \in 1 .. Len(table) /\ m < at
      BY <3>1, <2>0, <1>1
    <3>3. e = [anchor_index |-> m, event_index |-> at, event_ts |-> table[at].ts]
      BY DEF Found, PriceEvent
    <3> HIDE DEF at, e
    <3>4. table[at].ts \in Int
      BY <3>2, PointsAreTimed
    <3>5. e \in EventsOfTable /\ e.anchor_index = m /\ e.event_index = at
      BY <3>2, <3>3, <3>4, <2>0 DEF EventsOfTable
    <3>6. From[m] = <<e>> \o From[at + 1]
      BY <2>0, <2>3 DEF Scanned, e, at
    <3>7. Sound(table, cfg, From[at + 1], at + 1)
      BY <3>2, <1>2
    <3> DEFINE later == From[at + 1]
               found == From[m]
    <3> HIDE DEF From
    <3>8. later \in Seq(EventsOfTable) /\ found = <<e>> \o later
      BY <3>6, <3>7 DEF Sound
    <3> HIDE DEF later, found
    <3>9. PICK l \in Nat : l = Len(later) /\ DOMAIN later = 1 .. l
      BY <3>8
    <3>10. /\ found \in Seq(EventsOfTable)
           /\ DOMAIN found = 1 .. l + 1
           /\ found[1] = e
           /\ \A k \in 1 .. l : found[k + 1] = later[k]
           /\ \A k \in 2 .. l + 1 : found[k] = later[k - 1]
      BY <3>5, <3>8, <3>9, InFront
    <3>11. /\ Firsts(table, cfg, later, at + 1)
           /\ Disjoint(later)
           /\ Exhaustive(table, cfg, later, at + 1)
      BY <3>7 DEF Sound, later
    <3>12. Firsts(table, cfg, found, m)
      <4>1. ASSUME NEW k \in DOMAIN found
            PROVE  /\ found[k].anchor_index \in m .. Len(table)
                   /\ found[k].event_index \in Spikes(table, found[k].anchor_index, cfg)
                   /\ \A i \in Spikes(table, found[k].anchor_index, cfg) : found[k].event_index <= i
        <5>1. CASE k = 1
          <6>1. m \in m .. Len(table)
            BY <2>0, <2>3, <1>1
          <6>2. QED
            BY <5>1, <6>1, <3>1, <3>5, <3>10 DEF at
        <5>2. CASE k # 1
          <6>1. k - 1 \in DOMAIN later /\ found[k] = later[k - 1]
            BY <5>2, <3>9, <3>10
          <6>2. \A j \in at + 1 .. Len(table) : j \in m .. Len(table)
            BY <2>0, <3>2, <1>1
          <6>3. QED
            BY <6>1, <6>2, <3>11 DEF Firsts
        <5>3. QED
          BY <5>1, <5>2
      <4>2. QED
        BY <4>1 DEF Firsts
    <3>13. Disjoint(found)
      <4>1. ASSUME NEW k \in DOMAIN found, k > 1
            PROVE  found[k - 1].event_index < found[k].anchor_index
        <5>1. k - 1 \in DOMAIN later /\ found[k] = later[k - 1] /\ k - 1 \in 1 .. l
          BY <4>1, <3>9, <3>10
        <5>2. CASE k = 2
          <6>1. found[k].anchor_index \in at + 1 .. Len(table)
            BY <5>1, <3>11 DEF Firsts
          <6>2. found[k - 1].event_index = at
            BY <5>2, <3>10, <3>5
          <6>3. QED
            BY <6>1, <6>2, <3>2, <1>1
        <5>3. CASE k # 2
          <6>1. k - 1 > 1 /\ found[k - 1] = later[(k - 1) - 1]
            BY <5>1, <5>3, <3>9, <3>10
          <6>2. QED
            BY <6>1, <5>1, <3>11 DEF Disjoint
        <5>4. QED
          BY <5>2, <5>3
      <4>2. QED
        BY <4>1 DEF Disjoint
    <3>14. Exhaustive(table, cfg, found, m)
      <4>1. ASSUME NEW i \in m .. Len(table)
            PROVE  Within(found, i) \/ Spikes(table, i, cfg) = {}
        <5>1. CASE i <= at
          <6>1. i \in found[1].anchor_index .. found[1].event_index /\ 1 \in DOMAIN found
            BY <5>1, <3>2, <3>5, <3>10, <3>9, <2>0, <1>1
          <6>2. QED
            BY <6>1 DEF Within
        <5>2. CASE at < i
          <6>1. i \in at + 1 .. Len(table)
            BY <5>2, <3>2, <2>0, <1>1
          <6>2. ASSUME NEW k \in DOMAIN later, i \in later[k].anchor_index .. later[k].event_index
                PROVE  Within(found, i)
            <7>1. k + 1 \in DOMAIN found /\ found[k + 1] = later[k]
              BY <3>9, <3>10
            <7>2. QED
              BY <7>1, <6>2 DEF Within
          <6>3. QED
            BY <6>1, <6>2, <3>11 DEF Exhaustive, Within
        <5>3. QED
          BY <5>1, <5>2, <3>2, <2>0, <1>1
      <4>2. QED
        BY <4>1 DEF Exhaustive
    <3>15. QED
      BY <3>10, <3>12, <3>13, <3>14 DEF Sound, found
  <2>4. QED
    BY <2>0, <2>1, <2>2, <2>3, <1>1
<1>3. ASSUME NEW m \in 1 .. n, \A k \in m + 1 .. n : k \in Good
      PROVE  m \in Good
  BY <1>2, <1>3
<1>4. \A m \in 1 .. n : m \in Good
  <2> HIDE DEF Good
  <2>1. QED
    BY <1>1, <1>3, Downward
<1>5. QED
  BY <1>4

(* The inferred events of a series, for all prices and configurations.     *)
EventsSound(table, cfg) ==
  LET found == detect_price_spike_events(table, cfg)
  IN Sound(table, cfg, found, 1)

LEMMA DetectedAreSound ==
  ASSUME NEW table \in Table, NEW cfg
  PROVE  EventsSound(table, cfg)
<1>1. 1 \in 1 .. Len(table) + 1
  BY DEF Table
<1>2. QED
  BY <1>1, ScanIsSound DEF EventsSound, detect_price_spike_events

-----------------------------------------------------------------------------
(* What is replayed, and that no row is without its point.                 *)
SeriesInv ==
  /\ series \in Series
  /\ replay_config \in ReplayConfigs
  /\ Len(rows) <= Len(points)
  /\ phase \in {"execute", "log"} => Len(rows) + 1 <= Len(points)

LEMMA SeriesType ==
  ASSUME series \in Series
  PROVE  /\ points \in Table /\ Len(points) \in Nat /\ DOMAIN points = 1 .. Len(points)
         /\ series.notices = Inferred \/ series.notices \in Seq(Int)
BY SeriesAssumption DEF points, Table

LEMMA SeriesInvariant == HistorySpec => []SeriesInv
<1>1. HistoryInit => SeriesInv
  <2> SUFFICES ASSUME HistoryInit PROVE SeriesInv
    OBVIOUS
  <2>1. series \in Series /\ replay_config \in ReplayConfigs /\ rows = << >> /\ phase = "evaluate"
    BY DEF HistoryInit, ReplayInit
  <2>2. QED
    BY <2>1, SeriesType DEF SeriesInv
<1>2. Typed /\ SeriesInv /\ [HistoryNext]_historyVars => SeriesInv'
  <2> SUFFICES ASSUME Typed, SeriesInv, [HistoryNext]_historyVars
               PROVE  SeriesInv'
    OBVIOUS
  <2>1. Len(points) \in Nat /\ Len(rows) \in Nat
    BY SeriesType DEF Typed, SeriesInv
  <2>2. CASE UNCHANGED historyVars
    BY <2>2 DEF historyVars, replayVars, inputVars, SeriesInv, points
  <2>3. CASE WarmupPoint
    BY <2>3 DEF WarmupPoint, inputVars, SeriesInv, points, idx
  <2>4. CASE EvaluatePoint
    BY <2>4 DEF EvaluatePoint, inputVars, SeriesInv, points, idx
  <2>5. CASE SetState
    BY <2>5 DEF SetState, inputVars, SeriesInv, points
  <2>6. CASE AppendRecord
    <3>1. rows' = Append(rows, Row) /\ phase = "log" /\ phase' = "evaluate" /\ UNCHANGED inputVars
      BY <2>6 DEF AppendRecord
    <3>2. Len(rows') = Len(rows) + 1
      <4>1. PICK S : rows \in Seq(S)
        BY DEF Typed
      <4>2. \A x : Len(Append(rows, x)) = Len(rows) + 1
        BY <4>1
      <4>3. QED
        BY <3>1, <4>2
    <3>3. QED
      BY <3>1, <3>2, <2>1 DEF SeriesInv, points, inputVars
  <2>7. CASE OpenCsv \/ WriteRows \/ OpenSummary \/ WriteSummary
    BY <2>7 DEF OpenCsv, WriteRows, OpenSummary, WriteSummary, inputVars, SeriesInv, points
  <2>8. CASE Crash
    BY <2>8 DEF Crash, inputVars, SeriesInv, points
  <2>9. CASE Rerun
    <3>1. series' \in Series /\ replay_config' = replay_config /\ rows' = << >> /\ phase' = "evaluate"
      BY <2>9 DEF Rerun, SeriesInv
    <3>2. Len(series'.points) \in Nat
      BY <3>1, SeriesAssumption
    <3>3. QED
      BY <3>1, <3>2 DEF SeriesInv, points
  <2>10. QED
    BY <2>2, <2>3, <2>4, <2>5, <2>6, <2>7, <2>8, <2>9 DEF HistoryNext, Unjudged
<1>3. IInv => Typed
  BY DEF IInv
<1>4. QED
  BY <1>1, <1>2, <1>3, Invariant, PTL DEF HistorySpec

(* The events inferred from any series: apart, each the first spike of its *)
(* anchor, and none missed.                                                *)
THEOREM EventsAreDetected == HistorySpec => []EventsAreSpikes
<1>1. SeriesInv => EventsAreSpikes
  <2> SUFFICES ASSUME SeriesInv PROVE EventsAreSpikes
    OBVIOUS
  <2> DEFINE found == detect_price_spike_events(points, replay_config)
             Covered == UNION {found[k].anchor_index .. found[k].event_index : k \in DOMAIN found}
  <2>1. points \in Table /\ DOMAIN points = 1 .. Len(points)
    BY SeriesType DEF SeriesInv
  <2>2. Sound(points, replay_config, found, 1)
    BY <2>1, DetectedAreSound DEF EventsSound
  <2> HIDE DEF found
  <2>3. ASSUME NEW i \in DOMAIN points, i \notin Covered
        PROVE  Spikes(points, i, replay_config) = {}
    <3>1. ~Within(found, i)
      BY <2>3 DEF Within
    <3>2. QED
      BY <3>1, <2>1, <2>2 DEF Sound, Exhaustive
  <2>4. \A k \in DOMAIN found :
          /\ found[k].event_index \in Spikes(points, found[k].anchor_index, replay_config)
          /\ \A i \in Spikes(points, found[k].anchor_index, replay_config) :
               found[k].event_index <= i
          /\ k > 1 => found[k - 1].event_index < found[k].anchor_index
    BY <2>2 DEF Sound, Firsts, Disjoint
  <2>5. QED
    BY <2>3, <2>4 DEF EventsAreSpikes, found
<1>2. QED
  BY <1>1, SeriesInvariant, PTL

-----------------------------------------------------------------------------
(* Credit.  The closest point is the first of those at the least distance. *)
Closest(table, ts) ==
  {i \in DOMAIN table : \A j \in DOMAIN table :
     Distance(table[i].ts, ts) <= Distance(table[j].ts, ts)}

LEMMA ClosestIsFirst ==
  ASSUME NEW table \in Table, table # << >>, NEW ts \in Int
  PROVE  /\ ClosestIndex(table, ts) \in DOMAIN table
         /\ \A j \in DOMAIN table :
              Distance(table[ClosestIndex(table, ts)].ts, ts) <= Distance(table[j].ts, ts)
         /\ \A i \in DOMAIN table : i < ClosestIndex(table, ts) =>
              \E j \in DOMAIN table : Distance(table[j].ts, ts) < Distance(table[i].ts, ts)
<1> DEFINE D(i) == Distance(table[i].ts, ts)
           T == {D(i) : i \in DOMAIN table}
<1>1. DOMAIN table = 1 .. Len(table) /\ Len(table) \in Nat /\ 1 \in DOMAIN table
  BY DEF Table
<1>2. ASSUME NEW i \in DOMAIN table
      PROVE  D(i) \in Nat
  BY <1>1, PointsAreTimed DEF Distance
<1> HIDE DEF D
<1>3. T \in SUBSET Nat /\ T # {}
  BY <1>1, <1>2
<1>4. PICK d \in T : \A m \in T : d <= m
  BY <1>3, LeastNatural
<1>5. Closest(table, ts) \in SUBSET Nat /\ Closest(table, ts) # {}
  BY <1>1, <1>4 DEF Closest, D
<1>6. /\ ClosestIndex(table, ts) = Least(Closest(table, ts))
      /\ ClosestIndex(table, ts) \in Closest(table, ts)
      /\ \A m \in Closest(table, ts) : ClosestIndex(table, ts) <= m
  BY <1>5, LeastIsLeast DEF ClosestIndex, Closest
<1>7. /\ ClosestIndex(table, ts) \in DOMAIN table
      /\ \A j \in DOMAIN table : D(ClosestIndex(table, ts)) <= D(j)
  BY <1>6 DEF Closest, D
<1>8. ASSUME NEW i \in DOMAIN table, i < ClosestIndex(table, ts)
      PROVE  \E j \in DOMAIN table : D(j) < D(i)
  <2>1. i \notin Closest(table, ts)
    <3>1. ClosestIndex(table, ts) \in Nat /\ i \in Nat
      BY <1>1, <1>7
    <3>2. QED
      BY <3>1, <1>6, <1>8
  <2>2. PICK j \in DOMAIN table : ~(D(i) <= D(j))
    BY <2>1 DEF Closest, D
  <2>3. D(i) \in Nat /\ D(j) \in Nat
    BY <1>2
  <2>4. QED
    BY <2>2, <2>3
<1>9. QED
  BY <1>7, <1>8 DEF D

(* The actions a table of rows counts, and those credited with an event.   *)
LEMMA CandidatesPrecede ==
  ASSUME NEW e, NEW actions, NEW lookback \in Int,
         Candidates(e, actions, lookback) # {}, actions \in SUBSET Nat
  PROVE  /\ ChosenAction(e, actions, lookback) \in Candidates(e, actions, lookback)
         /\ ChosenAction(e, actions, lookback) \in actions
         /\ ChosenAction(e, actions, lookback) < e.event_index
         /\ e.event_index - lookback <= ChosenAction(e, actions, lookback)
<1>1. Candidates(e, actions, lookback) \in SUBSET Nat
  BY DEF Candidates
<1>2. ChosenAction(e, actions, lookback) \in Candidates(e, actions, lookback)
  BY <1>1, LeastIsLeast DEF ChosenAction
<1> DEFINE i == ChosenAction(e, actions, lookback)
<1> HIDE DEF i
<1>3. i \in Candidates(e, actions, lookback)
  BY <1>2 DEF i
<1>4. i \in actions /\ i < e.event_index /\ e.event_index - lookback <= i
  BY <1>3 DEF Candidates
<1>5. QED
  BY <1>3, <1>4 DEF i

LEMMA MigrationsAreRows ==
  ASSUME IInv, SeriesInv, NEW p
  PROVE  /\ Migrations(rows, p) \subseteq DOMAIN points
         /\ Migrations(rows, p) \in SUBSET Nat
         /\ IsFiniteSet(Migrations(rows, p))
         /\ Lookback \in Int
<1>1. PICK S : rows \in Seq(S)
  BY DEF IInv, Typed
<1>2. DOMAIN rows = 1 .. Len(rows) /\ Len(rows) \in Nat
  BY <1>1
<1>3. Migrations(rows, p) \subseteq 1 .. Len(rows)
  BY <1>2 DEF Migrations
<1>4. 1 .. Len(rows) \subseteq DOMAIN points
  BY <1>2, SeriesType DEF SeriesInv
<1>5. IsFiniteSet(1 .. Len(rows))
  BY <1>2, FS_Interval
<1>6. IsFiniteSet(Migrations(rows, p))
  BY <1>3, <1>5, FS_Subset
<1>7. Lookback \in Int
  BY ReplayConfigsAssumption DEF SeriesInv, Lookback
<1>8. QED
  BY <1>3, <1>4, <1>6, <1>7

(* A notice is moved to the first closest point; the points before it are  *)
(* then farther from the notice, so that in a sorted series they are older.*)
LEMMA MovedNotices ==
  ASSUME SeriesInv, Sorted, NEW ts \in Int, NEW i \in DOMAIN points,
         i < ClosestIndex(points, ts)
  PROVE  points[i].ts < ts
<1>1. points \in Table /\ DOMAIN points = 1 .. Len(points) /\ points # << >>
  BY SeriesType DEF SeriesInv
<1> DEFINE c == ClosestIndex(points, ts)
<1>2. /\ c \in DOMAIN points
      /\ \A j \in DOMAIN points : Distance(points[c].ts, ts) <= Distance(points[j].ts, ts)
  BY <1>1, ClosestIsFirst
<1>3. PICK j \in DOMAIN points : Distance(points[j].ts, ts) < Distance(points[i].ts, ts)
  BY <1>1, ClosestIsFirst
<1> HIDE DEF c
<1>4. points[i].ts \in Int /\ points[c].ts \in Int /\ points[j].ts \in Int
  BY <1>1, <1>2, PointsAreTimed
<1>5. points[i].ts <= points[c].ts
  <2>1. i < c
    BY DEF c
  <2>2. QED
    BY <1>2, <2>1 DEF Sorted
<1>6. Distance(points[c].ts, ts) <= Distance(points[j].ts, ts)
  BY <1>2
<1>7. QED
  BY <1>3, <1>4, <1>5, <1>6 DEF Distance

LEMMA CreditComesFirst ==
  ASSUME IInv, SeriesInv
  PROVE  CreditPrecedesNotice
<1> SUFFICES ASSUME series.notices # Inferred, Sorted, NEW p \in ReplayPolicies,
                    NEW k \in MatchedEvents(Events, Migrations(rows, p), Lookback)
             PROVE  points[ChosenAction(Events[k], Migrations(rows, p), Lookback)].ts
                      < series.notices[k]
  BY DEF CreditPrecedesNotice
<1>1. series.notices \in Seq(Int) /\ Events = MappedEvents(points, series.notices)
  BY SeriesType DEF SeriesInv, Events, EventsOf, points
<1>2. k \in DOMAIN series.notices /\ Candidates(Events[k], Migrations(rows, p), Lookback) # {}
  BY <1>1 DEF MatchedEvents, MappedEvents
<1>3. series.notices[k] \in Int
  BY <1>1, <1>2
<1>4. Events[k].event_index = ClosestIndex(points, series.notices[k])
  BY <1>1, <1>2 DEF MappedEvents, PriceEvent
<1> DEFINE i == ChosenAction(Events[k], Migrations(rows, p), Lookback)
<1>5. i \in Migrations(rows, p) /\ i < Events[k].event_index
  BY <1>2, CandidatesPrecede, MigrationsAreRows
<1>6. i \in DOMAIN points
  BY <1>5, MigrationsAreRows
<1> HIDE DEF i
<1>7. points[i].ts < series.notices[k]
  BY <1>3, <1>4, <1>5, <1>6, MovedNotices
<1>8. QED
  BY <1>7 DEF i

(* The events are a sequence of places among the points, unless there are  *)
(* no points, and then no migrations either.                               *)
LEMMA EventsArePlaced ==
  ASSUME SeriesInv, points # << >>
  PROVE  \E n \in Nat : /\ DOMAIN Events = 1 .. n
                        /\ \A k \in 1 .. n : Events[k].event_index \in Int
<1>1. points \in Table /\ DOMAIN points = 1 .. Len(points)
  BY SeriesType DEF SeriesInv
<1>2. CASE series.notices = Inferred
  <2>1. Events = detect_price_spike_events(points, replay_config)
    BY <1>2 DEF Events, EventsOf, points
  <2>2. Events \in Seq(EventsOfTable)
    BY <1>1, <2>1, DetectedAreSound DEF EventsSound, Sound
  <2>3. DOMAIN Events = 1 .. Len(Events) /\ Len(Events) \in Nat
    BY <2>2
  <2>4. \A k \in 1 .. Len(Events) : Events[k] \in EventsOfTable
    BY <2>2, ElementOf
  <2>5. QED
    BY <2>3, <2>4 DEF EventsOfTable
<1>3. CASE series.notices # Inferred
  <2>1. series.notices \in Seq(Int) /\ Events = MappedEvents(points, series.notices)
    BY <1>3, SeriesType DEF SeriesInv, Events, EventsOf, points
  <2>2. DOMAIN series.notices = 1 .. Len(series.notices) /\ Len(series.notices) \in Nat
    BY <2>1
  <2>3. \A k \in DOMAIN series.notices : Events[k].event_index = ClosestIndex(points, series.notices[k])
    BY <2>1 DEF MappedEvents, PriceEvent
  <2>4. DOMAIN Events = DOMAIN series.notices
    BY <2>1 DEF MappedEvents
  <2>5. \A k \in DOMAIN series.notices : series.notices[k] \in Int
    BY <2>1, <2>2, ElementOf
  <2>6. \A k \in DOMAIN series.notices : ClosestIndex(points, series.notices[k]) \in DOMAIN points
    BY <1>1, <2>5, ClosestIsFirst
  <2>7. \A k \in DOMAIN series.notices : Events[k].event_index \in Int
    BY <2>3, <2>6, <1>1
  <2>8. QED
    BY <2>2, <2>4, <2>7
<1>4. QED
  BY <1>2, <1>3

(* An action is a candidate of one event at most when the events are a     *)
(* lookback apart.                                                         *)
LEMMA ChosenOnce ==
  ASSUME IInv, SeriesInv, Apart, points # << >>, NEW p,
         NEW j \in MatchedEvents(Events, Migrations(rows, p), Lookback),
         NEW k \in MatchedEvents(Events, Migrations(rows, p), Lookback),
         ChosenAction(Events[j], Migrations(rows, p), Lookback)
           = ChosenAction(Events[k], Migrations(rows, p), Lookback)
  PROVE  j = k
<1> DEFINE i == ChosenAction(Events[j], Migrations(rows, p), Lookback)
<1>1. /\ j \in DOMAIN Events /\ Candidates(Events[j], Migrations(rows, p), Lookback) # {}
      /\ k \in DOMAIN Events /\ Candidates(Events[k], Migrations(rows, p), Lookback) # {}
  BY DEF MatchedEvents
<1>2. /\ i \in Migrations(rows, p)
      /\ i < Events[j].event_index /\ Events[j].event_index - Lookback <= i
      /\ i < Events[k].event_index /\ Events[k].event_index - Lookback <= i
  BY <1>1, CandidatesPrecede, MigrationsAreRows
<1> HIDE DEF i
<1>3. i \in Int /\ Lookback \in Int
  BY <1>2, MigrationsAreRows
<1>4. Events[j].event_index \in Int /\ Events[k].event_index \in Int
  BY <1>1, EventsArePlaced
<1>5. ~(Distance(Events[j].event_index, Events[k].event_index) >= Lookback)
  BY <1>2, <1>3, <1>4 DEF Distance
<1>6. QED
  BY <1>1, <1>5 DEF Apart

LEMMA CreditIsGivenOnce ==
  ASSUME IInv, SeriesInv, Apart, NEW p
  PROVE  LET actions == Migrations(rows, p)
         IN /\ Cardinality(MatchedEvents(Events, actions, Lookback))
                 = Cardinality(AssignedActions(Events, actions, Lookback))
            /\ Cardinality(MatchedEvents(Events, actions, Lookback)) <= Cardinality(actions)
<1> DEFINE actions == Migrations(rows, p)
           matched == MatchedEvents(Events, actions, Lookback)
           assigned == AssignedActions(Events, actions, Lookback)
           F == [k \in matched |-> ChosenAction(Events[k], actions, Lookback)]
<1>1. actions \in SUBSET Nat /\ IsFiniteSet(actions) /\ Lookback \in Int
  BY MigrationsAreRows
<1>2. \A k \in matched : Candidates(Events[k], actions, Lookback) # {}
  BY DEF MatchedEvents
<1>3. \A k \in matched : ChosenAction(Events[k], actions, Lookback) \in actions
  BY <1>1, <1>2, CandidatesPrecede
<1>4. assigned \subseteq actions
  BY <1>3 DEF AssignedActions
<1>5. IsFiniteSet(matched)
  <2>1. CASE points = << >>
    <3>1. actions = {}
      BY <2>1, MigrationsAreRows
    <3>2. matched = {}
      BY <1>2, <1>3, <3>1
    <3>3. QED
      BY <3>2, FS_EmptySet
  <2>2. CASE points # << >>
    <3>1. PICK n \in Nat : DOMAIN Events = 1 .. n
      BY <2>2, EventsArePlaced
    <3>2. matched \subseteq 1 .. n
      BY <3>1 DEF MatchedEvents
    <3>3. IsFiniteSet(1 .. n)
      BY FS_Interval
    <3> HIDE DEF matched
    <3>4. QED
      BY <3>2, <3>3, FS_Subset
  <2>3. QED
    BY <2>1, <2>2
<1>6. \A j, k \in matched : F[j] = F[k] => j = k
  <2>1. CASE points = << >>
    <3>1. actions = {}
      BY <2>1, MigrationsAreRows
    <3>2. QED
      BY <1>3, <3>1
  <2>2. CASE points # << >>
    BY <2>2, ChosenOnce
  <2>3. QED
    BY <2>1, <2>2
<1>7. assigned = {F[k] : k \in matched}
  BY DEF AssignedActions
<1> HIDE DEF matched, assigned, F
<1>8. F \in [matched -> assigned]
  <2>1. F = [k \in matched |-> F[k]]
    BY DEF F
  <2>2. \A k \in matched : F[k] \in assigned
    BY <1>7
  <2>3. QED
    BY <2>1, <2>2
<1>9. F \in Bijection(matched, assigned)
  BY <1>6, <1>7, <1>8 DEF Bijection, Injection, IsInjective, Surjection
<1>10. ExistsBijection(matched, assigned)
  BY <1>9 DEF ExistsBijection
<1>11. Cardinality(matched) = Cardinality(assigned)
  BY <1>5, <1>10, FS_Bijection
<1>12. Cardinality(assigned) <= Cardinality(actions)
  BY <1>1, <1>4, FS_Subset
<1>13. QED
  BY <1>11, <1>12 DEF matched, assigned

(* What a report credits a policy with: migrations made before the notice  *)
(* and each of them once, whatever the prices, notices and policies.       *)
THEOREM CreditsAreSound == HistorySpec => []CreditsSound
<1>1. IInv /\ SeriesInv => CreditsSound
  <2> SUFFICES ASSUME IInv, SeriesInv PROVE CreditsSound
    OBVIOUS
  <2>1. CreditPrecedesNotice
    BY CreditComesFirst
  <2>2. CreditedOnce
    BY CreditIsGivenOnce DEF CreditedOnce
  <2>3. QED
    BY <2>1, <2>2 DEF CreditsSound
<1>2. QED
  BY <1>1, Invariant, SeriesInvariant, PTL
=============================================================================
