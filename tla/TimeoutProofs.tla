---------------------------- MODULE TimeoutProofs ----------------------------
(***************************************************************************)
(* Proofs about TimeoutHistory, for every set of configurations that       *)
(* satisfies the assumption of TimeoutRouting and every set of samples.    *)
(***************************************************************************)
EXTENDS TimeoutHistory, TLAPS

(* The limits of a configuration are naturals.                             *)
LEMMA LimitsNat ==
  ASSUME TypeOK
  PROVE  config.cooldown_points \in Nat /\ config.recovery_windows \in Nat
BY ConfigsAssumption DEF TypeOK

(* Counting down stays between zero and the limit.                         *)
LEMMA CooledDownType ==
  ASSUME TypeOK
  PROVE  /\ CooledDown \in 0 .. config.cooldown_points
         /\ CooledDown = IF cooldown_remaining > 0 THEN cooldown_remaining - 1 ELSE 0
BY LimitsNat DEF CooledDown, TypeOK

(* The streak stays a natural.                                             *)
LEMMA StreakAfterType ==
  ASSUME TypeOK, NEW s
  PROVE  StreakAfter(s) \in Nat
BY DEF StreakAfter, TypeOK

(* No evaluation changes the configuration.                                *)
LEMMA ConfigKept ==
  ASSUME NEW s, evaluate(s)
  PROVE  config' = config
BY DEF evaluate, HoldAfterTrigger, HoldFallback, ReturnToPrimary,
       RouteToFallback, StayOnPrimary, Decide

-----------------------------------------------------------------------------
(* Types                                                                   *)

(* The history variables stay within their limits whatever the sample.     *)
LEMMA RecordType ==
  ASSUME TypeOK, NEW s, Record(s), config' = config
  PROVE  /\ calm' \in 0 .. config.recovery_windows
         /\ quiet' \in 0 .. config.cooldown_points
         /\ outages' \in 0 .. 2
<1>1. calm' \in 0 .. config.recovery_windows
  BY LimitsNat DEF TypeOK, Record, UpTo
<1>2. quiet' \in 0 .. config.cooldown_points
  BY LimitsNat DEF TypeOK, Record, UpTo
<1>3. outages' \in 0 .. 2
  BY DEF TypeOK, Record, UpTo
<1>4. QED
  BY <1>1, <1>2, <1>3

(* Every way an evaluation can end keeps the type invariant.               *)
LEMMA TypeStep == TypeOK /\ [HistoryNext]_historyVars => TypeOK'
<1> SUFFICES ASSUME TypeOK, [HistoryNext]_historyVars
             PROVE  TypeOK'
  OBVIOUS
<1>1. ASSUME NEW s \in Samples, evaluate(s), Record(s)
      PROVE  TypeOK'
  <2>1. config' = config
    BY <1>1, ConfigKept
  <2>2. /\ calm' \in 0 .. config'.recovery_windows
        /\ quiet' \in 0 .. config'.cooldown_points
        /\ outages' \in 0 .. 2
    BY <1>1, <2>1, RecordType
  <2>3. ASSUME cooldown_remaining' \in 0 .. config.cooldown_points,
               recovery_streak' \in Nat,
               on_fallback' \in BOOLEAN,
               decision'.action \in {"PRIMARY", "ROUTE_FALLBACK"}
        PROVE  TypeOK'
    BY <2>1, <2>2, <2>3 DEF TypeOK
  <2>4. CASE HoldAfterTrigger(s)
    BY <2>3, <2>4, LimitsNat DEF HoldAfterTrigger, Decide, TypeOK
  <2>5. CASE HoldFallback(s)
    BY <2>3, <2>5, CooledDownType, StreakAfterType DEF HoldFallback, Decide, TypeOK
  <2>6. CASE ReturnToPrimary(s)
    BY <2>3, <2>6, CooledDownType, StreakAfterType DEF ReturnToPrimary, Decide, TypeOK
  <2>7. CASE RouteToFallback(s)
    BY <2>3, <2>7, LimitsNat DEF RouteToFallback, Decide, TypeOK
  <2>8. CASE StayOnPrimary(s)
    BY <2>3, <2>8, CooledDownType DEF StayOnPrimary, Decide, TypeOK
  <2>9. QED
    BY <1>1, <2>4, <2>5, <2>6, <2>7, <2>8 DEF evaluate
<1>2. CASE UNCHANGED historyVars
  BY <1>2 DEF historyVars, vars, TypeOK
<1>3. QED
  BY <1>1, <1>2 DEF HistoryNext

(* The type invariant holds before the first sample.                       *)
LEMMA TypeInit == HistoryInit => TypeOK
<1> SUFFICES ASSUME HistoryInit PROVE TypeOK
  OBVIOUS
<1>1. /\ config \in Configs
      /\ cooldown_remaining = 0 /\ recovery_streak = 0
      /\ calm = 0 /\ quiet = 0 /\ outages = 0
  BY DEF HistoryInit, Init
<1>2. on_fallback \in BOOLEAN /\ decision.action = "NONE"
  BY DEF HistoryInit, Init, NoDecision
<1>3. config.cooldown_points \in Nat /\ config.recovery_windows \in Nat
  BY <1>1, ConfigsAssumption
<1>4. QED
  BY <1>1, <1>2, <1>3 DEF TypeOK

(* The counters stay naturals and the cooldown within its configuration.   *)
THEOREM TypeCorrect == HistorySpec => []TypeOK
BY TypeInit, TypeStep, PTL DEF HistorySpec

-----------------------------------------------------------------------------
(* What the counters measure                                               *)

(* On the fallback, counting a sample that is no trigger keeps the streak  *)
(* and the cooldown in step with the stream.                               *)
LEMMA FallbackCounts ==
  ASSUME TypeOK, CountersHonest, on_fallback, NEW s, Record(s), ~trigger(s)
  PROVE  /\ CooledDown = config.cooldown_points - quiet'
         /\ outages = 1 => UpTo(StreakAfter(s), config.recovery_windows) = calm'
<1>1. CooledDown = config.cooldown_points - quiet'
  BY CooledDownType, LimitsNat
     DEF TypeOK, CountersHonest, CooldownMeasuresQuiet, Record, Verdict, UpTo
<1>2. ASSUME outages = 1
      PROVE  UpTo(StreakAfter(s), config.recovery_windows) = calm'
  BY <1>2, LimitsNat
     DEF TypeOK, CountersHonest, FirstStreakEarned, Record, Verdict, UpTo, StreakAfter
<1>3. QED
  BY <1>1, <1>2

(* Every way an evaluation can end keeps the counters honest.              *)
LEMMA CountersStep ==
  TypeOK /\ CountersHonest /\ [HistoryNext]_historyVars => CountersHonest'
<1> SUFFICES ASSUME TypeOK, CountersHonest, [HistoryNext]_historyVars
             PROVE  CountersHonest'
  OBVIOUS
<1> USE DEF CountersHonest
<1>1. ASSUME NEW s \in Samples, evaluate(s), Record(s)
      PROVE  CountersHonest'
  <2>1. config' = config
    BY <1>1, ConfigKept
  <2>2. CASE HoldAfterTrigger(s)
    <3>1. calm' = 0 /\ quiet' = 0 /\ outages' = outages /\ outages > 0
      BY <1>1, <2>2 DEF HoldAfterTrigger, Record, Verdict
    <3>2. QED
      BY <2>1, <2>2, <3>1, LimitsNat
         DEF HoldAfterTrigger, CooldownMeasuresQuiet, FirstStreakEarned, StreakLeftOver, UpTo, TypeOK
  <2>3. CASE HoldFallback(s)
    <3>1. outages' = outages /\ outages > 0
      BY <1>1, <2>3 DEF HoldFallback, Record
    <3>2. QED
      BY <1>1, <2>1, <2>3, <3>1, FallbackCounts
         DEF HoldFallback, CooldownMeasuresQuiet, FirstStreakEarned, StreakLeftOver, TypeOK
  <2>4. CASE ReturnToPrimary(s)
    BY <1>1, <2>1, <2>4, StreakAfterType
       DEF ReturnToPrimary, MayReturn, Record, CooldownMeasuresQuiet,
           FirstStreakEarned, StreakLeftOver, TypeOK
  <2>5. CASE RouteToFallback(s)
    <3>1. calm' = 0 /\ quiet' = 0 /\ outages' = UpTo(outages + 1, 2)
      BY <1>1, <2>5 DEF RouteToFallback, Record, Verdict
    <3>2. outages' > 0 /\ (outages' = 1 => outages = 0)
      BY <3>1 DEF UpTo, TypeOK
    <3>3. QED
      BY <2>1, <2>5, <3>1, <3>2, LimitsNat
         DEF RouteToFallback, CooldownMeasuresQuiet, FirstStreakEarned, StreakLeftOver, UpTo, TypeOK
  <2>6. CASE StayOnPrimary(s)
    <3>1. outages' = outages /\ cooldown_remaining' = 0
      BY <1>1, <2>6, CooledDownType DEF StayOnPrimary, Record, CooldownMeasuresQuiet
    <3>2. QED
      BY <2>1, <2>6, <3>1
         DEF StayOnPrimary, CooldownMeasuresQuiet, FirstStreakEarned, StreakLeftOver
  <2>7. QED
    BY <1>1, <2>2, <2>3, <2>4, <2>5, <2>6 DEF evaluate
<1>2. CASE UNCHANGED historyVars
  BY <1>2 DEF historyVars, vars, CooldownMeasuresQuiet, FirstStreakEarned, StreakLeftOver
<1>3. QED
  BY <1>1, <1>2 DEF HistoryNext

(* The counters are honest before the first sample.                        *)
LEMMA CountersInit == HistoryInit => CountersHonest
BY DEF HistoryInit, Init, CountersHonest, CooldownMeasuresQuiet,
       FirstStreakEarned, StreakLeftOver

(* The cooldown always measures the distance to the last failure, and the  *)
(* streak of the first outage measures what the stream delivered.          *)
THEOREM CountersAreHonest == HistorySpec => []CountersHonest
BY CountersInit, CountersStep, TypeCorrect, PTL DEF HistorySpec

(* A return from the first outage had a streak that the stream delivered.  *)
LEMMA ReturnStep ==
  ASSUME TypeOK, CountersHonest, [HistoryNext]_historyVars,
         on_fallback, ~on_fallback', outages = 1
  PROVE  calm' >= config.recovery_windows
<1>1. PICK s \in Samples : evaluate(s) /\ Record(s)
  BY DEF HistoryNext, historyVars, vars
<1>2. ReturnToPrimary(s)
  BY <1>1 DEF evaluate, HoldAfterTrigger, HoldFallback, RouteToFallback, StayOnPrimary
<1>3. UpTo(StreakAfter(s), config.recovery_windows) = calm'
  BY <1>1, <1>2, FallbackCounts DEF ReturnToPrimary
<1>4. QED
  BY <1>2, <1>3, LimitsNat, StreakAfterType DEF ReturnToPrimary, MayReturn, UpTo

(* The first outage ends only after the configured run of fast answers.    *)
THEOREM FirstReturnIsSustained == HistorySpec => FirstRecoverySustained
<1>1. TypeOK /\ CountersHonest /\ [HistoryNext]_historyVars
      => [ on_fallback /\ ~on_fallback' /\ outages = 1
           => calm' >= config.recovery_windows ]_historyVars
  BY ReturnStep
<1>2. HistorySpec => []TypeOK /\ []CountersHonest
  BY CountersInit, CountersStep, TypeCorrect, PTL DEF HistorySpec
<1>3. QED
  BY <1>1, <1>2, PTL DEF HistorySpec, FirstRecoverySustained
-----------------------------------------------------------------------------
(* Nothing the stream delivered is ever missing from the streak.           *)
NothingMissing == on_fallback => calm <= recovery_streak

LEMMA NothingMissingInit == HistoryInit => NothingMissing
BY DEF HistoryInit, Init, NothingMissing

LEMMA NothingMissingStep ==
  TypeOK /\ NothingMissing /\ [HistoryNext]_historyVars => NothingMissing'
<1> SUFFICES ASSUME TypeOK, NothingMissing, [HistoryNext]_historyVars
             PROVE  NothingMissing'
  OBVIOUS
<1>1. ASSUME NEW s \in Samples, evaluate(s), Record(s)
      PROVE  NothingMissing'
  <2>1. CASE HoldAfterTrigger(s) \/ RouteToFallback(s)
    <3>1. calm' = 0
      BY <1>1, <2>1 DEF HoldAfterTrigger, RouteToFallback, Record, Verdict
    <3>2. recovery_streak' \in Nat
      BY <2>1 DEF HoldAfterTrigger, RouteToFallback, TypeOK
    <3>3. QED
      BY <3>1, <3>2 DEF NothingMissing
  <2>2. CASE HoldFallback(s)
    <3>1. /\ ~trigger(s) /\ recovery_streak' = StreakAfter(s)
          /\ calm \in Nat /\ recovery_streak \in Nat /\ calm <= recovery_streak
      BY <2>2, LimitsNat DEF HoldFallback, TypeOK, NothingMissing
    <3>2. CASE recovered(s)
      <4>1. calm' = UpTo(calm + 1, config.recovery_windows)
        BY <1>1, <3>1, <3>2 DEF Record, Verdict
      <4>2. calm' <= calm + 1
        BY <3>1, <4>1, LimitsNat DEF UpTo
      <4>3. calm' \in Nat
        BY <3>1, <4>1, LimitsNat DEF UpTo
      <4>4. QED
        BY <3>1, <3>2, <4>2, <4>3 DEF StreakAfter, NothingMissing
    <3>3. CASE ~recovered(s)
      BY <1>1, <3>1, <3>3 DEF Record, Verdict, StreakAfter, NothingMissing
    <3>4. QED
      BY <3>2, <3>3
  <2>3. CASE ReturnToPrimary(s) \/ StayOnPrimary(s)
    BY <2>3 DEF ReturnToPrimary, StayOnPrimary, NothingMissing
  <2>4. QED
    BY <1>1, <2>1, <2>2, <2>3 DEF evaluate
<1>2. CASE UNCHANGED historyVars
  BY <1>2 DEF historyVars, vars, NothingMissing
<1>3. QED
  BY <1>1, <1>2 DEF HistoryNext

LEMMA StaysAwayStep ==
  ASSUME TypeOK, CountersHonest, NothingMissing, NothingMissing', [HistoryNext]_historyVars,
         on_fallback, on_fallback', config.recovery_windows > 0,
         ~UNCHANGED historyVars
  PROVE  calm' < config.recovery_windows \/ quiet' < config.cooldown_points
<1>1. PICK s \in Samples : evaluate(s) /\ Record(s)
  BY DEF HistoryNext
<1>2. /\ config.recovery_windows \in Nat /\ config.cooldown_points \in Nat
      /\ config' = config
  BY <1>1, LimitsNat, ConfigKept
<1>3. CASE HoldAfterTrigger(s)
  <2>1. calm' = 0
    BY <1>1, <1>3 DEF HoldAfterTrigger, Record, Verdict
  <2>2. QED
    BY <1>2, <2>1
<1>4. CASE HoldFallback(s)
  <2>1. recovery_streak' = StreakAfter(s) /\ StreakAfter(s) \in Nat
    BY <1>4, StreakAfterType DEF HoldFallback, TypeOK
  <2>2. calm' <= StreakAfter(s) /\ calm' \in Nat
    BY <1>1, <1>2, <2>1, RecordType DEF NothingMissing
  <2>3. CooledDown = config.cooldown_points - quiet'
    BY <1>1, <1>4, FallbackCounts DEF HoldFallback
  <2>4. quiet' \in 0 .. config.cooldown_points
    BY <1>1, <1>2, RecordType
  <2>5. StreakAfter(s) < config.recovery_windows \/ CooledDown # 0
    BY <1>2, <1>4, <2>1 DEF HoldFallback, MayReturn
  <2>6. QED
    BY <1>2, <2>1, <2>2, <2>3, <2>4, <2>5
<1>5. QED
  BY <1>1, <1>3, <1>4 DEF evaluate, ReturnToPrimary, RouteToFallback, StayOnPrimary

(* Where a recovery is asked for, traffic comes back as soon as the stream *)
(* has delivered it and the cooldown is over, in every outage.             *)
THEOREM ReturnsInTime == HistorySpec => NotKeptAway
<1>1. TypeOK /\ CountersHonest /\ NothingMissing /\ NothingMissing'
      /\ [HistoryNext]_historyVars
      => [ on_fallback /\ on_fallback' /\ config.recovery_windows > 0
           => calm' < config.recovery_windows \/ quiet' < config.cooldown_points ]_historyVars
  BY StaysAwayStep
<1>2. HistorySpec => []TypeOK /\ []CountersHonest /\ []NothingMissing
  BY CountersInit, CountersStep, TypeCorrect, NothingMissingInit, NothingMissingStep, PTL
     DEF HistorySpec
<1>3. QED
  BY <1>1, <1>2, PTL DEF HistorySpec, NotKeptAway
-----------------------------------------------------------------------------
(* The weak form of the promise                                            *)

(* The history counts verdicts as the promise with one calm sample does.   *)
LEMMA RecordCounts ==
  ASSUME TypeOK, NEW s, Record(s), config' = config
  PROVE  Promised!Count(Verdict(s))
<1>1. UpTo(calm', 1) = Promised!CalmAfter(Verdict(s))
  BY LimitsNat DEF Record, Promised!CalmAfter, UpTo, Promised!UpTo, TypeOK, Verdict
<1>2. quiet' = Promised!QuietAfter(Verdict(s))
  BY DEF Record, Promised!QuietAfter, UpTo, Promised!UpTo
<1>3. QED
  BY <1>1, <1>2 DEF Promised!Count

(* Every evaluation departs, returns or remains as the weak promise        *)
(* allows.                                                                 *)
LEMMA PromiseStep ==
  TypeOK /\ CountersHonest /\ [HistoryNext]_historyVars
    => [Promised!PromiseNext]_(Promised!promiseVars)
<1> SUFFICES ASSUME TypeOK, CountersHonest, [HistoryNext]_historyVars
             PROVE  [Promised!PromiseNext]_(Promised!promiseVars)
  OBVIOUS
<1>1. ASSUME NEW s \in Samples, evaluate(s), Record(s)
      PROVE  Promised!PromiseNext
  <2>1. Promised!Count(Verdict(s))
    BY <1>1, ConfigKept, RecordCounts
  <2>2. Verdict(s) \in Promised!Verdicts
    BY DEF Verdict, Promised!Verdicts
  <2>3. ASSUME UNCHANGED on_fallback
        PROVE  Promised!PromiseNext
    BY <2>1, <2>2, <2>3 DEF Promised!PromiseNext, Promised!Remain, Verdict
  <2>4. CASE HoldAfterTrigger(s)
    BY <2>3, <2>4 DEF HoldAfterTrigger
  <2>5. CASE HoldFallback(s)
    BY <2>3, <2>5 DEF HoldFallback
  <2>6. CASE StayOnPrimary(s)
    BY <2>3, <2>6 DEF StayOnPrimary
  <2>7. CASE RouteToFallback(s)
    <3>1. Verdict(s) = "trouble"
      BY <2>7 DEF RouteToFallback, Verdict
    <3>2. Promised!Depart(Verdict(s))
      BY <2>1, <2>7, <3>1 DEF RouteToFallback, Promised!Depart
    <3>3. QED
      BY <2>2, <3>2 DEF Promised!PromiseNext
  <2>8. CASE ReturnToPrimary(s)
    <3>1. /\ UpTo(calm', 1) = Promised!CalmAfter(Verdict(s))
          /\ quiet' = Promised!QuietAfter(Verdict(s))
      BY <2>1 DEF Promised!Count
    <3>2. config.recovery_windows > 0 => recovered(s)
      BY <2>8, LimitsNat DEF ReturnToPrimary, MayReturn, StreakAfter
    <3>3. UpTo(calm', 1) >= UpTo(1, config.recovery_windows)
      BY <1>1, <2>8, <3>2, LimitsNat DEF ReturnToPrimary, Record, Verdict, UpTo, TypeOK
    <3>4. CooledDown = config.cooldown_points - quiet' /\ CooledDown = 0
      BY <1>1, <2>8, FallbackCounts DEF ReturnToPrimary, MayReturn
    <3>5. quiet' \in 0 .. config.cooldown_points
      BY <1>1, ConfigKept, RecordType
    <3>6. quiet' >= config.cooldown_points
      BY <3>4, <3>5, LimitsNat
    <3>7. Promised!Return(Verdict(s))
      BY <2>1, <2>8, <3>1, <3>3, <3>6 DEF ReturnToPrimary, Promised!Return, Promised!Sustained
    <3>8. QED
      BY <2>2, <3>7 DEF Promised!PromiseNext
  <2>9. QED
    BY <1>1, <2>4, <2>5, <2>6, <2>7, <2>8 DEF evaluate
<1>2. CASE UNCHANGED historyVars
  BY <1>2 DEF historyVars, vars, Promised!promiseVars
<1>3. QED
  BY <1>1, <1>2 DEF HistoryNext

(* The policy starts where the promise does.                               *)
LEMMA PromiseStart == HistoryInit => Promised!PromiseInit
<1> SUFFICES ASSUME HistoryInit PROVE Promised!PromiseInit
  OBVIOUS
<1>1. config.recovery_windows \in Nat /\ config.cooldown_points \in Nat
  BY ConfigsAssumption DEF HistoryInit, Init
<1>2. ~on_fallback /\ on_fallback \in BOOLEAN /\ calm = 0 /\ quiet = 0
  BY DEF HistoryInit, Init
<1>3. QED
  BY <1>1, <1>2 DEF Promised!PromiseInit, UpTo

(* Every return of the baseline comes cooldown_points samples after the    *)
(* last failure and on a fast answer; only trouble makes it leave.         *)
THEOREM KeepsWeakPromise == HistorySpec => WeakPromiseKept
<1>1. HistorySpec => []TypeOK /\ []CountersHonest
  BY CountersInit, CountersStep, TypeCorrect, PTL DEF HistorySpec
<1>2. QED
  BY <1>1, PromiseStart, PromiseStep, PTL DEF HistorySpec, WeakPromiseKept, Promised!Promise
=============================================================================
