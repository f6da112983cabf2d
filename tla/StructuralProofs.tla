--------------------------- MODULE StructuralProofs ---------------------------
(***************************************************************************)
(* Proofs about StructuralHistory, for every set of configurations and of  *)
(* windows that satisfies the two assumptions of StructuralRouting.        *)
(***************************************************************************)
EXTENDS StructuralHistory, FiniteSetTheorems, TLAPS

-----------------------------------------------------------------------------
(* Every non-empty set of naturals has a smallest element: the intervals   *)
(* 1 .. n are finite, so strict inclusion among them is well founded.      *)
LEMMA LeastNatural ==
  ASSUME NEW S \in SUBSET Nat, S # {}
  PROVE  \E n \in S : \A m \in S : n <= m
<1> DEFINE R == StrictSubsetOrdering(Nat)
           T == {1 .. n : n \in S}
<1>1. T \subseteq FiniteSubsetsOf(Nat)
  <2> SUFFICES ASSUME NEW n \in S
               PROVE  1 .. n \in FiniteSubsetsOf(Nat)
    OBVIOUS
  <2>1. IsFiniteSet(1 .. n)
    BY FS_Interval
  <2>2. QED
    BY <2>1 DEF FiniteSubsetsOf
<1>2. T # {}
  OBVIOUS
<1>3. IsWellFoundedOn(R, FiniteSubsetsOf(Nat))
  BY FS_StrictSubsetOrderingWellFounded
<1>4. PICK x \in T : \A y \in T : ~(<<y, x>> \in R)
  <2> HIDE DEF R, T
  <2>1. QED
    BY <1>1, <1>2, <1>3, WFMin
<1>5. PICK n \in S : x = 1 .. n
  OBVIOUS
<1>6. ASSUME NEW m \in S, m < n
      PROVE  FALSE
  <2>1. 1 .. m \subseteq 1 .. n
    BY <1>6
  <2>2. n \in 1 .. n /\ n \notin 1 .. m
    BY <1>6
  <2>3. <<1 .. m, 1 .. n>> \in R
    BY <2>1, <2>2 DEF StrictSubsetOrdering
  <2>4. QED
    BY <1>4, <1>5, <2>3
<1>7. \A m \in S : n <= m
  BY <1>6
<1>8. QED
  BY <1>7

(* Wrapping around a list of n places reaches place i from place s.        *)
LEMMA WrapAround ==
  ASSUME NEW n \in Nat \ {0}, NEW a \in Nat, a < 2 * n
  PROVE  a % n = IF a < n THEN a ELSE a - n
OBVIOUS

-----------------------------------------------------------------------------
(* Where the search starts is a place of the list.                         *)
LEMMA FirstIndexFound ==
  ASSUME NEW S, NEW p \in Seq(S), NEW target, Listed(p, target)
  PROVE  FirstIndex(p, target) \in DOMAIN p /\ p[FirstIndex(p, target)] = target
<1> DEFINE places == {i \in DOMAIN p : p[i] = target}
<1>1. places \in SUBSET Nat /\ places # {}
  BY DEF Listed
<1>2. PICK i \in places : \A j \in places : i <= j
  <2> HIDE DEF places
  <2>1. QED
    BY <1>1, LeastNatural
<1>3. /\ i \in DOMAIN p /\ p[i] = target
      /\ \A j \in DOMAIN p : p[j] = target => i <= j
  BY <1>2
<1>4. QED
  BY <1>3 DEF FirstIndex

(* The search for a fallback starts at a position of the list, whether the *)
(* current target is on it or not.                                         *)
LEMMA StartIndexFound ==
  ASSUME NEW S, NEW t, t.provider_priority \in Seq(S),
         Len(t.provider_priority) > 0, NEW current
  PROVE  StartIndex(t, current) \in 1 .. Len(t.provider_priority)
<1>1. CASE Listed(t.provider_priority, current)
  BY <1>1, FirstIndexFound DEF StartIndex
<1>2. CASE ~Listed(t.provider_priority, current) /\ Listed(t.provider_priority, t.primary_target)
  BY <1>2, FirstIndexFound DEF StartIndex
<1>3. CASE ~Listed(t.provider_priority, current) /\ ~Listed(t.provider_priority, t.primary_target)
  BY <1>3 DEF StartIndex
<1>4. QED
  BY <1>1, <1>2, <1>3

(* A target that follows is one of the list.                               *)
LEMMA FollowingListed ==
  ASSUME NEW S, NEW p \in Seq(S), Len(p) > 0,
         NEW start \in 1 .. Len(p), NEW o \in 0 .. (Len(p) - 1)
  PROVE  Listed(p, Following(p, start, o))
<1>1. /\ Len(p) \in Nat \ {0}
      /\ start - 1 + o \in Nat
      /\ start - 1 + o < 2 * Len(p)
  OBVIOUS
<1>2. (start - 1 + o) % Len(p) \in 0 .. (Len(p) - 1)
  BY <1>1
<1>3. QED
  BY <1>2 DEF Following, Listed

(* The fallback of a target is another target of the priority list.        *)
THEOREM FallbackDiffers ==
  ASSUME NEW S, NEW t, t.provider_priority \in Seq(S), NEW current,
         FallbackTargetFor(t, current) # NoTarget
  PROVE  /\ FallbackTargetFor(t, current) # current
         /\ Listed(t.provider_priority, FallbackTargetFor(t, current))
<1> DEFINE p == t.provider_priority
           offsets == FallbackOffsets(t, current)
           first == CHOOSE o \in offsets : \A q \in offsets : o <= q
<1>1. offsets # {}
  BY DEF FallbackTargetFor
<1>2. offsets \in SUBSET Nat
  BY DEF FallbackOffsets
<1>3. first \in offsets
  <2>1. \E o \in offsets : \A q \in offsets : o <= q
    <3> HIDE DEF offsets
    <3>1. QED
      BY <1>1, <1>2, LeastNatural
  <2>2. QED
    BY <2>1
<1>4. /\ first \in 1 .. (Len(p) - 1)
      /\ Following(p, StartIndex(t, current), first) # current
  BY <1>3 DEF FallbackOffsets
<1>5. FallbackTargetFor(t, current) = Following(p, StartIndex(t, current), first)
  BY <1>1 DEF FallbackTargetFor
<1>6. Len(p) > 0 /\ StartIndex(t, current) \in 1 .. Len(p)
  BY <1>4, StartIndexFound
<1>7. Listed(p, Following(p, StartIndex(t, current), first))
  BY <1>4, <1>6, FollowingListed
<1>8. QED
  BY <1>4, <1>5, <1>7

-----------------------------------------------------------------------------
(* The bounded deque: appending keeps a sequence of integers one, keeps it *)
(* within its bound, and two deques of equal length keep equal lengths.    *)
LEMMA RememberType ==
  ASSUME NEW h \in Seq(Int), NEW v \in Int,
         config.history_window \in Nat,
         Len(h) <= config.history_window
  PROVE  /\ Remember(h, v) \in Seq(Int)
         /\ Len(Remember(h, v)) <= config.history_window
         /\ Len(Remember(h, v)) = IF Len(h) + 1 > config.history_window
                                  THEN Len(h) ELSE Len(h) + 1
<1> DEFINE longer == Append(h, v)
<1>1. longer \in Seq(Int) /\ Len(longer) = Len(h) + 1
  OBVIOUS
<1>2. longer # << >>
  BY <1>1
<1>3. Tail(longer) \in Seq(Int) /\ Len(Tail(longer)) = Len(h)
  BY <1>1, <1>2
<1>4. QED
  BY <1>1, <1>3 DEF Remember

(* The saturating counter stays between zero and its limit.                *)
LEMMA UpToType ==
  ASSUME NEW n \in Nat, NEW limit \in Nat
  PROVE  UpTo(n, limit) \in 0 .. limit
BY DEF UpTo

-----------------------------------------------------------------------------
(* What each kind of step does to the policy's own variables.              *)
LEMMA SignalsAfterType ==
  ASSUME consecutive_signals \in Nat, NEW w
  PROVE  SignalsAfter(w) \in Nat
BY DEF SignalsAfter

(* Counting down stays between zero and the limit.                         *)
LEMMA CooledDownType ==
  ASSUME NEW limit \in Nat, cooldown_remaining \in 0 .. limit
  PROVE  CooledDown \in 0 .. limit
BY DEF CooledDown

(* So do the cooldown and the streak after a window met on the fallback.   *)
LEMMA AfterType ==
  ASSUME TypeOK, NEW w
  PROVE  /\ CooldownAfter(w) \in 0 .. config.cooldown_windows
         /\ StreakAfter(w) \in Nat
<1>1. config.cooldown_windows \in Nat
  BY ConfigsAssumption DEF TypeOK
<1>2. CooledDown \in 0 .. config.cooldown_windows
  BY <1>1, CooledDownType DEF TypeOK
<1>3. QED
  BY <1>1, <1>2 DEF CooldownAfter, StreakAfter, TypeOK

(* Every evaluation leaves the histories, the signal count and the action  *)
(* of its decision well typed.                                             *)
LEMMA ConcludeType ==
  ASSUME TypeOK, NEW w \in Windows, NEW action \in Actions, NEW target,
         Conclude(w, action, target)
  PROVE  /\ config' = config
         /\ hazard_history' \in Seq(Int)
         /\ rupture_history' \in Seq(Int)
         /\ Len(hazard_history') = Len(rupture_history')
         /\ Len(hazard_history') <= config.history_window
         /\ consecutive_signals' \in Nat
         /\ decision'.action \in Actions
<1>1. w.hazard \in Int /\ w.rupture \in Int /\ config.history_window \in Nat
  BY ConfigsAssumption, WindowsAssumption DEF TypeOK
<1>2. /\ Remember(hazard_history, w.hazard) \in Seq(Int)
      /\ Len(Remember(hazard_history, w.hazard)) <= config.history_window
      /\ Len(Remember(hazard_history, w.hazard)) =
           IF Len(hazard_history) + 1 > config.history_window
           THEN Len(hazard_history) ELSE Len(hazard_history) + 1
  BY <1>1, RememberType DEF TypeOK
<1>3. /\ Remember(rupture_history, w.rupture) \in Seq(Int)
      /\ Len(Remember(rupture_history, w.rupture)) =
           IF Len(rupture_history) + 1 > config.history_window
           THEN Len(rupture_history) ELSE Len(rupture_history) + 1
  BY <1>1, RememberType DEF TypeOK
<1>4. SignalsAfter(w) \in Nat
  BY SignalsAfterType DEF TypeOK
<1>5. QED
  BY <1>2, <1>3, <1>4 DEF Conclude, TypeOK

(* The history variables stay within their limits whatever the window.     *)
LEMMA RecordType ==
  ASSUME TypeOK, NEW w, Record(w), config' = config
  PROVE  /\ calm' \in 0 .. config.recovery_windows
         /\ quiet' \in 0 .. config.cooldown_windows
         /\ signals' \in 0 .. config.min_consecutive_signals
         /\ steady' \in BOOLEAN
<1>1. /\ config.recovery_windows \in Nat
      /\ config.cooldown_windows \in Nat
      /\ config.min_consecutive_signals \in Nat
  BY ConfigsAssumption DEF TypeOK
<1>2. calm' \in 0 .. config.recovery_windows
  BY <1>1 DEF TypeOK, Record, UpTo
<1>3. quiet' \in 0 .. config.cooldown_windows
  BY <1>1 DEF TypeOK, Record, UpTo
<1>4. signals' \in 0 .. config.min_consecutive_signals
  BY <1>1 DEF TypeOK, Record, SignalsSeen, UpTo
<1>5. steady' \in BOOLEAN
  BY DEF Record
<1>6. QED
  BY <1>2, <1>3, <1>4, <1>5

(* Every way an evaluation can end keeps the type invariant.               *)
LEMMA TypeStep == TypeOK /\ [HistoryNext]_historyVars => TypeOK'
<1> SUFFICES ASSUME TypeOK, [HistoryNext]_historyVars
             PROVE  TypeOK'
  OBVIOUS
<1>1. ASSUME NEW w \in Windows, evaluate(w), Record(w)
      PROVE  TypeOK'
  <2> DEFINE Concluded == /\ config' = config
                          /\ hazard_history' \in Seq(Int)
                          /\ rupture_history' \in Seq(Int)
                          /\ Len(hazard_history') = Len(rupture_history')
                          /\ Len(hazard_history') <= config.history_window
                          /\ consecutive_signals' \in Nat
                          /\ decision'.action \in Actions
             Counted == /\ cooldown_remaining' \in 0 .. config.cooldown_windows
                        /\ recovery_streak' \in Nat
                        /\ on_fallback' \in BOOLEAN
  <2>1. config.cooldown_windows \in Nat
    BY ConfigsAssumption DEF TypeOK
  <2>2. ASSUME NEW action \in Actions, NEW target, Conclude(w, action, target)
        PROVE  Concluded
    BY <2>2, ConcludeType
  <2>3. /\ CooldownAfter(w) \in 0 .. config.cooldown_windows
        /\ StreakAfter(w) \in Nat
        /\ CooledDown \in 0 .. config.cooldown_windows
    BY <2>1, AfterType, CooledDownType DEF TypeOK
  <2>4. CASE HoldFallback(w)
    <3>1. Concluded
      BY <2>2, <2>4 DEF HoldFallback, Actions
    <3>2. Counted
      BY <2>3, <2>4 DEF HoldFallback, TypeOK
    <3>3. QED
      BY <1>1, <3>1, <3>2, RecordType DEF TypeOK
  <2>5. CASE ReturnToPrimary(w)
    <3>1. Concluded
      BY <2>2, <2>5 DEF ReturnToPrimary, Actions
    <3>2. Counted
      BY <2>3, <2>5 DEF ReturnToPrimary
    <3>3. QED
      BY <1>1, <3>1, <3>2, RecordType DEF TypeOK
  <2>6. CASE RouteToFallback(w)
    <3>1. Concluded
      BY <2>2, <2>6 DEF RouteToFallback, Actions
    <3>2. Counted
      BY <2>1, <2>6 DEF RouteToFallback
    <3>3. QED
      BY <1>1, <3>1, <3>2, RecordType DEF TypeOK
  <2>7. CASE StayOnPrimary(w)
    <3>1. Concluded
      BY <2>2, <2>7 DEF StayOnPrimary, Actions
    <3>2. Counted
      BY <2>3, <2>7 DEF StayOnPrimary, TypeOK
    <3>3. QED
      BY <1>1, <3>1, <3>2, RecordType DEF TypeOK
  <2>8. QED
    BY <1>1, <2>4, <2>5, <2>6, <2>7 DEF evaluate
<1>2. CASE UNCHANGED historyVars
  BY <1>2 DEF historyVars, vars, TypeOK
<1>3. QED
  BY <1>1, <1>2 DEF HistoryNext

(* The type invariant of the structural policy and of its history.         *)
THEOREM TypeCorrect == HistorySpec => []TypeOK
<1>1. HistoryInit => TypeOK
  <2> SUFFICES ASSUME HistoryInit PROVE TypeOK
    OBVIOUS
  <2>1. /\ config.history_window \in Nat
        /\ config.min_consecutive_signals \in Nat
        /\ config.cooldown_windows \in Nat
        /\ config.recovery_windows \in Nat
    BY ConfigsAssumption DEF HistoryInit, Init
  <2>2. /\ hazard_history \in Seq(Int) /\ Len(hazard_history) = 0
        /\ rupture_history \in Seq(Int) /\ Len(rupture_history) = 0
    BY DEF HistoryInit, Init
  <2>3. decision.action = "NONE"
    BY DEF HistoryInit, Init, NoDecision
  <2>4. /\ config \in Configs
        /\ consecutive_signals = 0 /\ cooldown_remaining = 0 /\ recovery_streak = 0
        /\ calm = 0 /\ quiet = 0 /\ signals = 0
    BY DEF HistoryInit, Init
  <2>5. on_fallback \in BOOLEAN /\ steady \in BOOLEAN
    BY DEF HistoryInit, Init
  <2>6. QED
    BY <2>1, <2>2, <2>3, <2>4, <2>5 DEF TypeOK
<1>2. QED
  BY <1>1, TypeStep, PTL DEF HistorySpec

-----------------------------------------------------------------------------
(* Counting one further before or after saturating makes no difference.    *)
LEMMA UpToStep ==
  ASSUME NEW n \in Nat, NEW limit \in Nat
  PROVE  UpTo(UpTo(n, limit) + 1, limit) = UpTo(n + 1, limit)
BY DEF UpTo

(* The limits of a configuration are naturals.                             *)
LEMMA LimitsNat ==
  ASSUME TypeOK
  PROVE  /\ config.recovery_windows \in Nat
         /\ config.cooldown_windows \in Nat
         /\ config.min_consecutive_signals \in Nat
BY ConfigsAssumption DEF TypeOK

(* One evaluation on the fallback counts the streak and the cooldown just  *)
(* as the history counts calm and quiet.                                   *)
LEMMA FallbackCounts ==
  ASSUME TypeOK, StreakEarned, CooldownMeasuresQuiet, on_fallback,
         NEW w, Record(w)
  PROVE  /\ UpTo(StreakAfter(w), config.recovery_windows) = calm'
         /\ CooldownAfter(w) = config.cooldown_windows - quiet'
<1>1. /\ config.recovery_windows \in Nat
      /\ config.cooldown_windows \in Nat
  BY LimitsNat
<1>2. /\ calm = UpTo(recovery_streak, config.recovery_windows)
      /\ recovery_streak \in Nat
      /\ cooldown_remaining = config.cooldown_windows - quiet
      /\ quiet \in 0 .. config.cooldown_windows
  BY DEF TypeOK, StreakEarned, CooldownMeasuresQuiet
<1>3. CASE Trigger(w)
  <2>1. calm' = 0 /\ quiet' = 0
    BY <1>3 DEF Record, Verdict
  <2>2. StreakAfter(w) = 0 /\ CooldownAfter(w) = config.cooldown_windows
    BY <1>3 DEF StreakAfter, CooldownAfter
  <2>3. QED
    BY <1>1, <2>1, <2>2 DEF UpTo
<1>4. CASE ~Trigger(w)
  <2>1. quiet' = UpTo(quiet + 1, config.cooldown_windows)
    BY <1>4 DEF Record, Verdict
  <2>2. CooldownAfter(w) = config.cooldown_windows - quiet'
    BY <1>1, <1>2, <1>4, <2>1 DEF CooldownAfter, CooledDown, UpTo
  <2>3. CASE InRecoveryBand(w)
    <3>1. calm' = UpTo(calm + 1, config.recovery_windows)
      BY <1>4, <2>3 DEF Record, Verdict
    <3>2. StreakAfter(w) = recovery_streak + 1
      BY <1>4, <2>3 DEF StreakAfter
    <3>3. QED
      BY <1>1, <1>2, <2>2, <3>1, <3>2, UpToStep
  <2>4. CASE ~InRecoveryBand(w)
    <3>1. calm' = 0 /\ StreakAfter(w) = 0
      BY <1>4, <2>4 DEF Record, Verdict, StreakAfter
    <3>2. QED
      BY <1>1, <2>2, <3>1 DEF UpTo
  <2>5. QED
    BY <2>3, <2>4
<1>5. QED
  BY <1>3, <1>4

(* The net count of signals stays below the signals delivered.             *)
LEMMA SignalsStep ==
  ASSUME TypeOK, SignalsEarned, NEW w, Record(w), config' = config,
         consecutive_signals' = SignalsAfter(w)
  PROVE  SignalsEarned'
<1>1. /\ config.min_consecutive_signals \in Nat
      /\ consecutive_signals \in Nat
      /\ signals \in 0 .. config.min_consecutive_signals
  BY LimitsNat DEF TypeOK
<1>2. UpTo(consecutive_signals, config.min_consecutive_signals) <= signals
  BY DEF SignalsEarned
<1>3. signals' = SignalsSeen(w)
  BY DEF Record
<1>4. UpTo(SignalsAfter(w), config.min_consecutive_signals) <= SignalsSeen(w)
  BY <1>1, <1>2 DEF SignalsAfter, SignalsSeen, UpTo
<1>5. QED
  BY <1>3, <1>4 DEF SignalsEarned

(* Every way an evaluation can end keeps the counters honest.              *)
LEMMA CountersStep ==
  TypeOK /\ CountersHonest /\ [HistoryNext]_historyVars => CountersHonest'
<1> SUFFICES ASSUME TypeOK, CountersHonest, [HistoryNext]_historyVars
             PROVE  CountersHonest'
  OBVIOUS
<1>1. ASSUME NEW w \in Windows, evaluate(w), Record(w)
      PROVE  CountersHonest'
  <2>1. config' = config /\ consecutive_signals' = SignalsAfter(w)
    BY <1>1 DEF evaluate, HoldFallback, ReturnToPrimary, RouteToFallback,
                StayOnPrimary, Conclude
  <2>2. SignalsEarned'
    BY <1>1, <2>1, SignalsStep DEF CountersHonest
  <2>3. config.recovery_windows \in Nat /\ config.cooldown_windows \in Nat
    BY LimitsNat
  <2>4. CASE HoldFallback(w)
    <3>1. /\ UpTo(StreakAfter(w), config.recovery_windows) = calm'
          /\ CooldownAfter(w) = config.cooldown_windows - quiet'
      BY <1>1, <2>4, FallbackCounts DEF HoldFallback, CountersHonest
    <3>2. on_fallback'
      BY <2>4 DEF HoldFallback
    <3>3. StreakEarned'
      BY <2>1, <2>4, <3>1 DEF HoldFallback, StreakEarned
    <3>4. CooldownMeasuresQuiet'
      BY <2>1, <2>4, <3>1, <3>2 DEF HoldFallback, CooldownMeasuresQuiet
    <3>5. QED
      BY <2>2, <3>3, <3>4 DEF CountersHonest
  <2>5. CASE ReturnToPrimary(w)
    <3>1. ~on_fallback' /\ cooldown_remaining' = 0
      BY <2>5 DEF ReturnToPrimary, MayReturn
    <3>2. StreakEarned' /\ CooldownMeasuresQuiet'
      BY <3>1 DEF StreakEarned, CooldownMeasuresQuiet
    <3>3. QED
      BY <2>2, <3>2 DEF CountersHonest
  <2>6. CASE RouteToFallback(w)
    <3>1. calm' = 0 /\ quiet' = 0
      BY <1>1, <2>6 DEF RouteToFallback, Record, Verdict
    <3>2. StreakEarned'
      BY <2>1, <2>3, <2>6, <3>1 DEF RouteToFallback, StreakEarned, UpTo
    <3>3. CooldownMeasuresQuiet'
      BY <2>1, <2>3, <2>6, <3>1 DEF RouteToFallback, CooldownMeasuresQuiet
    <3>4. QED
      BY <2>2, <3>2, <3>3 DEF CountersHonest
  <2>7. CASE StayOnPrimary(w)
    <3>1. ~on_fallback'
      BY <2>7 DEF StayOnPrimary
    <3>2. cooldown_remaining' = 0
      BY <2>7 DEF StayOnPrimary, CooledDown, CountersHonest, CooldownMeasuresQuiet
    <3>3. StreakEarned' /\ CooldownMeasuresQuiet'
      BY <3>1, <3>2 DEF StreakEarned, CooldownMeasuresQuiet
    <3>4. QED
      BY <2>2, <3>3 DEF CountersHonest
  <2>8. QED
    BY <1>1, <2>4, <2>5, <2>6, <2>7 DEF evaluate
<1>2. CASE UNCHANGED historyVars
  BY <1>2 DEF historyVars, vars, CountersHonest, StreakEarned,
              CooldownMeasuresQuiet, SignalsEarned
<1>3. QED
  BY <1>1, <1>2 DEF HistoryNext

(* The counters are honest before the first window.                        *)
LEMMA CountersInit == HistoryInit => CountersHonest
<1> SUFFICES ASSUME HistoryInit PROVE CountersHonest
  OBVIOUS
<1>1. config.min_consecutive_signals \in Nat
  BY ConfigsAssumption DEF HistoryInit, Init
<1>2. /\ consecutive_signals = 0 /\ signals = 0
      /\ ~on_fallback /\ cooldown_remaining = 0
  BY DEF HistoryInit, Init
<1>3. QED
  BY <1>1, <1>2 DEF CountersHonest, StreakEarned, CooldownMeasuresQuiet,
                    SignalsEarned, UpTo

(* The streak, the cooldown and the signal count always measure what the   *)
(* stream delivered; in particular the cooldown is spent on the primary.   *)
THEOREM CountersAreHonest == HistorySpec => []CountersHonest
BY CountersInit, CountersStep, TypeCorrect, PTL DEF HistorySpec

-----------------------------------------------------------------------------
(* The promise of FailoverPromise                                          *)

(* The history counts verdicts exactly as the promise does.                *)
LEMMA RecordCounts ==
  ASSUME NEW w, Record(w), config' = config
  PROVE  Promised!Count(Verdict(w))
BY DEF Record, Promised!Count, Promised!CalmAfter, Promised!QuietAfter,
       UpTo, Promised!UpTo

(* A window is one of the verdicts the promise knows.                      *)
LEMMA VerdictKnown ==
  ASSUME NEW w
  PROVE  Verdict(w) \in Promised!Verdicts
BY DEF Verdict, Promised!Verdicts

(* What the guard of a return asks of the counters is what the promise     *)
(* asks of the stream.                                                     *)
LEMMA SustainedMeans ==
  ASSUME TypeOK, CountersHonest, on_fallback, NEW w, Record(w), config' = config
  PROVE  StreakAfter(w) >= config.recovery_windows /\ CooldownAfter(w) = 0
           <=> calm' >= config.recovery_windows /\ quiet' >= config.cooldown_windows
<1>1. config.recovery_windows \in Nat /\ config.cooldown_windows \in Nat
  BY LimitsNat
<1>2. /\ UpTo(StreakAfter(w), config.recovery_windows) = calm'
      /\ CooldownAfter(w) = config.cooldown_windows - quiet'
  BY FallbackCounts DEF CountersHonest
<1>3. StreakAfter(w) \in Nat /\ quiet' \in 0 .. config.cooldown_windows
  BY AfterType, RecordType
<1>4. StreakAfter(w) >= config.recovery_windows <=> calm' >= config.recovery_windows
  BY <1>1, <1>2, <1>3 DEF UpTo
<1>5. CooldownAfter(w) = 0 <=> quiet' >= config.cooldown_windows
  BY <1>1, <1>2, <1>3
<1>6. QED
  BY <1>4, <1>5

(* Every evaluation departs, returns or remains as the promise allows.     *)
LEMMA PromiseStep ==
  TypeOK /\ CountersHonest /\ [HistoryNext]_historyVars
    => [Promised!PromiseNext]_(Promised!promiseVars)
<1> SUFFICES ASSUME TypeOK, CountersHonest, [HistoryNext]_historyVars
             PROVE  [Promised!PromiseNext]_(Promised!promiseVars)
  OBVIOUS
<1>1. ASSUME NEW w \in Windows, evaluate(w), Record(w)
      PROVE  Promised!PromiseNext
  <2>1. config' = config
    BY <1>1 DEF evaluate, HoldFallback, ReturnToPrimary, RouteToFallback,
                StayOnPrimary, Conclude
  <2>2. Promised!Count(Verdict(w))
    BY <1>1, <2>1, RecordCounts
  <2>3. Verdict(w) \in Promised!Verdicts
    BY VerdictKnown
  <2>4. /\ calm' = Promised!CalmAfter(Verdict(w))
        /\ quiet' = Promised!QuietAfter(Verdict(w))
    BY <2>2 DEF Promised!Count
  <2>5. Promised!Sustained(Verdict(w))
          <=> calm' >= config.recovery_windows /\ quiet' >= config.cooldown_windows
    BY <2>4 DEF Promised!Sustained
  <2>6. CASE HoldFallback(w)
    <3>1. ASSUME Verdict(w) = "settled"
          PROVE  ~Promised!Sustained(Verdict(w))
      <4>1. ~observe_condition(w)
        BY <3>1 DEF Verdict
      <4>2. ~(StreakAfter(w) >= config.recovery_windows /\ CooldownAfter(w) = 0)
        BY <2>6, <4>1 DEF HoldFallback, MayReturn
      <4>3. ~(calm' >= config.recovery_windows /\ quiet' >= config.cooldown_windows)
        BY <1>1, <2>1, <2>6, <4>2, SustainedMeans DEF HoldFallback
      <4>4. QED
        BY <2>5, <4>3
    <3>2. Promised!Remain(Verdict(w))
      BY <2>2, <2>6, <3>1 DEF HoldFallback, Promised!Remain
    <3>3. QED
      BY <2>3, <3>2 DEF Promised!PromiseNext
  <2>7. CASE ReturnToPrimary(w)
    <3>1. calm' >= config.recovery_windows /\ quiet' >= config.cooldown_windows
      BY <1>1, <2>1, <2>7, SustainedMeans DEF ReturnToPrimary, MayReturn
    <3>2. Promised!Return(Verdict(w))
      BY <2>2, <2>5, <2>7, <3>1 DEF ReturnToPrimary, Promised!Return
    <3>3. QED
      BY <2>3, <3>2 DEF Promised!PromiseNext
  <2>8. CASE RouteToFallback(w)
    <3>1. Verdict(w) = "trouble"
      BY <2>8 DEF RouteToFallback, Verdict
    <3>2. Promised!Depart(Verdict(w))
      BY <2>2, <2>8, <3>1 DEF RouteToFallback, Promised!Depart
    <3>3. QED
      BY <2>3, <3>2 DEF Promised!PromiseNext
  <2>9. CASE StayOnPrimary(w)
    <3>1. Promised!Remain(Verdict(w))
      BY <2>2, <2>9 DEF StayOnPrimary, Promised!Remain
    <3>2. QED
      BY <2>3, <3>1 DEF Promised!PromiseNext
  <2>10. QED
    BY <1>1, <2>6, <2>7, <2>8, <2>9 DEF evaluate
<1>2. CASE UNCHANGED historyVars
  BY <1>2 DEF historyVars, vars, Promised!promiseVars
<1>3. QED
  BY <1>1, <1>2 DEF HistoryNext

(* The policy starts where the promise does.                               *)
LEMMA PromiseStart == HistoryInit => Promised!PromiseInit
<1> SUFFICES ASSUME HistoryInit PROVE Promised!PromiseInit
  OBVIOUS
<1>1. config.recovery_windows \in Nat /\ config.cooldown_windows \in Nat
  BY ConfigsAssumption DEF HistoryInit, Init
<1>2. ~on_fallback /\ on_fallback \in BOOLEAN /\ calm = 0 /\ quiet = 0
  BY DEF HistoryInit, Init
<1>3. QED
  BY <1>1, <1>2 DEF Promised!PromiseInit

(* The structural policy implements the promise: it leaves the primary     *)
(* only on trouble, and every return comes after recovery_windows calm     *)
(* windows in a row and cooldown_windows windows after the last trouble,   *)
(* at the first window then that leaves nothing to observe.                *)
THEOREM KeepsPromise == HistorySpec => PromiseKept
<1>1. HistorySpec => []TypeOK /\ []CountersHonest
  BY CountersInit, CountersStep, TypeCorrect, PTL DEF HistorySpec
<1>2. QED
  BY <1>1, PromiseStart, PromiseStep, PTL DEF HistorySpec, PromiseKept, Promised!Promise
-----------------------------------------------------------------------------
(* Where the traffic goes, and what it takes to leave                      *)

(* The policy is away only when there is a fallback; this is what carries  *)
(* a routing decision from the window that chose it to those that hold it. *)
AwayHasFallback == on_fallback => fallback_target # NoTarget

Elsewhere == AwayHasFallback /\ FallbackIsElsewhere

(* The fallback of a configuration is listed and is not its primary.       *)
LEMMA FallbackFound ==
  ASSUME config \in Configs, fallback_target # NoTarget
  PROVE  /\ fallback_target # primary_target
         /\ Listed(config.topology.provider_priority, fallback_target)
<1>1. IsPriority(config.topology.provider_priority)
  BY ConfigsAssumption
<1>2. QED
  BY <1>1, FallbackDiffers DEF IsPriority, fallback_target

(* Every evaluation keeps traffic away only where there is a fallback, and *)
(* names it.                                                               *)
LEMMA ElsewhereStep ==
  TypeOK /\ Elsewhere /\ [HistoryNext]_historyVars => Elsewhere'
<1> SUFFICES ASSUME TypeOK, Elsewhere, [HistoryNext]_historyVars
             PROVE  Elsewhere'
  OBVIOUS
<1>1. ASSUME NEW w \in Windows, evaluate(w)
      PROVE  Elsewhere'
  <2>1. config' = config
    BY <1>1 DEF evaluate, HoldFallback, ReturnToPrimary, RouteToFallback,
                StayOnPrimary, Conclude
  <2>2. fallback_target' = fallback_target /\ primary_target' = primary_target
    BY <2>1 DEF fallback_target, primary_target
  <2>3. ASSUME decision'.action = "ROUTE_FALLBACK",
               decision'.selected_target = fallback_target,
               fallback_target # NoTarget
        PROVE  Elsewhere'
    BY <2>1, <2>2, <2>3, FallbackFound
       DEF Elsewhere, AwayHasFallback, FallbackIsElsewhere, TypeOK
  <2>4. ASSUME decision'.action # "ROUTE_FALLBACK", ~on_fallback'
        PROVE  Elsewhere'
    BY <2>4 DEF Elsewhere, AwayHasFallback, FallbackIsElsewhere
  <2>5. CASE HoldFallback(w)
    BY <2>3, <2>5 DEF HoldFallback, Conclude, Elsewhere, AwayHasFallback
  <2>6. CASE ReturnToPrimary(w)
    BY <2>4, <2>6 DEF ReturnToPrimary, Conclude
  <2>7. CASE RouteToFallback(w)
    BY <2>3, <2>7 DEF RouteToFallback, Conclude
  <2>8. CASE StayOnPrimary(w)
    BY <2>4, <2>8 DEF StayOnPrimary, Conclude
  <2>9. QED
    BY <1>1, <2>5, <2>6, <2>7, <2>8 DEF evaluate
<1>2. CASE UNCHANGED historyVars
  BY <1>2 DEF historyVars, vars, Elsewhere, AwayHasFallback,
              FallbackIsElsewhere, fallback_target, primary_target
<1>3. QED
  BY <1>1, <1>2 DEF HistoryNext

(* Before the first window traffic is on the primary.                      *)
LEMMA ElsewhereInit == HistoryInit => Elsewhere
BY DEF HistoryInit, Init, NoDecision, Elsewhere, AwayHasFallback, FallbackIsElsewhere

(* A decision to route always names a listed target that is not the        *)
(* primary, whatever the topology and however long ago it was chosen.      *)
THEOREM RoutesElsewhere == HistorySpec => []FallbackIsElsewhere
<1>1. Elsewhere => FallbackIsElsewhere
  BY DEF Elsewhere
<1>2. QED
  BY <1>1, ElsewhereInit, ElsewhereStep, TypeCorrect, PTL DEF HistorySpec

(* An evaluation that leaves without an emergency has met route_condition, *)
(* and so has counted enough signals, all of them delivered.               *)
LEMMA DepartureStep ==
  ASSUME TypeOK, CountersHonest, CountersHonest', [HistoryNext]_historyVars,
         ~on_fallback, on_fallback', ~emergency(decision.window)'
  PROVE  signals' >= config.min_consecutive_signals
<1>1. PICK w \in Windows : evaluate(w) /\ Record(w)
  BY DEF HistoryNext, historyVars, vars
<1>2. RouteToFallback(w)
  BY <1>1 DEF evaluate, HoldFallback, ReturnToPrimary, StayOnPrimary
<1>3. config' = config /\ decision'.window = w
  BY <1>2 DEF RouteToFallback, Conclude
<1>4. ~emergency(w)
  BY <1>3 DEF emergency
<1>5. SignalsAfter(w) >= config.min_consecutive_signals
  BY <1>2, <1>4 DEF RouteToFallback, Trigger, route_condition
<1>6. consecutive_signals' = SignalsAfter(w)
  BY <1>2 DEF RouteToFallback, Conclude
<1>7. SignalsAfter(w) \in Nat /\ config.min_consecutive_signals \in Nat
  BY SignalsAfterType, ConfigsAssumption DEF TypeOK
<1>8. UpTo(consecutive_signals', config.min_consecutive_signals) <= signals'
  BY <1>3 DEF CountersHonest, SignalsEarned, UpTo
<1>9. QED
  BY <1>5, <1>6, <1>7, <1>8 DEF UpTo

(* Leaving the primary without an emergency takes the configured number of *)
(* signals since the stream was last inside the recovery band.             *)
THEOREM DeparturesAreEarned == HistorySpec => RouteNeedsSignals
<1>1. TypeOK /\ CountersHonest /\ CountersHonest' /\ [HistoryNext]_historyVars
      => [ /\ ~on_fallback
           /\ on_fallback'
           /\ ~emergency(decision.window)'
           => signals' >= config.min_consecutive_signals ]_historyVars
  BY DepartureStep
<1>2. HistorySpec => []TypeOK /\ []CountersHonest
  BY CountersInit, CountersStep, TypeCorrect, PTL DEF HistorySpec
<1>3. QED
  BY <1>1, <1>2, PTL DEF HistorySpec, RouteNeedsSignals
-----------------------------------------------------------------------------
(* A stream that never changes                                             *)

Constantly(h, v) == \A i \in DOMAIN h : h[i] = v

(* Every rank of a constant sequence is its value.                         *)
LEMMA RankedConstant ==
  ASSUME NEW h \in Seq(Int), NEW v \in Int, Constantly(h, v),
         NEW k \in 1 .. Len(h)
  PROVE  Ranked(h, k) = v
<1> DEFINE values == {h[i] : i \in DOMAIN h}
           below(u) == {i \in DOMAIN h : h[i] < u}
           upTo(u) == {i \in DOMAIN h : h[i] <= u}
<1>1. DOMAIN h = 1 .. Len(h) /\ Len(h) \in Nat
  OBVIOUS
<1>2. values = {v}
  BY <1>1 DEF Constantly
<1>3. below(v) = {} /\ upTo(v) = 1 .. Len(h)
  BY <1>1 DEF Constantly
<1>4. Cardinality(below(v)) = 0
  BY <1>3, FS_EmptySet
<1>5. Cardinality(upTo(v)) = Len(h)
  <2>1. \A n \in Nat : Cardinality(1 .. n) = IF 1 > n THEN 0 ELSE n - 1 + 1
    BY FS_Interval
  <2>2. Cardinality(1 .. Len(h)) = Len(h)
    BY <1>1, <2>1
  <2>3. QED
    BY <1>3, <2>2
<1>6. v \in values /\ Cardinality(below(v)) < k /\ k <= Cardinality(upTo(v))
  BY <1>2, <1>4, <1>5
<1>7. Ranked(h, k) = CHOOSE u \in values :
                       Cardinality(below(u)) < k /\ k <= Cardinality(upTo(u))
  BY DEF Ranked
<1> HIDE DEF values, below, upTo
<1>8. Ranked(h, k) \in values
  BY <1>6, <1>7
<1>9. QED
  BY <1>2, <1>8

(* A value is no distance from a history that holds nothing else.          *)
LEMMA NoDelta ==
  ASSUME NEW h \in Seq(Int), NEW v \in Int, Constantly(h, v)
  PROVE  DoubleDelta(v, h) = 0
<1>1. CASE h = << >>
  BY <1>1 DEF DoubleDelta
<1>2. CASE h # << >>
  <2>1. /\ Len(h) \in Nat \ {0}
        /\ (Len(h) + 1) \div 2 \in 1 .. Len(h)
        /\ (Len(h) \div 2) + 1 \in 1 .. Len(h)
    BY <1>2
  <2>2. DoubleMedian(h) = v + v
    BY <2>1, RankedConstant DEF DoubleMedian
  <2>3. QED
    BY <1>2, <2>2 DEF DoubleDelta
<1>3. QED
  BY <1>1, <1>2

(* Remembering the same value once more keeps a history constant.          *)
LEMMA RememberConstant ==
  ASSUME NEW h \in Seq(Int), NEW v \in Int, Constantly(h, v)
  PROVE  Constantly(Remember(h, v), v)
<1> DEFINE longer == Append(h, v)
<1>1. /\ longer \in Seq(Int)
      /\ Len(longer) = Len(h) + 1
      /\ \A i \in 1 .. Len(longer) : longer[i] = v
  BY DEF Constantly
<1>2. longer # << >>
  BY <1>1
<1>3. /\ Tail(longer) \in Seq(Int)
      /\ Len(Tail(longer)) = Len(h)
      /\ \A i \in 1 .. Len(Tail(longer)) : Tail(longer)[i] = longer[i + 1]
  BY <1>1, <1>2
<1>4. Constantly(longer, v)
  BY <1>1 DEF Constantly
<1>5. Constantly(Tail(longer), v)
  BY <1>1, <1>3 DEF Constantly
<1>6. QED
  BY <1>4, <1>5 DEF Remember

(* A configuration for which a change can be told from none: both least    *)
(* deltas and the number of signals are positive, the levels are numbers.  *)
Discerning ==
  /\ config.min_hazard_delta \in Nat \ {0}
  /\ config.min_rupture_delta \in Nat \ {0}
  /\ config.min_consecutive_signals > 0
  /\ config.emergency_hazard \in Int
  /\ config.emergency_rupture \in Int

BelowEmergency(w) ==
  /\ w.hazard < config.emergency_hazard
  /\ w.rupture < config.emergency_rupture

(* No signal was counted, and traffic is where it began.                   *)
AtHome == consecutive_signals = 0 /\ ~on_fallback

(* While the stream is steady and below the emergency levels, both         *)
(* histories hold nothing but its two levels and no signal was counted.    *)
SteadyInv ==
  /\ decision.action = "NONE" =>
       hazard_history = << >> /\ rupture_history = << >> /\ AtHome
  /\ Discerning /\ steady /\ decision.action # "NONE" /\ BelowEmergency(decision.window) =>
       /\ Constantly(hazard_history, decision.window.hazard)
       /\ Constantly(rupture_history, decision.window.rupture)
       /\ AtHome

(* A window like all before it is no signal and no trigger.                *)
LEMMA NothingNew ==
  ASSUME TypeOK, Discerning, AtHome, NEW w \in Windows, BelowEmergency(w),
         Constantly(hazard_history, w.hazard),
         Constantly(rupture_history, w.rupture)
  PROVE  SignalsAfter(w) = 0 /\ ~Trigger(w)
<1>1. w.hazard \in Int /\ w.rupture \in Int
  BY WindowsAssumption
<1>2. hazard_delta(w) = 0 /\ rupture_delta(w) = 0
  BY <1>1, NoDelta DEF TypeOK, hazard_delta, rupture_delta
<1>3. ~signal_detected(w)
  BY <1>1, <1>2 DEF signal_detected, Discerning, BelowEmergency
<1>4. SignalsAfter(w) = 0
  BY <1>3 DEF SignalsAfter, AtHome
<1>5. ~emergency(w)
  BY <1>1 DEF emergency, Discerning, BelowEmergency
<1>6. config.min_consecutive_signals \in Nat
  BY LimitsNat
<1>7. ~route_condition(w)
  BY <1>4, <1>6 DEF route_condition, Discerning
<1>8. QED
  BY <1>4, <1>5, <1>7 DEF Trigger

(* A further window that is like the others leaves everything as it was.   *)
LEMMA SteadyStep ==
  TypeOK /\ SteadyInv /\ [HistoryNext]_historyVars => SteadyInv'
<1> SUFFICES ASSUME TypeOK, SteadyInv, [HistoryNext]_historyVars
             PROVE  SteadyInv'
  OBVIOUS
<1>1. ASSUME NEW w \in Windows, evaluate(w), Record(w)
      PROVE  SteadyInv'
  <2>1. /\ config' = config
        /\ consecutive_signals' = SignalsAfter(w)
        /\ hazard_history' = Remember(hazard_history, w.hazard)
        /\ rupture_history' = Remember(rupture_history, w.rupture)
        /\ decision'.window = w
        /\ decision'.action # "NONE"
    BY <1>1 DEF evaluate, HoldFallback, ReturnToPrimary, RouteToFallback,
                StayOnPrimary, Conclude
  <2>2. Discerning' <=> Discerning
    BY <2>1 DEF Discerning
  <2>3. BelowEmergency(decision.window)' <=> BelowEmergency(w)
    BY <2>1 DEF BelowEmergency
  <2>4. SUFFICES ASSUME Discerning, steady', BelowEmergency(w)
                 PROVE  /\ Constantly(hazard_history', w.hazard)
                        /\ Constantly(rupture_history', w.rupture)
                        /\ AtHome'
    BY <2>1, <2>2, <2>3 DEF SteadyInv
  <2>5. w.hazard \in Int /\ w.rupture \in Int
    BY WindowsAssumption
  <2>6. /\ Constantly(hazard_history, w.hazard)
        /\ Constantly(rupture_history, w.rupture)
        /\ AtHome
    <3>1. CASE decision.action = "NONE"
      BY <3>1 DEF SteadyInv, Constantly
    <3>2. CASE decision.action # "NONE"
      <4>1. /\ steady
            /\ decision.window.hazard = w.hazard
            /\ decision.window.rupture = w.rupture
        BY <1>1, <2>4, <3>2 DEF Record
      <4>2. BelowEmergency(decision.window)
        BY <2>4, <4>1 DEF BelowEmergency
      <4>3. QED
        BY <2>4, <3>2, <4>1, <4>2 DEF SteadyInv
    <3>3. QED
      BY <3>1, <3>2
  <2>7. SignalsAfter(w) = 0 /\ ~Trigger(w)
    BY <2>4, <2>6, NothingNew
  <2>8. ~on_fallback'
    BY <1>1, <2>6, <2>7 DEF evaluate, HoldFallback, ReturnToPrimary,
                            RouteToFallback, StayOnPrimary, AtHome
  <2>9. AtHome'
    BY <2>1, <2>7, <2>8 DEF AtHome
  <2>10. /\ Constantly(hazard_history', w.hazard)
         /\ Constantly(rupture_history', w.rupture)
    BY <2>1, <2>5, <2>6, RememberConstant DEF TypeOK
  <2>11. QED
    BY <2>9, <2>10
<1>2. CASE UNCHANGED historyVars
  BY <1>2 DEF historyVars, vars, SteadyInv, Discerning, BelowEmergency, AtHome
<1>3. QED
  BY <1>1, <1>2 DEF HistoryNext

(* A stream whose windows never change is never routed away from for its   *)
(* level alone, for every configuration that can tell a change from none:  *)
(* its deltas against the median are zero, so no signal is ever counted.   *)
THEOREM SteadyStreamIsKept == HistorySpec => [](Discerning => SteadyStreamStaysHome)
<1>1. HistoryInit => SteadyInv
  BY DEF HistoryInit, Init, NoDecision, SteadyInv, AtHome
<1>2. SteadyInv => (Discerning => SteadyStreamStaysHome)
  BY DEF SteadyInv, SteadyStreamStaysHome, BelowEmergency, AtHome
<1>3. QED
  BY <1>1, <1>2, SteadyStep, TypeCorrect, PTL DEF HistorySpec
=============================================================================
