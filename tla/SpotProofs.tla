----------------------------- MODULE SpotProofs -----------------------------
(***************************************************************************)
(* Proofs about the two spot components that stand on their own: the       *)
(* baselines (SpotBaselinesHistory), for all configurations that satisfy   *)
(* the assumption and all integer prices, and the datasets (SpotDatasets), *)
(* for any number of runs and any archives that satisfy the assumption.    *)
(***************************************************************************)
EXTENDS SpotBaselinesHistory, SpotDatasets, TLAPS

-----------------------------------------------------------------------------
(***************************************************************************)
(* The baselines.                                                          *)
(***************************************************************************)

(* The limits of a configuration are naturals.                             *)
LEMMA LimitsNat ==
  ASSUME TypeOK
  PROVE  /\ \A p \in Policies : config[p].cooldown_points \in Nat
         /\ \A p \in Priced : config[p].rolling_window_points \in Nat \ {0}
BY ConfigsAssumption DEF TypeOK

(* Pushing onto a bounded deque keeps its type and its bound.              *)
LEMMA PushBoundedType ==
  ASSUME NEW s \in Seq(Int), NEW v \in Int, NEW bound
  PROVE  /\ PushBounded(s, v, bound) \in Seq(Int)
         /\ bound \in Nat /\ Len(s) <= bound => Len(PushBounded(s, v, bound)) <= bound
<1>1. /\ Append(s, v) \in Seq(Int)
      /\ Len(Append(s, v)) = Len(s) + 1
  OBVIOUS
<1>2. /\ Append(s, v) # << >>
      /\ Tail(Append(s, v)) \in Seq(Int)
      /\ Len(Tail(Append(s, v))) = Len(s)
  BY <1>1
<1>3. Len(s) \in Nat
  OBVIOUS
<1>4. QED
  BY <1>1, <1>2, <1>3 DEF PushBounded

(* The cooldown after one point is a natural no larger than before.        *)
LEMMA CooledDownType ==
  ASSUME TypeOK, NEW p \in Policies
  PROVE  /\ CooledDown(p) \in Nat
         /\ CooledDown(p) <= config[p].cooldown_points
         /\ CooledDown(p) = IF cooldown_remaining[p] = 0 THEN 0 ELSE cooldown_remaining[p] - 1
<1>1. cooldown_remaining[p] \in Nat /\ cooldown_remaining[p] <= config[p].cooldown_points
  BY DEF TypeOK
<1>2. config[p].cooldown_points \in Nat
  BY LimitsNat
<1>3. QED
  BY <1>1, <1>2 DEF CooledDown

-----------------------------------------------------------------------------
(* What one point does to a policy, however it decides.                    *)

(* A policy either migrates, is counted and starts its cooldown, or lets   *)
(* its cooldown run on.                                                    *)
LEMMA PolicyStep ==
  ASSUME TypeOK, NEW price, NEW lucky, evaluate(price, lucky), Record, NEW p \in Policies
  PROVE  \/ /\ action'[p] = "MIGRATE"
            /\ cooldown_remaining'[p] = config[p].cooldown_points
            /\ migrations'[p] = migrations[p] + 1
         \/ /\ action'[p] # "MIGRATE"
            /\ cooldown_remaining'[p] = CooledDown(p)
            /\ migrations'[p] = migrations[p]
<1>1. cooldown_remaining' = CooldownAfter(action')
  BY DEF evaluate
<1>2. cooldown_remaining'[p]
        = IF action'[p] = "MIGRATE" THEN config[p].cooldown_points ELSE CooledDown(p)
  BY <1>1 DEF CooldownAfter
<1>3. migrations'[p] = IF action'[p] = "MIGRATE" THEN migrations[p] + 1 ELSE migrations[p]
  BY DEF Record
<1>4. QED
  BY <1>2, <1>3

(* The action each policy chooses.                                         *)
LEMMA ChosenAction ==
  ASSUME NEW price, NEW lucky, evaluate(price, lucky)
  PROVE  /\ action'["reactive"] = ReactiveAction(price)
         /\ action'["zscore"] = ZScoreAction(price)
         /\ action'["always_migrate"] = AlwaysAction
         /\ action'["random"] = RandomAction(lucky)
         /\ action' \in [Policies -> Actions]
<1>1. action' = Chosen(price, lucky)
  BY DEF evaluate
<1>2. /\ ReactiveAction(price) \in Actions /\ ZScoreAction(price) \in Actions
      /\ AlwaysAction \in Actions /\ RandomAction(lucky) \in Actions
  BY DEF ReactiveAction, ZScoreAction, AlwaysAction, RandomAction, Actions
<1>3. QED
  BY <1>1, <1>2 DEF Chosen, Policies, Priced

(* No policy migrates before its cooldown is over, and the one that always *)
(* migrates does so as soon as it is.                                      *)
LEMMA MigratesWhenReady ==
  ASSUME NEW price, NEW lucky, evaluate(price, lucky)
  PROVE  /\ \A p \in Policies : action'[p] = "MIGRATE" => Ready(p)
         /\ action'["always_migrate"] = "MIGRATE" <=> Ready("always_migrate")
<1>1. action'["always_migrate"] = "MIGRATE" <=> Ready("always_migrate")
  BY ChosenAction DEF AlwaysAction
<1>2. /\ action'["reactive"] = "MIGRATE" => Ready("reactive")
      /\ action'["zscore"] = "MIGRATE" => Ready("zscore")
      /\ action'["random"] = "MIGRATE" => Ready("random")
  BY ChosenAction DEF ReactiveAction, ZScoreAction, RandomAction
<1>3. QED
  BY <1>1, <1>2 DEF Policies, Priced

-----------------------------------------------------------------------------
(* Types                                                                   *)

(* The velocities remembered after a point are integers.                   *)
LEMMA VelocitiesType ==
  ASSUME TypeOK, NEW price \in Int
  PROVE  VelocitiesAfter(price) \in Seq(Int)
<1> DEFINE prices == price_history["reactive"]
           w == config["reactive"].rolling_window_points
<1>1. prices \in Seq(Int) /\ velocity_history \in Seq(Int)
  BY DEF TypeOK, Priced
<1>2. CASE prices = << >>
  BY <1>1, <1>2 DEF VelocitiesAfter
<1>3. CASE prices # << >>
  <2> DEFINE v == price - prices[Len(prices)]
  <2>1. prices[Len(prices)] \in Int
    BY <1>1, <1>3
  <2>2. v \in Int
    BY <2>1
  <2>3. \A bound : PushBounded(velocity_history, v, bound) \in Seq(Int)
    BY <1>1, <2>2, PushBoundedType
  <2>4. QED
    BY <1>3, <2>3 DEF VelocitiesAfter
<1>4. QED
  BY <1>2, <1>3

(* A point with any draw keeps the type invariant.                         *)
LEMMA TypeStep == TypeOK /\ [HistoryNext]_historyVars => TypeOK'
<1> SUFFICES ASSUME TypeOK, [HistoryNext]_historyVars
             PROVE  TypeOK'
  OBVIOUS
<1>1. ASSUME NEW price \in Prices, NEW lucky \in Draws, evaluate(price, lucky), Record
      PROVE  TypeOK'
  <2>1. config' = config /\ price \in Int
    BY <1>1, PricesAssumption DEF evaluate
  <2>2. ASSUME NEW p \in Priced
        PROVE  /\ price_history'[p] \in Seq(Int)
               /\ Len(price_history'[p]) <= config[p].rolling_window_points
    <3>1. /\ price_history[p] \in Seq(Int)
          /\ Len(price_history[p]) <= config[p].rolling_window_points
      BY DEF TypeOK
    <3>2. config[p].rolling_window_points \in Nat
      BY LimitsNat
    <3>3. price_history'[p] = PushBounded(price_history[p], price, config[p].rolling_window_points)
      BY <1>1 DEF evaluate
    <3>4. QED
      BY <2>1, <3>1, <3>2, <3>3, PushBoundedType
  <2>3. price_history' \in [Priced -> Seq(Int)]
    BY <1>1, <2>2 DEF evaluate
  <2>4. velocity_history' \in Seq(Int)
    BY <1>1, <2>1, VelocitiesType DEF evaluate
  <2>5. \A p \in Policies : /\ cooldown_remaining'[p] \in Nat
                            /\ cooldown_remaining'[p] <= config[p].cooldown_points
    BY <1>1, PolicyStep, CooledDownType, LimitsNat
  <2>6. cooldown_remaining' \in [Policies -> Nat]
    BY <1>1, <2>5 DEF evaluate, CooldownAfter
  <2>7. action' \in [Policies -> Actions]
    BY <1>1, ChosenAction
  <2>8. points' \in Nat /\ migrations' \in [Policies -> Nat]
    BY <1>1 DEF Record, TypeOK
  <2>9. config' \in Configs
    BY <2>1 DEF TypeOK
  <2>10. QED
    BY <2>1, <2>2, <2>3, <2>4, <2>5, <2>6, <2>7, <2>8, <2>9 DEF TypeOK
<1>2. CASE UNCHANGED historyVars
  BY <1>2 DEF historyVars, vars, TypeOK
<1>3. QED
  BY <1>1, <1>2 DEF HistoryNext

(* The type invariant holds before the first point.                        *)
LEMMA TypeInit == HistoryInit => TypeOK
<1> SUFFICES ASSUME HistoryInit
             PROVE  TypeOK
  OBVIOUS
<1>1. config \in Configs
  BY DEF HistoryInit, Init
<1>2. /\ \A p \in Policies : config[p].cooldown_points \in Nat
      /\ \A p \in Priced : config[p].rolling_window_points \in Nat
  BY <1>1, ConfigsAssumption
<1>3. \A p \in Priced : price_history[p] = << >>
  BY DEF HistoryInit, Init, Fresh
<1>4. price_history \in [Priced -> Seq(Int)]
  BY DEF HistoryInit, Init, Fresh
<1>5. \A p \in Priced : Len(price_history[p]) <= config[p].rolling_window_points
  BY <1>2, <1>3
<1>6. \A p \in Policies : cooldown_remaining[p] <= config[p].cooldown_points
  BY <1>2 DEF HistoryInit, Init, Fresh
<1>7. QED
  BY <1>1, <1>4, <1>5, <1>6 DEF HistoryInit, Init, Fresh, TypeOK, Actions

(* Every reachable state is well typed.                                    *)
THEOREM TypeCorrect == HistorySpec => []TypeOK
BY TypeInit, TypeStep, PTL DEF HistorySpec
-----------------------------------------------------------------------------
(* Comparing two policies                                                  *)

(* Policy a has migrated more often than b, or as often and is ready again *)
(* no later.                                                               *)
Leads(a, b) ==
  \/ migrations[b] < migrations[a]
  \/ /\ migrations[b] = migrations[a]
     /\ cooldown_remaining[a] <= cooldown_remaining[b]

(* A lead is kept when a has the shorter cooldown and migrates, if it is   *)
(* ready, on every point b migrates on.                                    *)
LEMMA LeadStep ==
  ASSUME TypeOK, NEW price, NEW lucky, evaluate(price, lucky), Record,
         NEW a \in Policies, NEW b \in Policies,
         config[a].cooldown_points <= config[b].cooldown_points,
         action'[b] = "MIGRATE" /\ Ready(a) => action'[a] = "MIGRATE",
         Leads(a, b)
  PROVE  Leads(a, b)'
<1>1. /\ migrations[a] \in Nat /\ migrations[b] \in Nat
      /\ cooldown_remaining[a] \in Nat /\ cooldown_remaining[b] \in Nat
      /\ config[a].cooldown_points \in Nat /\ config[b].cooldown_points \in Nat
  BY LimitsNat DEF TypeOK
<1>2. /\ CooledDown(a) \in Nat /\ CooledDown(b) \in Nat
      /\ CooledDown(a) <= config[a].cooldown_points
      /\ cooldown_remaining[a] <= cooldown_remaining[b] => CooledDown(a) <= CooledDown(b)
  BY <1>1, CooledDownType
<1>3. CASE action'[b] = "MIGRATE"
  <2>1. /\ cooldown_remaining'[b] = config[b].cooldown_points
        /\ migrations'[b] = migrations[b] + 1
    BY <1>3, PolicyStep
  <2>2. CooledDown(b) = 0
    BY <1>3, MigratesWhenReady DEF Ready
  <2>3. CASE action'[a] = "MIGRATE"
    <3>1. /\ cooldown_remaining'[a] = config[a].cooldown_points
          /\ migrations'[a] = migrations[a] + 1
      BY <2>3, PolicyStep
    <3>2. QED
      BY <1>1, <2>1, <3>1 DEF Leads
  <2>4. CASE action'[a] # "MIGRATE"
    <3>1. /\ cooldown_remaining'[a] = CooledDown(a)
          /\ migrations'[a] = migrations[a]
      BY <2>4, PolicyStep
    <3>2. CooledDown(a) # 0
      BY <1>3, <2>4 DEF Ready
    <3>3. migrations[b] < migrations[a]
      BY <1>1, <1>2, <2>2, <3>2 DEF Leads
    <3>4. QED
      BY <1>1, <1>2, <2>1, <3>1, <3>3 DEF Leads
  <2>5. QED
    BY <2>3, <2>4
<1>4. CASE action'[b] # "MIGRATE"
  <2>1. /\ cooldown_remaining'[b] = CooledDown(b)
        /\ migrations'[b] = migrations[b]
    BY <1>4, PolicyStep
  <2>2. \/ migrations'[a] = migrations[a] + 1
        \/ /\ cooldown_remaining'[a] = CooledDown(a)
           /\ migrations'[a] = migrations[a]
    BY PolicyStep
  <2>3. QED
    BY <1>1, <1>2, <2>1, <2>2 DEF Leads
<1>5. QED
  BY <1>3, <1>4

-----------------------------------------------------------------------------
(* AlwaysIsGreediest                                                       *)

AlwaysLeads ==
  \A p \in Policies :
    config["always_migrate"].cooldown_points <= config[p].cooldown_points
      => Leads("always_migrate", p)

(* The lead of the always-migrating policy survives every point.           *)
LEMMA AlwaysLeadsStep == TypeOK /\ AlwaysLeads /\ [HistoryNext]_historyVars => AlwaysLeads'
<1> SUFFICES ASSUME TypeOK, AlwaysLeads, [HistoryNext]_historyVars
             PROVE  AlwaysLeads'
  OBVIOUS
<1>1. ASSUME NEW price \in Prices, NEW lucky \in Draws, evaluate(price, lucky), Record
      PROVE  AlwaysLeads'
  <2>1. config' = config
    BY <1>1 DEF evaluate
  <2>2. ASSUME NEW p \in Policies,
               config["always_migrate"].cooldown_points <= config[p].cooldown_points
        PROVE  Leads("always_migrate", p)'
    <3>1. "always_migrate" \in Policies
      BY DEF Policies
    <3>2. Ready("always_migrate") => action'["always_migrate"] = "MIGRATE"
      BY <1>1, MigratesWhenReady
    <3>3. Leads("always_migrate", p)
      BY <2>2 DEF AlwaysLeads
    <3>4. QED
      BY <1>1, <2>2, <3>1, <3>2, <3>3, LeadStep
  <2>3. QED
    BY <2>1, <2>2 DEF AlwaysLeads
<1>2. CASE UNCHANGED historyVars
  BY <1>2 DEF historyVars, vars, AlwaysLeads, Leads
<1>3. QED
  BY <1>1, <1>2 DEF HistoryNext

(* Before the first point every policy leads every other.                  *)
LEMMA LeadsAtFirst ==
  ASSUME HistoryInit, NEW a \in Policies, NEW b \in Policies
  PROVE  Leads(a, b)
BY DEF HistoryInit, Init, Fresh, Leads

(* A policy that leads has migrated at least as often.                     *)
LEMMA LeadsBounds ==
  ASSUME TypeOK, NEW a \in Policies, NEW b \in Policies, Leads(a, b)
  PROVE  migrations[b] <= migrations[a]
<1>1. migrations[a] \in Nat /\ migrations[b] \in Nat
  BY DEF TypeOK
<1>2. QED
  BY <1>1 DEF Leads

(* Whatever the prices, the configurations and the draws, the always-      *)
(* migrating policy bounds every baseline with a cooldown as long.         *)
THEOREM NobodyOutpacesAlways == HistorySpec => []AlwaysIsGreediest
<1>1. HistoryInit => AlwaysLeads
  BY LeadsAtFirst DEF AlwaysLeads, Policies
<1>2. TypeOK /\ AlwaysLeads => AlwaysIsGreediest
  <2> SUFFICES ASSUME TypeOK, AlwaysLeads, NEW p \in Policies,
                      config["always_migrate"].cooldown_points <= config[p].cooldown_points
               PROVE  migrations[p] <= migrations["always_migrate"]
    BY DEF AlwaysIsGreediest
  <2>1. Leads("always_migrate", p)
    BY DEF AlwaysLeads
  <2>2. "always_migrate" \in Policies
    BY DEF Policies
  <2>3. QED
    BY <2>1, <2>2, LeadsBounds
<1>3. QED
  BY <1>1, <1>2, AlwaysLeadsStep, TypeCorrect, PTL DEF HistorySpec

-----------------------------------------------------------------------------
(* ReactiveCoversZScore                                                    *)

ReactiveLeads ==
  Comparable =>
    /\ price_history["reactive"] = price_history["zscore"]
    /\ Leads("reactive", "zscore")

(* On equal histories and thresholds a z-score breach is a reactive one.   *)
LEMMA BreachesAgree ==
  ASSUME NEW price, NEW lucky, evaluate(price, lucky), Comparable,
         price_history["reactive"] = price_history["zscore"],
         action'["zscore"] = "MIGRATE", Ready("reactive")
  PROVE  action'["reactive"] = "MIGRATE"
<1>1. ZScoreBreach(price)
  BY ChosenAction DEF ZScoreAction
<1>2. ReactiveBreach(price)
  BY <1>1 DEF ZScoreBreach, ReactiveBreach, WindowFull, Comparable
<1>3. QED
  BY <1>2, ChosenAction DEF ReactiveAction

(* So does the lead of the reactive policy over a comparable z-score       *)
(* policy, together with the equality of the prices they remember.         *)
LEMMA ReactiveLeadsStep ==
  TypeOK /\ ReactiveLeads /\ [HistoryNext]_historyVars => ReactiveLeads'
<1> SUFFICES ASSUME TypeOK, ReactiveLeads, [HistoryNext]_historyVars, Comparable'
             PROVE  /\ (price_history["reactive"] = price_history["zscore"])'
                    /\ Leads("reactive", "zscore")'
  BY DEF ReactiveLeads
<1> "reactive" \in Policies /\ "zscore" \in Policies /\ "reactive" \in Priced /\ "zscore" \in Priced
  BY DEF Policies, Priced
<1>1. ASSUME NEW price \in Prices, NEW lucky \in Draws, evaluate(price, lucky), Record
      PROVE  /\ price_history'["reactive"] = price_history'["zscore"]
             /\ Leads("reactive", "zscore")'
  <2>1. config' = config /\ Comparable
    BY <1>1 DEF evaluate, Comparable
  <2>2. price_history["reactive"] = price_history["zscore"] /\ Leads("reactive", "zscore")
    BY <2>1 DEF ReactiveLeads
  <2>3. price_history'["reactive"] = price_history'["zscore"]
    BY <1>1, <2>1, <2>2 DEF evaluate, Comparable
  <2>4. action'["zscore"] = "MIGRATE" /\ Ready("reactive") => action'["reactive"] = "MIGRATE"
    BY <1>1, <2>1, <2>2, BreachesAgree
  <2>5. config["reactive"].cooldown_points <= config["zscore"].cooldown_points
    BY <2>1 DEF Comparable
  <2>6. Leads("reactive", "zscore")'
    BY <1>1, <2>2, <2>4, <2>5, LeadStep
  <2>7. QED
    BY <2>3, <2>6
<1>2. CASE UNCHANGED historyVars
  BY <1>2 DEF historyVars, vars, ReactiveLeads, Leads, Comparable
<1>3. QED
  BY <1>1, <1>2 DEF HistoryNext

(* The reactive policy keeps ahead of a comparable z-score policy.         *)
THEOREM ReactiveKeepsAhead == HistorySpec => []ReactiveCoversZScore
<1>1. HistoryInit => ReactiveLeads
  <2>1. "reactive" \in Policies /\ "zscore" \in Policies
    BY DEF Policies, Priced
  <2>2. HistoryInit => price_history["reactive"] = price_history["zscore"]
    BY DEF HistoryInit, Init, Fresh, Priced
  <2>3. QED
    BY <2>1, <2>2, LeadsAtFirst DEF ReactiveLeads
<1>2. TypeOK /\ ReactiveLeads => ReactiveCoversZScore
  <2>1. "reactive" \in Policies /\ "zscore" \in Policies
    BY DEF Policies, Priced
  <2>2. QED
    BY <2>1, LeadsBounds DEF ReactiveLeads, ReactiveCoversZScore
<1>3. QED
  BY <1>1, <1>2, ReactiveLeadsStep, TypeCorrect, PTL DEF HistorySpec

-----------------------------------------------------------------------------
(* AlwaysIsPeriodic                                                        *)

always == "always_migrate"

(* The points seen so far are the full periods, and the part of the one at *)
(* hand that the cooldown says is over.                                    *)
PeriodsElapsed ==
  LET limit == config[always].cooldown_points
      count == migrations[always]
      left  == cooldown_remaining[always]
  IN /\ points = 0 => count = 0 /\ left = 0
     /\ points > 0 /\ limit = 0 => count = points
     /\ points > 0 /\ limit > 0 => left > 0 /\ count * limit + 1 = points + left

(* One more period is one period more.                                     *)
LEMMA NextMultiple ==
  ASSUME NEW n \in Nat, NEW k \in Nat
  PROVE  (n + 1) * k = n * k + k
OBVIOUS

(* The count of the periods survives every point.                          *)
LEMMA PeriodsStep == TypeOK /\ PeriodsElapsed /\ [HistoryNext]_historyVars => PeriodsElapsed'
<1> SUFFICES ASSUME TypeOK, PeriodsElapsed, [HistoryNext]_historyVars
             PROVE  PeriodsElapsed'
  OBVIOUS
<1> DEFINE limit == config[always].cooldown_points
           count == migrations[always]
           left  == cooldown_remaining[always]
<1>0. /\ always \in Policies
      /\ limit \in Nat /\ count \in Nat /\ left \in Nat /\ left <= limit /\ points \in Nat
  BY LimitsNat DEF always, Policies, TypeOK
<1>1. ASSUME NEW price \in Prices, NEW lucky \in Draws, evaluate(price, lucky), Record
      PROVE  PeriodsElapsed'
  <2>1. config' = config /\ points' = points + 1
    BY <1>1 DEF evaluate, Record
  <2>2. CooledDown(always) = IF left = 0 THEN 0 ELSE left - 1
    BY <1>0, CooledDownType
  <2>3. CASE CooledDown(always) = 0
    <3>1. migrations'[always] = count + 1 /\ cooldown_remaining'[always] = limit
      BY <1>0, <1>1, <2>3, PolicyStep, MigratesWhenReady DEF Ready, always
    <3>2. left <= 1
      BY <1>0, <2>2, <2>3
    <3>3. (count + 1) * limit = count * limit + limit
      BY <1>0, NextMultiple
    <3>4. points > 0 /\ limit > 0 => left = 1 /\ count * limit = points
      <4>1. count * limit \in Nat
        BY <1>0
      <4>2. QED
        BY <1>0, <3>2, <4>1 DEF PeriodsElapsed
    <3>5. points = 0 => count * limit = 0
      BY <1>0 DEF PeriodsElapsed
    <3>6. limit > 0 => (count + 1) * limit + 1 = (points + 1) + limit
      BY <1>0, <3>3, <3>4, <3>5
    <3>7. limit = 0 => count + 1 = points + 1
      BY <1>0 DEF PeriodsElapsed
    <3>8. QED
      BY <1>0, <2>1, <3>1, <3>6, <3>7 DEF PeriodsElapsed
  <2>4. CASE CooledDown(always) # 0
    <3>1. migrations'[always] = count /\ cooldown_remaining'[always] = left - 1 /\ left > 1
      BY <1>0, <1>1, <2>2, <2>4, PolicyStep, MigratesWhenReady DEF Ready, always
    <3>2. points > 0 /\ limit > 0
      BY <1>0, <3>1 DEF PeriodsElapsed
    <3>3. count * limit \in Nat /\ count * limit + 1 = points + left
      BY <1>0, <3>2 DEF PeriodsElapsed
    <3>4. count * limit + 1 = (points + 1) + (left - 1) /\ left - 1 > 0
      BY <1>0, <3>1, <3>3
    <3>5. QED
      BY <1>0, <2>1, <3>1, <3>2, <3>4 DEF PeriodsElapsed
  <2>5. QED
    BY <2>3, <2>4
<1>2. CASE UNCHANGED historyVars
  BY <1>2 DEF historyVars, vars, PeriodsElapsed
<1>3. QED
  BY <1>1, <1>2 DEF HistoryNext

(* The count of the always-migrating policy is the number of points over   *)
(* its period, rounded up.                                                 *)
THEOREM AlwaysKeepsThePeriod == HistorySpec => []AlwaysIsPeriodic
<1>1. HistoryInit => PeriodsElapsed
  BY DEF HistoryInit, Init, Fresh, PeriodsElapsed, always, Policies
<1>2. TypeOK /\ PeriodsElapsed => AlwaysIsPeriodic
  <2> SUFFICES ASSUME TypeOK, PeriodsElapsed
               PROVE  AlwaysIsPeriodic
    OBVIOUS
  <2> DEFINE limit == config[always].cooldown_points
             count == migrations[always]
             left  == cooldown_remaining[always]
  <2>1. /\ limit \in Nat /\ count \in Nat /\ left \in Nat /\ left <= limit /\ points \in Nat
        /\ count * limit \in Nat
    BY LimitsNat DEF always, Policies, TypeOK
  <2>2. CASE limit = 0
    <3>1. Period = 1 /\ count = points
      BY <2>1, <2>2 DEF Period, always, PeriodsElapsed
    <3>2. QED
      BY <2>1, <3>1 DEF AlwaysIsPeriodic, always
  <2>3. CASE limit > 0
    <3>1. Period = limit
      BY <2>1, <2>3 DEF Period, always
    <3>2. CASE points = 0
      <4>1. count = 0 /\ count * limit = 0
        BY <2>1, <3>2 DEF PeriodsElapsed
      <4>2. QED
        BY <2>1, <2>3, <3>1, <3>2, <4>1 DEF AlwaysIsPeriodic, always
    <3>3. CASE points > 0
      <4>1. count * limit + 1 = points + left /\ left > 0
        BY <2>1, <2>3, <3>3 DEF PeriodsElapsed
      <4>2. points <= count * limit /\ count * limit < points + limit
        BY <2>1, <4>1
      <4>3. QED
        BY <3>1, <4>2 DEF AlwaysIsPeriodic, always
    <3>4. QED
      BY <2>1, <3>2, <3>3
  <2>4. QED
    BY <2>1, <2>2, <2>3
<1>3. QED
  BY <1>1, <1>2, PeriodsStep, TypeCorrect, PTL DEF HistorySpec

-----------------------------------------------------------------------------
(***************************************************************************)
(* The datasets.                                                           *)
(***************************************************************************)

(* The values of phase and of child.                                       *)
Phases == {"start", "request", "writing", "reading", "raising", "closing", "answered", "failed"}
Codes == {"none", "running", "blocked", "ok", "failed"}

(* What the variables hold, the file and what its bytes are taken for.      *)
Typed ==
  /\ archive \in Archives
  /\ written \in [Runs -> Nat]
  /\ phase \in [Runs -> Phases]
  /\ child \in [Runs -> Codes]
  /\ sent \in [Runs -> Nat]
  /\ taken \in [Runs -> Nat]
  /\ DOMAIN answer = Runs

FileTyped ==
  /\ file \in Seq(BOOLEAN)
  /\ file # << >> => exists

(* zstd succeeds at the end of a frame only, and its parent has then left  *)
(* the pipe empty.                                                         *)
Honest(p) ==
  /\ phase[p] \in {"start", "request", "writing"} => child[p] = "none"
  /\ phase[p] = "writing" => exists
  /\ child[p] = "ok" => sent[p] \in archive.frame_ends
  /\ phase[p] = "closing" => taken[p] = sent[p]

AnswerIsWhole(p) ==
  phase[p] = "answered" =>
    \E n \in archive.frame_ends : answer[p] = Answer(job[p], SubSeq(archive.rows, 1, n))

IInv == Typed /\ FileTyped /\ \A p \in Runs : Honest(p) /\ AnswerIsWhole(p)

(* Nothing is read, written or answered in the beginning.                  *)
LEMMA InitIInv == DatasetsInit => IInv
<1> SUFFICES ASSUME DatasetsInit PROVE IInv
  OBVIOUS
<1>1. Typed
  BY DEF DatasetsInit, Typed, Phases, Codes
<1>2. FileTyped
  BY DEF DatasetsInit, FileTyped
<1>3. ASSUME NEW p \in Runs PROVE Honest(p) /\ AnswerIsWhole(p)
  BY DEF DatasetsInit, Honest, AnswerIsWhole
<1>4. QED
  BY <1>1, <1>2, <1>3 DEF IInv

(* Every step of a download keeps the invariant.                           *)
LEMMA DownloadIInv ==
  ASSUME IInv, NEW p \in Runs, Download(p)
  PROVE  IInv'
<1> USE DEF IInv, GoTo, Exits, input, disk, pipes
<1>1. CASE FindFile(p)
  <2>1. Typed'
    BY <1>1 DEF Typed, Phases, Codes, FindFile, StartReading
  <2>2. FileTyped'
    BY <1>1 DEF FileTyped, FindFile, StartReading
  <2>3. ASSUME NEW q \in Runs PROVE Honest(q)'
    BY <1>1, Honest(p), Honest(q) DEF Honest, Typed, FindFile, StartReading
  <2>4. ASSUME NEW q \in Runs PROVE AnswerIsWhole(q)'
    BY <1>1, AnswerIsWhole(q) DEF AnswerIsWhole, Typed, FindFile, StartReading
  <2>5. QED
    BY <2>1, <2>2, <2>3, <2>4
<1>2. CASE MissFile(p)
  <2>1. Typed'
    BY <1>2 DEF Typed, Phases, Codes, MissFile
  <2>2. FileTyped'
    BY <1>2 DEF FileTyped, MissFile
  <2>3. ASSUME NEW q \in Runs PROVE Honest(q)'
    BY <1>2, Honest(p), Honest(q) DEF Honest, Typed, MissFile
  <2>4. ASSUME NEW q \in Runs PROVE AnswerIsWhole(q)'
    BY <1>2, AnswerIsWhole(q) DEF AnswerIsWhole, Typed, MissFile
  <2>5. QED
    BY <2>1, <2>2, <2>3, <2>4
<1>3. CASE RequestFails(p)
  <2>1. Typed'
    BY <1>3 DEF Typed, Phases, Codes, RequestFails
  <2>2. FileTyped'
    BY <1>3 DEF FileTyped, RequestFails
  <2>3. ASSUME NEW q \in Runs PROVE Honest(q)'
    BY <1>3, Honest(p), Honest(q) DEF Honest, Typed, RequestFails
  <2>4. ASSUME NEW q \in Runs PROVE AnswerIsWhole(q)'
    BY <1>3, AnswerIsWhole(q) DEF AnswerIsWhole, Typed, RequestFails
  <2>5. QED
    BY <2>1, <2>2, <2>3, <2>4
<1>4. CASE OpenFile(p)
  <2>1. Typed'
    BY <1>4 DEF Typed, Phases, Codes, OpenFile
  <2>2. FileTyped'
    BY <1>4 DEF FileTyped, OpenFile
  <2>3. ASSUME NEW q \in Runs PROVE Honest(q)'
    BY <1>4, Honest(p), Honest(q) DEF Honest, Typed, OpenFile
  <2>4. ASSUME NEW q \in Runs PROVE AnswerIsWhole(q)'
    BY <1>4, AnswerIsWhole(q) DEF AnswerIsWhole, Typed, OpenFile
  <2>5. QED
    BY <2>1, <2>2, <2>3, <2>4
<1>5. CASE WriteChunk(p)
  <2>1. Typed'
    BY <1>5 DEF Typed, Phases, Codes, WriteChunk
  <2>2. FileTyped'
    <3>1. written[p] + 1 \in Nat /\ Greater(Len(file), written[p] + 1) \in Nat
      BY DEF Greater, Typed, FileTyped
    <3>2. file' \in Seq(BOOLEAN)
      <4> DEFINE here == written[p] + 1
                 length == Greater(Len(file), here)
                 holds(i) == i = here \/ (i <= Len(file) /\ file[i])
      <4>1. file' = [i \in 1 .. length |-> holds(i)]
        BY <1>5 DEF WriteChunk
      <4>2. \A i \in 1 .. length : holds(i) \in BOOLEAN
        OBVIOUS
      <4> HIDE DEF holds, length
      <4>3. file' \in [1 .. length -> BOOLEAN]
        BY <4>1, <4>2
      <4>4. length \in Nat
        BY <3>1 DEF length
      <4>5. QED
        BY <4>3, <4>4
    <3>3. exists
      BY <1>5 DEF WriteChunk, Honest
    <3>4. QED
      BY <1>5, <3>2, <3>3 DEF WriteChunk, FileTyped
  <2>3. ASSUME NEW q \in Runs PROVE Honest(q)'
    BY <1>5, Honest(p), Honest(q) DEF Honest, Typed, WriteChunk
  <2>4. ASSUME NEW q \in Runs PROVE AnswerIsWhole(q)'
    BY <1>5, AnswerIsWhole(q) DEF AnswerIsWhole, Typed, WriteChunk
  <2>5. QED
    BY <2>1, <2>2, <2>3, <2>4
<1>6. CASE EndBody(p)
  <2>1. Typed'
    BY <1>6 DEF Typed, Phases, Codes, EndBody, StartReading
  <2>2. FileTyped'
    BY <1>6 DEF FileTyped, EndBody, StartReading
  <2>3. ASSUME NEW q \in Runs PROVE Honest(q)'
    BY <1>6, Honest(p), Honest(q) DEF Honest, Typed, EndBody, StartReading
  <2>4. ASSUME NEW q \in Runs PROVE AnswerIsWhole(q)'
    BY <1>6, AnswerIsWhole(q) DEF AnswerIsWhole, Typed, EndBody, StartReading
  <2>5. QED
    BY <2>1, <2>2, <2>3, <2>4
<1>7. CASE BodyBreaks(p)
  <2>1. Typed'
    BY <1>7 DEF Typed, Phases, Codes, BodyBreaks
  <2>2. FileTyped'
    BY <1>7 DEF FileTyped, BodyBreaks
  <2>3. ASSUME NEW q \in Runs PROVE Honest(q)'
    BY <1>7, Honest(p), Honest(q) DEF Honest, Typed, BodyBreaks
  <2>4. ASSUME NEW q \in Runs PROVE AnswerIsWhole(q)'
    BY <1>7, AnswerIsWhole(q) DEF AnswerIsWhole, Typed, BodyBreaks
  <2>5. QED
    BY <2>1, <2>2, <2>3, <2>4
<1>8. QED
  BY <1>1, <1>2, <1>3, <1>4, <1>5, <1>6, <1>7 DEF Download

(* Every step of zstd keeps the invariant.                                 *)
LEMMA ZstdIInv ==
  ASSUME IInv, NEW p \in Runs, Zstd(p) \/ Report(p)
  PROVE  IInv'
<1> USE DEF IInv, GoTo, Exits, input, disk, pipes
<1>1. CASE SendRow(p)
  <2>1. Typed'
    BY <1>1 DEF Typed, Phases, Codes, SendRow
  <2>2. FileTyped'
    <3>1. UNCHANGED disk
      BY <1>1 DEF SendRow
    <3>2. QED
      BY <3>1 DEF FileTyped
  <2>3. ASSUME NEW q \in Runs PROVE Honest(q)'
    <3>1. child[p] = "running" /\ phase[p] = "reading"
      BY <1>1 DEF SendRow, AtChunk
    <3>2. /\ UNCHANGED <<archive, exists, phase, child, taken>>
          /\ sent' = [sent EXCEPT ![p] = @ + 1]
      BY <1>1 DEF SendRow
    <3>3. QED
      BY <3>1, <3>2, Honest(q) DEF Honest, Typed
  <2>4. ASSUME NEW q \in Runs PROVE AnswerIsWhole(q)'
    BY <1>1, AnswerIsWhole(q) DEF AnswerIsWhole, Typed, SendRow
  <2>5. QED
    BY <2>1, <2>2, <2>3, <2>4
<1>2. CASE PipeBreaks(p)
  <2>1. Typed'
    BY <1>2 DEF Typed, Phases, Codes, PipeBreaks
  <2>2. FileTyped'
    BY <1>2 DEF FileTyped, PipeBreaks
  <2>3. ASSUME NEW q \in Runs PROVE Honest(q)'
    BY <1>2, Honest(p), Honest(q) DEF Honest, Typed, PipeBreaks
  <2>4. ASSUME NEW q \in Runs PROVE AnswerIsWhole(q)'
    BY <1>2, AnswerIsWhole(q) DEF AnswerIsWhole, Typed, PipeBreaks
  <2>5. QED
    BY <2>1, <2>2, <2>3, <2>4
<1>3. CASE ReportBlocks(p)
  <2>1. Typed'
    BY <1>3 DEF Typed, Phases, Codes, ReportBlocks
  <2>2. FileTyped'
    BY <1>3 DEF FileTyped, ReportBlocks
  <2>3. ASSUME NEW q \in Runs PROVE Honest(q)'
    BY <1>3, Honest(p), Honest(q) DEF Honest, Typed, ReportBlocks
  <2>4. ASSUME NEW q \in Runs PROVE AnswerIsWhole(q)'
    BY <1>3, AnswerIsWhole(q) DEF AnswerIsWhole, Typed, ReportBlocks
  <2>5. QED
    BY <2>1, <2>2, <2>3, <2>4
<1>4. CASE EndOfFrames(p)
  <2>1. Typed'
    BY <1>4 DEF Typed, Phases, Codes, EndOfFrames
  <2>2. FileTyped'
    BY <1>4 DEF FileTyped, EndOfFrames
  <2>3. ASSUME NEW q \in Runs PROVE Honest(q)'
    BY <1>4, Honest(p), Honest(q) DEF Honest, Typed, EndOfFrames
  <2>4. ASSUME NEW q \in Runs PROVE AnswerIsWhole(q)'
    BY <1>4, AnswerIsWhole(q) DEF AnswerIsWhole, Typed, EndOfFrames
  <2>5. QED
    BY <2>1, <2>2, <2>3, <2>4
<1>5. CASE Damage(p)
  <2>1. Typed'
    BY <1>5 DEF Typed, Phases, Codes, Damage
  <2>2. FileTyped'
    BY <1>5 DEF FileTyped, Damage
  <2>3. ASSUME NEW q \in Runs PROVE Honest(q)'
    BY <1>5, Honest(p), Honest(q) DEF Honest, Typed, Damage
  <2>4. ASSUME NEW q \in Runs PROVE AnswerIsWhole(q)'
    BY <1>5, AnswerIsWhole(q) DEF AnswerIsWhole, Typed, Damage
  <2>5. QED
    BY <2>1, <2>2, <2>3, <2>4
<1>6. CASE Report(p)
  <2>1. Typed'
    BY <1>6 DEF Typed, Phases, Codes, Report
  <2>2. FileTyped'
    BY <1>6 DEF FileTyped, Report
  <2>3. ASSUME NEW q \in Runs PROVE Honest(q)'
    BY <1>6, Honest(p), Honest(q) DEF Honest, Typed, Report
  <2>4. ASSUME NEW q \in Runs PROVE AnswerIsWhole(q)'
    BY <1>6, AnswerIsWhole(q) DEF AnswerIsWhole, Typed, Report
  <2>5. QED
    BY <2>1, <2>2, <2>3, <2>4
<1>7. QED
  BY <1>1, <1>2, <1>3, <1>4, <1>5, <1>6 DEF Zstd

(* Every step of the reader keeps the invariant.                           *)
LEMMA ReaderIInv ==
  ASSUME IInv, NEW p \in Runs, Reader(p) \/ Crash(p)
  PROVE  IInv'
<1> USE DEF IInv, GoTo, Exits, input, disk, pipes
<1>1. CASE TakeRow(p)
  <2>1. Typed'
    BY <1>1 DEF Typed, Phases, Codes, TakeRow
  <2>2. FileTyped'
    BY <1>1 DEF FileTyped, TakeRow
  <2>3. ASSUME NEW q \in Runs PROVE Honest(q)'
    BY <1>1, Honest(p), Honest(q) DEF Honest, Typed, TakeRow
  <2>4. ASSUME NEW q \in Runs PROVE AnswerIsWhole(q)'
    BY <1>1, AnswerIsWhole(q) DEF AnswerIsWhole, Typed, TakeRow
  <2>5. QED
    BY <2>1, <2>2, <2>3, <2>4
<1>2. CASE EndOfRows(p)
  <2>1. Typed'
    BY <1>2 DEF Typed, Phases, Codes, EndOfRows
  <2>2. FileTyped'
    BY <1>2 DEF FileTyped, EndOfRows
  <2>3. ASSUME NEW q \in Runs PROVE Honest(q)'
    BY <1>2, Honest(p), Honest(q) DEF Honest, Typed, EndOfRows
  <2>4. ASSUME NEW q \in Runs PROVE AnswerIsWhole(q)'
    BY <1>2, AnswerIsWhole(q) DEF AnswerIsWhole, Typed, EndOfRows
  <2>5. QED
    BY <2>1, <2>2, <2>3, <2>4
<1>3. CASE ReadStderr(p)
  <2>1. Typed'
    BY <1>3 DEF Typed, Phases, Codes, ReadStderr
  <2>2. FileTyped'
    BY <1>3 DEF FileTyped, ReadStderr
  <2>3. ASSUME NEW q \in Runs PROVE Honest(q)'
    BY <1>3, Honest(p), Honest(q) DEF Honest, Typed, ReadStderr
  <2>4. ASSUME NEW q \in Runs PROVE AnswerIsWhole(q)'
    BY <1>3, AnswerIsWhole(q) DEF AnswerIsWhole, Typed, ReadStderr
  <2>5. QED
    BY <2>1, <2>2, <2>3, <2>4
<1>4. CASE Conclude(p)
  <2>1. Typed'
    BY <1>4 DEF Typed, Phases, Codes, Conclude, Succeeds
  <2>2. FileTyped'
    BY <1>4 DEF FileTyped, Conclude, Succeeds
  <2>3. ASSUME NEW q \in Runs PROVE Honest(q)'
    BY <1>4, Honest(p), Honest(q) DEF Honest, Typed, Conclude, Succeeds
  <2>4. ASSUME NEW q \in Runs PROVE AnswerIsWhole(q)'
    <3>1. CASE q = p /\ phase'[p] = "answered"
      <4>1. answer'[p] # Nothing /\ Succeeds(p)
        BY <1>4, <3>1 DEF Conclude, Typed
      <4>2. answer'[p] = Answer(job[p], SubSeq(archive.rows, 1, taken[p]))
        BY <1>4, <4>1 DEF Conclude, Typed
      <4>3. taken[p] \in archive.frame_ends
        BY <4>1, Honest(p) DEF Honest, Succeeds
      <4>4. UNCHANGED <<archive, job>>
        BY <1>4 DEF Conclude
      <4>5. QED
        BY <3>1, <4>2, <4>3, <4>4 DEF AnswerIsWhole
    <3>2. CASE ~(q = p /\ phase'[p] = "answered")
      <4>1. phase'[q] = "answered" => phase[q] = "answered" /\ answer'[q] = answer[q]
        BY <1>4, <3>2 DEF Conclude, Typed
      <4>2. UNCHANGED <<archive, job>>
        BY <1>4 DEF Conclude
      <4>3. QED
        BY <4>1, <4>2, AnswerIsWhole(q) DEF AnswerIsWhole
    <3>3. QED
      BY <3>1, <3>2
  <2>5. QED
    BY <2>1, <2>2, <2>3, <2>4
<1>5. CASE Crash(p)
  <2>1. Typed'
    BY <1>5 DEF Typed, Phases, Codes, Crash
  <2>2. FileTyped'
    BY <1>5 DEF FileTyped, Crash
  <2>3. ASSUME NEW q \in Runs PROVE Honest(q)'
    BY <1>5, Honest(p), Honest(q) DEF Honest, Typed, Crash
  <2>4. ASSUME NEW q \in Runs PROVE AnswerIsWhole(q)'
    BY <1>5, AnswerIsWhole(q) DEF AnswerIsWhole, Typed, Crash
  <2>5. QED
    BY <2>1, <2>2, <2>3, <2>4
<1>6. QED
  BY <1>1, <1>2, <1>3, <1>4, <1>5 DEF Reader

(* The invariant holds in every reachable state.                           *)
LEMMA Invariant == DatasetsSpec => []IInv
<1>1. IInv /\ [DatasetsNext]_datasetsVars => IInv'
  <2>1. IInv /\ UNCHANGED datasetsVars => IInv'
    BY DEF IInv, Typed, FileTyped, Honest, AnswerIsWhole, datasetsVars, input, disk, pipes
  <2>2. QED
    BY <2>1, DownloadIInv, ZstdIInv, ReaderIInv DEF DatasetsNext
<1>2. QED
  BY InitIInv, <1>1, PTL DEF DatasetsSpec

(* What other runs do to the file never shows in an answer.                *)
THEOREM AnswersComeWhole == DatasetsSpec => []AnswersAreWhole
<1>1. IInv => AnswersAreWhole
  BY DEF IInv, AnswersAreWhole, AnswerIsWhole
<1>2. QED
  BY <1>1, Invariant, PTL

(* Of all actions only the opening of the file for writing takes a whole   *)
(* archive away, and that takes a request.                                 *)
THEOREM ArchiveStays == DatasetsSpec => ArchiveSurvives
<1>1. ASSUME IInv, Settled, [DatasetsNext]_datasetsVars
      PROVE  Settled'
  <2>1. archive \in Archives /\ size \in Nat /\ size > 0
    <3>1. archive \in Archives
      BY <1>1 DEF IInv, Typed
    <3>2. size \in Nat /\ archive.frame_ends \subseteq 1 .. size /\ size \in archive.frame_ends
      BY <3>1, ArchivesAssumption DEF size
    <3>3. QED
      BY <3>1, <3>2
  <2>2. Len(file) = size
    BY <1>1, <2>1 DEF Settled, Whole
  <2>3. exists
    BY <1>1, <2>1, <2>2 DEF IInv, FileTyped
  <2>4. CASE UNCHANGED datasetsVars
    BY <1>1, <2>4 DEF Settled, Whole, datasetsVars, input, disk, size
  <2>5. ASSUME NEW p \in Runs, WriteChunk(p)
        PROVE  Settled'
    <3>1. Greater(Len(file), written[p] + 1) = size
      BY <1>1, <2>1, <2>2, <2>5 DEF WriteChunk, Greater, IInv, Typed
    <3>2. file' = [i \in 1 .. size |-> TRUE]
      <4> DEFINE here == written[p] + 1
                 holds(i) == i = here \/ (i <= Len(file) /\ file[i])
      <4>1. file' = [i \in 1 .. size |-> holds(i)]
        BY <2>5, <3>1 DEF WriteChunk
      <4>2. \A i \in 1 .. size : file[i] = TRUE /\ i <= Len(file)
        BY <1>1, <2>1, <2>2 DEF Settled, Whole
      <4>3. \A i \in 1 .. size : holds(i) = TRUE
        BY <4>2
      <4> HIDE DEF holds
      <4>4. QED
        BY <4>1, <4>3
    <3>3. QED
      BY <1>1, <2>5, <3>2 DEF WriteChunk, Settled, Whole, input, size
  <2>6. ASSUME NEW p \in Runs, Download(p), ~WriteChunk(p)
        PROVE  Settled'
    BY <1>1, <2>3, <2>6 DEF Download, FindFile, MissFile, RequestFails, OpenFile, EndBody,
       BodyBreaks, StartReading, GoTo, Settled, Whole, IInv, Typed, input, disk, size
  <2>7. ASSUME NEW p \in Runs, Zstd(p) \/ Report(p) \/ Reader(p) \/ Crash(p)
        PROVE  Settled'
    <3>1. UNCHANGED <<file, input>>
      BY <2>7 DEF Zstd, SendRow, PipeBreaks, ReportBlocks, EndOfFrames, Damage, Report, Reader,
         TakeRow, EndOfRows, ReadStderr, Conclude, Crash, input, disk
    <3>2. \A q \in Runs : phase[q] # "request" => phase'[q] # "request"
      BY <1>1, <2>7 DEF Zstd, SendRow, PipeBreaks, ReportBlocks, EndOfFrames, Damage, Report,
         Reader, TakeRow, EndOfRows, ReadStderr, Conclude, Crash, GoTo, IInv, Typed
    <3>3. QED
      BY <1>1, <3>1, <3>2 DEF Settled, Whole, input, size
  <2>8. QED
    BY <1>1, <2>4, <2>5, <2>6, <2>7 DEF DatasetsNext
<1>2. QED
  BY <1>1, Invariant, PTL DEF DatasetsSpec, ArchiveSurvives

-----------------------------------------------------------------------------
(* What LoadsEnd rests on.  A load that is going on:                       *)
Loading(p) == phase[p] \in {"reading", "raising", "closing"}

(* zstd waits for room in the pipe of stderr, which is not read before the *)
(* rows have ended.                                                        *)
Hangs(p) == phase[p] = "reading" /\ child[p] = "blocked" /\ stderr[p] = StderrCapacity

(* When a step of zstd, and of its reader, is possible.                    *)
ZstdCan(p) ==
  \/ phase[p] = "reading" /\ AtChunk(p) /\ sent[p] - taken[p] < StdoutCapacity
  \/ phase[p] = "raising" /\ AtChunk(p)
  \/ phase[p] = "reading" /\ child[p] = "running" /\ stderr[p] = StderrCapacity
  \/ /\ phase[p] \in {"reading", "raising"}
     /\ child[p] = "running"
     /\ ~AtChunk(p)
     /\ stderr[p] < StderrCapacity \/ (sent[p] >= Len(file) /\ sent[p] \in archive.frame_ends)

ReaderCan(p) ==
  \/ phase[p] = "reading" /\ (taken[p] < sent[p] \/ child[p] \in {"ok", "failed"})
  \/ phase[p] \in {"closing", "raising"} /\ (stderr[p] > 0 \/ child[p] \in {"ok", "failed"})

(* Two processes and two pipes: one of the two can always go on, but for   *)
(* the one way to hang.                                                    *)
OnlyStderrHangs == \A p \in Runs : Loading(p) => ZstdCan(p) \/ ReaderCan(p) \/ Hangs(p)

(* The rows to send and to take, and what is left of the two processes and *)
(* of stderr.                                                              *)
LeftOfPhase(p) == IF phase[p] = "reading" THEN 2 ELSE 1
LeftOfChild(p) == IF child[p] = "running" THEN 4 ELSE IF child[p] = "blocked" THEN 3 ELSE 0
LeftOfStderr(p) == IF phase[p] = "reading" \/ stderr[p] > 0 THEN 2 ELSE 0

LeftOfLoad(p) ==
  (size - sent[p]) + (size - taken[p]) + LeftOfPhase(p) + LeftOfChild(p) + LeftOfStderr(p)

Shorter(p) ==
  Loading(p) =>
    /\ LeftOfLoad(p) \in 1 .. 2 * size + 8
    /\ \/ ~Loading(p)'
       \/ LeftOfLoad(p)' <= LeftOfLoad(p) - 1
       \/ LeftOfLoad(p)' = LeftOfLoad(p) /\ ~Zstd(p) /\ ~Reader(p)

(* Every step of zstd and of its reader brings the end of the load nearer, *)
(* and no other step puts it off: no line of stderr, and nothing another   *)
(* run does to the file.  A load of n rows takes 2n + 8 steps at most.     *)
LoadsShorten == [][\A p \in Runs : Shorter(p)]_datasetsVars

(* No chunk is written behind the end of what is published; no row is read *)
(* that is not there, or taken that has not been sent; and only a full pipe*)
(* blocks zstd.                                                            *)
Balanced(p) ==
  /\ sent[p] \in 0 .. size /\ taken[p] \in 0 .. sent[p]
  /\ stderr[p] \in 0 .. StderrCapacity
  /\ child[p] = "blocked" => stderr[p] = StderrCapacity
  /\ child[p] = "none" => phase[p] \in {"start", "request", "writing", "failed"}
  /\ phase[p] = "closing" => child[p] \in {"ok", "failed"}

PInv ==
  /\ Len(file) \in 0 .. size
  /\ stderr \in [Runs -> Nat]
  /\ \A p \in Runs : Balanced(p)

(* The files are empty in the beginning, and so are the pipes.             *)
LEMMA PInvStarts == DatasetsInit => PInv
<1> SUFFICES ASSUME DatasetsInit PROVE PInv
  OBVIOUS
<1>1. size \in Nat
  BY ArchivesAssumption DEF DatasetsInit, size
<1>2. ASSUME NEW p \in Runs PROVE Balanced(p)
  BY <1>1, PipesAssumption DEF DatasetsInit, Balanced
<1>3. Len(file) \in 0 .. size /\ stderr \in [Runs -> Nat]
  BY <1>1 DEF DatasetsInit
<1>4. QED
  BY <1>2, <1>3 DEF PInv

(* What a step leaves alone of another run, and of the archive.            *)
LEMMA OthersBalanced ==
  ASSUME NEW q \in Runs, Balanced(q), size' = size,
         UNCHANGED <<phase[q], child[q], sent[q], taken[q], stderr[q]>>
  PROVE  Balanced(q)'
BY DEF Balanced

(* A download writes no further than the archive goes.                     *)
LEMMA DownloadBalanced ==
  ASSUME IInv, PInv, NEW p \in Runs, Download(p)
  PROVE  PInv'
<1> USE DEF GoTo, input, disk, pipes
<1>1. size' = size /\ size \in Nat
  BY ArchivesAssumption DEF Download, FindFile, MissFile, RequestFails, OpenFile, WriteChunk,
     EndBody, BodyBreaks, StartReading, size, IInv, Typed
<1>2. ASSUME NEW q \in Runs, q # p
      PROVE  UNCHANGED <<phase[q], child[q], sent[q], taken[q], stderr[q]>>
  BY <1>2 DEF PInv, Download, FindFile, MissFile, RequestFails, OpenFile, WriteChunk, EndBody,
     BodyBreaks, StartReading, IInv, Typed
<1>3. Balanced(p)'
  BY <1>1, Honest(p), Balanced(p) DEF Download, FindFile, MissFile, RequestFails, OpenFile,
     WriteChunk, EndBody, BodyBreaks, StartReading, IInv, Typed, Honest, PInv, Balanced
<1>4. Len(file)' \in 0 .. size
  <2>1. CASE WriteChunk(p)
    <3> DEFINE longer == Greater(Len(file), written[p] + 1)
    <3>1. longer \in 1 .. size
      BY <1>1, <2>1 DEF WriteChunk, Greater, IInv, Typed, PInv
    <3> HIDE DEF longer
    <3>2. file' = [i \in 1 .. longer |-> i = written[p] + 1 \/ (i <= Len(file) /\ file[i])]
      BY <2>1 DEF WriteChunk, longer
    <3>3. Len(file') = longer
      BY <1>1, <3>1, <3>2
    <3>4. QED
      BY <3>1, <3>3
  <2>2. CASE ~WriteChunk(p)
    BY <1>1, <2>2 DEF Download, FindFile, MissFile, RequestFails, OpenFile, EndBody, BodyBreaks,
       StartReading, PInv
  <2>3. QED
    BY <2>1, <2>2
<1>5. stderr' \in [Runs -> Nat]
  BY DEF Download, FindFile, MissFile, RequestFails, OpenFile, WriteChunk, EndBody, BodyBreaks,
     StartReading, PInv
<1>6. QED
  BY <1>1, <1>2, <1>3, <1>4, <1>5, OthersBalanced DEF PInv

(* zstd sends what is in the file, and its reader takes what was sent.     *)
LEMMA LoadBalanced ==
  ASSUME IInv, PInv, NEW p \in Runs, Zstd(p) \/ Report(p) \/ Reader(p) \/ Crash(p)
  PROVE  PInv'
<1> USE DEF GoTo, Exits, input, disk, pipes
<1>1. size' = size /\ file' = file /\ size \in Nat
  BY ArchivesAssumption DEF Zstd, SendRow, PipeBreaks, ReportBlocks, EndOfFrames, Damage, Report,
     Reader, TakeRow, EndOfRows, ReadStderr, Conclude, Crash, size, IInv, Typed
<1>2. ASSUME NEW q \in Runs, q # p
      PROVE  UNCHANGED <<phase[q], child[q], sent[q], taken[q], stderr[q]>>
  BY <1>2 DEF PInv, Zstd, SendRow, PipeBreaks, ReportBlocks, EndOfFrames, Damage, Report, Reader,
     TakeRow, EndOfRows, ReadStderr, Conclude, Crash, IInv, Typed
<1>3. Balanced(p)'
  <2>1. CASE SendRow(p)
    BY <1>1, <2>1, Balanced(p) DEF SendRow, AtChunk, IInv, Typed, PInv, Balanced
  <2>2. CASE PipeBreaks(p) \/ ReportBlocks(p) \/ EndOfFrames(p)
    BY <1>1, <2>2, Balanced(p) DEF PipeBreaks, ReportBlocks, EndOfFrames, IInv, Typed, PInv,
       Balanced
  <2>3. CASE Damage(p) \/ Report(p)
    BY <1>1, <2>3, Balanced(p), PipesAssumption
       DEF Damage, Report, AtChunk, IInv, Typed, PInv, Balanced
  <2>4. CASE TakeRow(p)
    BY <1>1, <2>4, Balanced(p) DEF TakeRow, IInv, Typed, PInv, Balanced
  <2>5. CASE EndOfRows(p) \/ Crash(p)
    BY <1>1, <2>5, Balanced(p) DEF EndOfRows, Crash, IInv, Typed, PInv, Balanced
  <2>6. CASE ReadStderr(p)
    BY <1>1, <2>6, Balanced(p), PipesAssumption DEF ReadStderr, IInv, Typed, PInv, Balanced
  <2>7. CASE Conclude(p)
    BY <1>1, <2>7, Balanced(p) DEF Conclude, IInv, Typed, PInv, Balanced
  <2>8. QED
    BY <2>1, <2>2, <2>3, <2>4, <2>5, <2>6, <2>7 DEF Zstd, Reader
<1>4. stderr' \in [Runs -> Nat]
  BY DEF Zstd, SendRow, PipeBreaks, ReportBlocks, EndOfFrames, Damage, Report, Reader, TakeRow,
     EndOfRows, ReadStderr, Conclude, Crash, PInv
<1>5. QED
  BY <1>1, <1>2, <1>3, <1>4, OthersBalanced DEF PInv

(* The pipes stay balanced.                                                *)
LEMMA PInvAlways == DatasetsSpec => [](IInv /\ PInv)
<1>1. PInv /\ UNCHANGED datasetsVars => PInv'
  BY DEF PInv, Balanced, datasetsVars, input, disk, pipes, size
<1>2. IInv /\ PInv /\ [DatasetsNext]_datasetsVars => PInv'
  BY <1>1, DownloadBalanced, LoadBalanced DEF DatasetsNext
<1>3. QED
  BY <1>2, PInvStarts, Invariant, PTL DEF DatasetsSpec

(* zstd and its parent never wait for each other but through stderr.       *)
THEOREM OnlyStderrCanHang == DatasetsSpec => []OnlyStderrHangs
<1>1. ASSUME IInv, PInv, NEW p \in Runs, Loading(p)
      PROVE  ZstdCan(p) \/ ReaderCan(p) \/ Hangs(p)
  <2>1. /\ Balanced(p) /\ child[p] \in Codes /\ size \in Nat /\ Len(file) \in Nat
        /\ stderr[p] \in Nat /\ sent[p] \in Nat /\ taken[p] \in Nat
    BY <1>1, ArchivesAssumption, PipesAssumption DEF PInv, Balanced, IInv, Typed, size
  <2>2. child[p] \in {"running", "blocked", "ok", "failed"}
    BY <1>1, <2>1 DEF Loading, Balanced, Codes
  <2>3. CASE phase[p] = "reading"
    <3>1. SUFFICES ASSUME taken[p] = sent[p], child[p] \in {"running", "blocked"}
                   PROVE  ZstdCan(p) \/ Hangs(p)
      BY <2>1, <2>2, <2>3 DEF ReaderCan, Balanced
    <3>2. CASE child[p] = "blocked"
      BY <2>1, <2>3, <3>2 DEF Hangs, Balanced
    <3>3. CASE child[p] = "running"
      BY <2>1, <2>3, <3>1, <3>3, PipesAssumption DEF ZstdCan, Balanced
    <3>4. QED
      BY <3>1, <3>2, <3>3
  <2>4. CASE phase[p] = "raising"
    <3>1. SUFFICES ASSUME stderr[p] = 0, child[p] \in {"running", "blocked"}
                   PROVE  ZstdCan(p)
      BY <2>1, <2>2, <2>4 DEF ReaderCan, Balanced
    <3>2. child[p] = "running" /\ stderr[p] < StderrCapacity
      BY <2>1, <3>1, PipesAssumption DEF Balanced
    <3>3. QED
      BY <2>4, <3>2 DEF ZstdCan
  <2>5. CASE phase[p] = "closing"
    BY <2>1, <2>5 DEF ReaderCan, Balanced
  <2>6. QED
    BY <1>1, <2>3, <2>4, <2>5 DEF Loading
<1>2. IInv /\ PInv => OnlyStderrHangs
  BY <1>1 DEF OnlyStderrHangs
<1>3. QED
  BY <1>2, PInvAlways, PTL

(* What is left of a load is a number, and of one that ends not nothing.   *)
LEMMA LeftIsBounded ==
  ASSUME IInv, PInv, NEW p \in Runs, Loading(p)
  PROVE  /\ LeftOfLoad(p) \in 1 .. 2 * size + 8
         /\ size \in Nat /\ sent[p] \in Nat /\ taken[p] \in Nat /\ stderr[p] \in Nat
<1>1. size \in Nat /\ sent[p] \in 0 .. size /\ taken[p] \in 0 .. sent[p] /\ stderr[p] \in Nat
  BY ArchivesAssumption, PipesAssumption, Balanced(p) DEF PInv, Balanced, IInv, Typed, size
<1>2. LeftOfPhase(p) \in 1 .. 2 /\ LeftOfChild(p) \in 0 .. 4 /\ LeftOfStderr(p) \in 0 .. 2
  BY DEF LeftOfPhase, LeftOfChild, LeftOfStderr
<1>3. QED
  BY <1>1, <1>2 DEF LeftOfLoad

(* A step of zstd or of its reader.                                        *)
LEMMA LoadShortens ==
  ASSUME IInv, PInv, NEW p \in Runs, Loading(p), Zstd(p) \/ Reader(p)
  PROVE  ~Loading(p)' \/ LeftOfLoad(p)' <= LeftOfLoad(p) - 1
<1> USE DEF GoTo, Exits, input, disk, pipes
<1>1. size' = size /\ size \in Int /\ sent[p] \in Int /\ taken[p] \in Int /\ stderr[p] \in Nat
  <2>1. size' = size
    BY DEF Zstd, SendRow, PipeBreaks, ReportBlocks, EndOfFrames, Damage, Reader, TakeRow,
       EndOfRows, ReadStderr, Conclude, size
  <2>2. QED
    BY <2>1, LeftIsBounded
<1>2. CASE SendRow(p)
  <2>1. sent'[p] = sent[p] + 1 /\ UNCHANGED <<phase, child, taken, stderr>>
    BY <1>2 DEF SendRow, IInv, Typed
  <2>2. QED
    BY <1>1, <2>1 DEF LeftOfLoad, LeftOfPhase, LeftOfChild, LeftOfStderr
<1>3. CASE TakeRow(p)
  <2>1. /\ taken'[p] = taken[p] + 1 /\ UNCHANGED <<child, sent, stderr>>
        /\ phase[p] = "reading" /\ phase'[p] \in {"reading", "raising"}
    BY <1>3 DEF TakeRow, IInv, Typed
  <2>2. QED
    BY <1>1, <2>1 DEF LeftOfLoad, LeftOfPhase, LeftOfChild, LeftOfStderr
<1>4. CASE PipeBreaks(p) \/ ReportBlocks(p) \/ EndOfFrames(p)
  <2>1. /\ child[p] = "running" /\ child'[p] \in {"blocked", "ok", "failed"}
        /\ UNCHANGED <<phase, sent, taken, stderr>>
    BY <1>4 DEF PipeBreaks, ReportBlocks, EndOfFrames, AtChunk, IInv, Typed
  <2>2. QED
    BY <1>1, <2>1 DEF LeftOfLoad, LeftOfPhase, LeftOfChild, LeftOfStderr
<1>5. CASE Damage(p)
  <2>1. /\ child[p] = "running" /\ child'[p] = "failed"
        /\ UNCHANGED <<phase, sent, taken>>
    BY <1>5 DEF Damage, IInv, Typed
  <2>2. LeftOfStderr(p) \in 0 .. 2 /\ LeftOfStderr(p)' \in 0 .. 2
    BY DEF LeftOfStderr
  <2>3. QED
    BY <1>1, <2>1, <2>2 DEF LeftOfLoad, LeftOfPhase, LeftOfChild
<1>6. CASE EndOfRows(p)
  <2>1. /\ phase[p] = "reading" /\ phase'[p] = "closing"
        /\ UNCHANGED <<child, sent, taken, stderr>>
    BY <1>6 DEF EndOfRows, IInv, Typed
  <2>2. QED
    BY <1>1, <2>1 DEF LeftOfLoad, LeftOfPhase, LeftOfChild, LeftOfStderr
<1>7. CASE ReadStderr(p)
  <2>1. /\ phase[p] # "reading" /\ stderr[p] > 0
        /\ UNCHANGED <<phase, sent, taken>>
        /\ child'[p] = IF child[p] = "blocked" THEN "running" ELSE child[p]
    BY <1>7 DEF ReadStderr, IInv, Typed
  <2>2. LeftOfStderr(p) = 2 /\ LeftOfChild(p)' <= LeftOfChild(p) + 1
    BY <2>1 DEF LeftOfStderr, LeftOfChild
  <2>3. stderr'[p] = 0
    BY <1>7 DEF ReadStderr, PInv
  <2>4. QED
    BY <1>1, <2>1, <2>2, <2>3 DEF LeftOfLoad, LeftOfPhase, LeftOfChild, LeftOfStderr
<1>8. CASE Conclude(p)
  <2>1. phase'[p] \in {"failed", "answered"}
    BY <1>8 DEF Conclude, IInv, Typed
  <2>2. QED
    BY <2>1 DEF Loading
<1>9. QED
  BY <1>2, <1>3, <1>4, <1>5, <1>6, <1>7, <1>8 DEF Zstd, Reader

(* Any other step.                                                         *)
LEMMA OthersDoNotProlong ==
  ASSUME IInv, PInv, NEW p \in Runs, Loading(p), [DatasetsNext]_datasetsVars,
         ~Zstd(p), ~Reader(p)
  PROVE  ~Loading(p)' \/ LeftOfLoad(p)' = LeftOfLoad(p)
<1> USE DEF GoTo, Exits, input, disk, pipes
<1>1. ASSUME UNCHANGED <<archive, phase[p], child[p], sent[p], taken[p]>>,
             phase[p] = "reading" \/ UNCHANGED stderr[p]
      PROVE  LeftOfLoad(p)' = LeftOfLoad(p)
  BY <1>1 DEF LeftOfLoad, LeftOfPhase, LeftOfChild, LeftOfStderr, size
<1>2. CASE UNCHANGED datasetsVars
  BY <1>1, <1>2 DEF datasetsVars
<1>3. ASSUME NEW q \in Runs, q # p,
             Download(q) \/ Zstd(q) \/ Report(q) \/ Reader(q) \/ Crash(q)
      PROVE  LeftOfLoad(p)' = LeftOfLoad(p)
  <2>1. UNCHANGED <<archive, phase[p], child[p], sent[p], taken[p], stderr[p]>>
    BY <1>3 DEF Download, FindFile, MissFile, RequestFails, OpenFile, WriteChunk, EndBody,
       BodyBreaks, StartReading, Zstd, SendRow, PipeBreaks, ReportBlocks, EndOfFrames, Damage,
       Report, Reader, TakeRow, EndOfRows, ReadStderr, Conclude, Crash, IInv, Typed, PInv
  <2>2. QED
    BY <1>1, <2>1
<1>4. CASE Report(p)
  <2>1. UNCHANGED <<archive, phase, child, sent, taken>> /\ phase[p] = "reading"
    BY <1>4 DEF Report
  <2>2. QED
    BY <1>1, <2>1
<1>5. CASE Crash(p)
  <2>1. phase'[p] = "failed"
    BY <1>5 DEF Crash, IInv, Typed
  <2>2. QED
    BY <2>1 DEF Loading
<1>6. ~Download(p)
  BY DEF Loading, Download, FindFile, MissFile, RequestFails, OpenFile, WriteChunk, EndBody,
     BodyBreaks
<1>7. QED
  BY <1>2, <1>3, <1>4, <1>5, <1>6 DEF DatasetsNext

(* A load is finite, whatever other runs do to the file it reads.          *)
THEOREM LoadsAreFinite == DatasetsSpec => LoadsShorten
<1>1. ASSUME IInv, PInv, [DatasetsNext]_datasetsVars, NEW p \in Runs
      PROVE  Shorter(p)
  BY <1>1, LeftIsBounded, LoadShortens, OthersDoNotProlong DEF Shorter
<1>2. IInv /\ PInv /\ [DatasetsNext]_datasetsVars => \A p \in Runs : Shorter(p)
  BY <1>1
<1>3. QED
  BY <1>2, PInvAlways, PTL DEF DatasetsSpec, LoadsShorten
=============================================================================
