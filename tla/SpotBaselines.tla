---------------------------- MODULE SpotBaselines ----------------------------
(***************************************************************************)
(* The four baselines of scripts/spotfsm/policy.py that the spot replay    *)
(* compares with the structural policy.  Each row of a replay evaluates    *)
(* all four on the same price, so a step of this module is one price.      *)
(* Prices are integers, thresholds and the firing probability hundredths.  *)
(* Comparisons with a standard deviation are made on squares, exactly.     *)
(***************************************************************************)
EXTENDS RollingBaseline, Functions

CONSTANTS
  Configs,   \* [Policies -> the configuration record of that policy]
  Prices

Priced   == {"reactive", "zscore"}   \* the policies that look at the price
Policies == Priced \cup {"always_migrate", "random"}

(* A window of no points ends the program on the first price, in fmean;    *)
(* a negative cooldown is never zero again and silences its policy.        *)
ASSUME ConfigsAssumption ==
  \A c \in Configs :
    /\ \A p \in Policies : c[p].cooldown_points \in Nat
    /\ \A p \in Priced : c[p].rolling_window_points \in Nat \ {0}

ASSUME PricesAssumption == Prices \subseteq Int

VARIABLES
  config,
  price_history,        \* of each policy in Priced
  velocity_history,     \* of the reactive policy
  cooldown_remaining,   \* of each policy
  action                \* the action each policy last returned

vars == <<config, price_history, velocity_history, cooldown_remaining, action>>

Actions == {"STABLE", "OBSERVE", "MIGRATE"}

-----------------------------------------------------------------------------
(* statistics.fmean and pstdev of a sequence, without the divisions.       *)

Total(s) == SumFunction(s)

(* Len(s)^2 times the variance.                                            *)
Spread(s) == Len(s) * SumFunction([i \in DOMAIN s |-> s[i] * s[i]]) - Total(s) * Total(s)

(* amount / Sqrt(Spread(s)) >= ratio / scale, for a positive ratio; a      *)
(* spread of zero makes the quotient zero.                                 *)
DeviationsReach(amount, s, ratio, scale) ==
  /\ Spread(s) > 0
  /\ amount > 0
  /\ (scale * amount) * (scale * amount) >= ratio * ratio * Spread(s)

zscore_reaches(price, s, ratio, scale) ==
  DeviationsReach(Len(s) * price - Total(s), s, ratio, scale)

price_ratio_reaches(price, s, ratio) ==
  LET rolling_min == CHOOSE v \in Range(s) : \A w \in Range(s) : v <= w
  IN IF rolling_min > 0 THEN 100 * price >= ratio * rolling_min ELSE 100 >= ratio

velocity_reaches(velocities, ratio) ==
  /\ Len(velocities) >= 2
  /\ DeviationsReach(Len(velocities) * velocities[Len(velocities)], velocities, ratio, 100)

-----------------------------------------------------------------------------
(* Mutated form: the last point of a cooldown is waited out twice.         *)
CooledDown_OneLate(p) == cooldown_remaining[p]

CooledDown(p) ==
  IF cooldown_remaining[p] > 0 THEN cooldown_remaining[p] - 1 ELSE cooldown_remaining[p]

Ready(p) == CooledDown(p) = 0

WindowFull(p) == Len(price_history[p]) >= config[p].rolling_window_points

VelocitiesAfter(price) ==
  LET prices == price_history["reactive"]
      w == config["reactive"].rolling_window_points
  IN IF prices = << >> THEN velocity_history
     ELSE PushBounded(velocity_history, price - prices[Len(prices)], IF w > 3 THEN w - 1 ELSE 2)

(* Mutated form: the z-score is left to the observation.                   *)
ReactiveBreach_NoZScore(price) ==
  /\ WindowFull("reactive")
  /\ \/ price_ratio_reaches(price, price_history["reactive"],
                            config["reactive"].price_multiplier_threshold)
     \/ velocity_reaches(VelocitiesAfter(price), config["reactive"].velocity_std_multiplier)

ReactiveBreach(price) ==
  /\ WindowFull("reactive")
  /\ \/ zscore_reaches(price, price_history["reactive"],
                       config["reactive"].price_zscore_threshold, 100)
     \/ price_ratio_reaches(price, price_history["reactive"],
                            config["reactive"].price_multiplier_threshold)
     \/ velocity_reaches(VelocitiesAfter(price), config["reactive"].velocity_std_multiplier)

ReactiveAction(price) ==
  IF ReactiveBreach(price) THEN IF Ready("reactive") THEN "MIGRATE" ELSE "OBSERVE"
  ELSE IF /\ WindowFull("reactive")
          /\ zscore_reaches(price, price_history["reactive"],
                            config["reactive"].price_zscore_observe, 100)
       THEN "OBSERVE" ELSE "STABLE"

AlwaysAction == IF Ready("always_migrate") THEN "MIGRATE" ELSE "OBSERVE"

ZScoreBreach(price) ==
  /\ WindowFull("zscore")
  /\ zscore_reaches(price, price_history["zscore"], config["zscore"].zscore_threshold, 100)

ZScoreAction(price) ==
  IF ZScoreBreach(price) /\ Ready("zscore") THEN "MIGRATE"
  ELSE IF /\ WindowFull("zscore")
          /\ zscore_reaches(price, price_history["zscore"],
                            8 * config["zscore"].zscore_threshold, 1000)
       THEN "OBSERVE" ELSE "STABLE"

(* rng.random() < firing_probability, either way unless it is certain.     *)
Draws ==
  {lucky \in BOOLEAN : /\ lucky => config["random"].firing_probability > 0
                       /\ ~lucky => config["random"].firing_probability < 100}

RandomAction(lucky) == IF Ready("random") /\ lucky THEN "MIGRATE" ELSE "STABLE"

-----------------------------------------------------------------------------
(* Mutated form: a policy that is observing is held to be migrating.       *)
CooldownAfter_Eager(chosen) ==
  [p \in Policies |->
     IF chosen[p] # "STABLE" THEN config[p].cooldown_points ELSE CooledDown(p)]

CooldownAfter(chosen) ==
  [p \in Policies |->
     IF chosen[p] = "MIGRATE" THEN config[p].cooldown_points ELSE CooledDown(p)]

Chosen(price, lucky) ==
  [p \in Policies |-> CASE p = "reactive"       -> ReactiveAction(price)
                        [] p = "zscore"         -> ZScoreAction(price)
                        [] p = "always_migrate" -> AlwaysAction
                        [] OTHER                -> RandomAction(lucky)]

evaluate(price, lucky) ==
  /\ action' = Chosen(price, lucky)
  /\ cooldown_remaining' = CooldownAfter(action')
  /\ velocity_history' = VelocitiesAfter(price)
  /\ price_history' = [p \in Priced |->
       PushBounded(price_history[p], price, config[p].rolling_window_points)]
  /\ UNCHANGED config

Fresh ==
  /\ price_history = [p \in Priced |-> << >>]
  /\ velocity_history = << >>
  /\ cooldown_remaining = [p \in Policies |-> 0]
  /\ action = [p \in Policies |-> "STABLE"]

Init == config \in Configs /\ Fresh

Next == \E price \in Prices, lucky \in Draws : evaluate(price, lucky)

Spec == Init /\ [][Next]_vars
=============================================================================
