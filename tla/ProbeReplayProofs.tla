-------------------------- MODULE ProbeReplayProofs --------------------------
(***************************************************************************)
(* Proofs about ProbeReplay, for all probe files, encoders and policies.   *)
(***************************************************************************)
EXTENDS ProbeReplay, FiniteSetTheorems, NaturalsInduction, WellFoundedInduction, TLAPS

(* What the shared policy counts, tied to what it was given by whatever    *)
(* model: the cooldown is what is left of it since the last routing, the   *)
(* count of signals is below the signals since the last calm window.       *)
CountsInv ==
  /\ config \in Configs
  /\ consecutive_signals \in Nat
  /\ signals \in 0 .. config.min_consecutive_signals
  /\ UpTo(consecutive_signals, config.min_consecutive_signals) <= signals
  /\ quiet \in 0 .. config.cooldown_windows
  /\ cooldown_remaining = config.cooldown_windows - quiet

(* The limits of a configuration are naturals.                             *)
LEMMA LimitsNat ==
  ASSUME config \in Configs
  PROVE  config.cooldown_windows \in Nat /\ config.min_consecutive_signals \in Nat
BY ConfigsAssumption

(* The counts hold before the first sample.                                *)
LEMMA CountsInit == HistoryInit => CountsInv
<1> SUFFICES ASSUME HistoryInit PROVE CountsInv
  OBVIOUS
<1>1. /\ config \in Configs
      /\ consecutive_signals = 0 /\ cooldown_remaining = 0
      /\ quiet = config.cooldown_windows /\ signals = 0
  BY DEF HistoryInit, ReplayInit, Init, Fresh
<1>2. config.cooldown_windows \in Nat /\ config.min_consecutive_signals \in Nat
  BY <1>1, LimitsNat
<1>3. QED
  BY <1>1, <1>2 DEF CountsInv, UpTo

(* An evaluation recorded keeps the counts.                                *)
LEMMA EvaluateCounts ==
  ASSUME CountsInv, NEW w, evaluate(w), Record(w)
  PROVE  CountsInv'
<1> DEFINE minimum == config.min_consecutive_signals
           cooldown == config.cooldown_windows
           detected == signal_detected(w)
           calm == InRecoveryBand(w)
<1>1. PICK action \in Actions : Conclude(w, action)
  BY DEF evaluate, Route, Observe, Relax, Actions
<1>2. /\ config' = config
      /\ consecutive_signals' = SignalsAfter(w)
      /\ cooldown_remaining' = IF action = "ROUTE" THEN cooldown ELSE CooledDown
      /\ decision'.action = action
  BY <1>1 DEF Conclude
<1>3. /\ minimum \in Nat /\ cooldown \in Nat /\ consecutive_signals \in Nat
      /\ signals \in 0 .. minimum /\ quiet \in 0 .. cooldown
      /\ cooldown_remaining = cooldown - quiet
      /\ UpTo(consecutive_signals, minimum) <= signals
  BY LimitsNat DEF CountsInv
<1>4. /\ quiet' = IF action = "ROUTE" THEN 0 ELSE UpTo(quiet + 1, cooldown)
      /\ signals' = IF detected THEN UpTo(signals + 1, minimum)
                    ELSE IF calm THEN 0 ELSE signals
  BY <1>2 DEF Record
<1>5. CooledDown = IF cooldown - quiet > 0 THEN cooldown - quiet - 1 ELSE 0
  BY <1>3 DEF CooledDown
<1>6. SignalsAfter(w) = IF detected THEN consecutive_signals + 1
                        ELSE IF calm \/ consecutive_signals = 0 THEN 0
                        ELSE consecutive_signals - 1
  BY DEF SignalsAfter
<1> HIDE DEF minimum, cooldown, detected, calm
<1>7. quiet' \in 0 .. cooldown /\ cooldown_remaining' = cooldown - quiet'
  BY <1>2, <1>3, <1>4, <1>5 DEF UpTo
<1>8. /\ consecutive_signals' \in Nat /\ signals' \in 0 .. minimum
      /\ UpTo(consecutive_signals', minimum) <= signals'
  <2>1. CASE detected
    BY <1>2, <1>3, <1>4, <1>6, <2>1 DEF UpTo
  <2>2. CASE ~detected /\ calm
    BY <1>2, <1>3, <1>4, <1>6, <2>2 DEF UpTo
  <2>3. CASE ~detected /\ ~calm
    BY <1>2, <1>3, <1>4, <1>6, <2>3 DEF UpTo
  <2>4. QED
    BY <2>1, <2>2, <2>3
<1>9. QED
  BY <1>2, <1>7, <1>8 DEF CountsInv, minimum, cooldown, UpTo

(* An evaluation that routes short of an emergency found the cooldown run  *)
(* down and the signals counted, all of which were delivered.              *)
LEMMA EvaluateEarns ==
  ASSUME CountsInv, NEW w, evaluate(w), Record(w)
  PROVE  RouteEarned
<1> SUFFICES ASSUME decision'.action = "ROUTE", ~emergency(decision'.window)
             PROVE  /\ quiet + 1 >= config.cooldown_windows
                    /\ signals' >= config.min_consecutive_signals
  BY DEF RouteEarned
<1>1. Routes(w) /\ Conclude(w, "ROUTE")
  BY DEF evaluate, Route, Observe, Relax, Conclude
<1>2. /\ config' = config
      /\ decision'.window = w
      /\ consecutive_signals' = SignalsAfter(w)
  BY <1>1 DEF Conclude
<1>3. route_condition(w)
  BY <1>1, <1>2 DEF Routes
<1>4. SignalsAfter(w) >= config.min_consecutive_signals /\ CooledDown = 0
  BY <1>3 DEF route_condition
<1>5. config.cooldown_windows \in Nat /\ config.min_consecutive_signals \in Nat
  BY LimitsNat DEF CountsInv
<1>6. quiet + 1 >= config.cooldown_windows
  BY <1>4, <1>5 DEF CooledDown, CountsInv
<1>7. CountsInv'
  BY EvaluateCounts
<1>8. /\ UpTo(consecutive_signals', config.min_consecutive_signals) <= signals'
      /\ consecutive_signals' \in Nat
      /\ signals' \in 0 .. config.min_consecutive_signals
  BY <1>2, <1>7 DEF CountsInv, UpTo
<1>9. signals' >= config.min_consecutive_signals
  BY <1>2, <1>4, <1>5, <1>8 DEF UpTo
<1>10. QED
  BY <1>6, <1>9

(* An evaluation that relaxes after a degradation is in the band.          *)
LEMMA EvaluateClears ==
  ASSUME NEW w, evaluate(w)
  PROVE  ClearedInBand
<1> SUFFICES ASSUME state # "STABLE", state' = "STABLE"
             PROVE  InRecoveryBand(decision'.window)
  BY DEF ClearedInBand
<1>1. ~Routes(w) /\ ~Observes(w) /\ Conclude(w, "STABLE")
  BY DEF evaluate, Route, Observe, Relax, Conclude
<1>2. InRecoveryBand(w)
  BY <1>1 DEF Observes
<1>3. QED
  BY <1>1, <1>2 DEF Conclude

(* Whatever models follow one another, the policy they share routes only   *)
(* after its cooldown and its signals, or in an emergency, and clears a    *)
(* degradation only inside the recovery band.                              *)
THEOREM DecisionsAreEarned == HistorySpec => DecisionsEarned
<1>1. CountsInv /\ [HistoryNext]_<<replayVars, windowHistory>>
      => CountsInv' /\ [RouteEarned /\ ClearedInBand]_policyVars
  <2> SUFFICES ASSUME CountsInv, [HistoryNext]_<<replayVars, windowHistory>>
               PROVE  CountsInv' /\ [RouteEarned /\ ClearedInBand]_policyVars
    OBVIOUS
  <2>1. ASSUME UNCHANGED policyVars
        PROVE  CountsInv' /\ [RouteEarned /\ ClearedInBand]_policyVars
    BY <2>1 DEF policyVars, vars, windowHistory, CountsInv, UpTo
  <2>2. ASSUME NEW w, evaluate(w), Record(w)
        PROVE  CountsInv' /\ [RouteEarned /\ ClearedInBand]_policyVars
    BY <2>2, EvaluateCounts, EvaluateEarns, EvaluateClears
  <2>3. CASE (StartModel \/ FinishModel) /\ UNCHANGED windowHistory
    BY <2>1, <2>3 DEF StartModel, FinishModel, policyVars
  <2>4. CASE ReplaySample /\ WindowReady /\ Record(LatestWindow)
    <3>1. \/ WindowReady /\ evaluate(LatestWindow)
          \/ ~WindowReady /\ UNCHANGED vars
      BY <2>4 DEF ReplaySample
    <3>2. QED
      BY <2>2, <2>4, <3>1
  <2>5. CASE /\ ReplaySample /\ ~WindowReady
             /\ UNCHANGED windowHistory
    BY <2>1, <2>5 DEF ReplaySample, policyVars
  <2>6. CASE UNCHANGED <<replayVars, windowHistory>>
    BY <2>1, <2>6 DEF replayVars, policyVars
  <2>7. QED
    BY <2>3, <2>4, <2>5, <2>6 DEF HistoryNext
<1>2. QED
  BY CountsInit, <1>1, PTL DEF HistorySpec, DecisionsEarned

-----------------------------------------------------------------------------
(* The credit.  Facts about every prefix of the routings are shown by      *)
(* strong induction, by a least counterexample.                            *)
LEMMA LeastNatural ==
  ASSUME NEW T \in SUBSET Nat, T # {}
  PROVE  \E n \in T : \A m \in T : n <= m
<1>1. PICK n \in T : \A m \in T : ~(<<m, n>> \in OpToRel(<, Nat))
  BY NatLessThanWellFounded, WFMin
<1>2. \A m \in T : ~(m < n)
  BY <1>1 DEF OpToRel
<1>3. QED
  BY <1>2

LEMMA Upward ==
  ASSUME NEW n \in Nat, NEW Good,
         \A m \in 0 .. n : (\A k \in 0 .. m - 1 : k \in Good) => m \in Good
  PROVE  \A m \in 0 .. n : m \in Good
<1> SUFFICES ASSUME NEW m \in 0 .. n, m \notin Good
             PROVE  FALSE
  OBVIOUS
<1> DEFINE T == {k \in Nat : k \in 0 .. n /\ k \notin Good}
<1>1. m \in T
  OBVIOUS
<1>2. PICK k \in T : \A j \in T : k <= j
  BY <1>1, LeastNatural
<1>3. ASSUME NEW j \in 0 .. k - 1, j \notin Good
      PROVE  FALSE
  <2>1. j \in T /\ ~(k <= j)
    BY <1>2, <1>3
  <2>2. QED
    BY <2>1, <1>2
<1>4. QED
  BY <1>2, <1>3

LEMMA GreatestNatural ==
  ASSUME NEW n \in Nat, NEW T \in SUBSET (0 .. n), T # {}
  PROVE  \E m \in T : \A k \in T : k <= m
<1> DEFINE S == {k \in Nat : n - k \in T}
<1>1. PICK t \in T : TRUE
  OBVIOUS
<1>2. n - t \in Nat /\ n - (n - t) = t
  BY <1>1
<1>3. n - t \in S
  BY <1>1, <1>2
<1>4. PICK s \in S : \A k \in S : s <= k
  BY <1>3, LeastNatural
<1>5. ASSUME NEW k \in T
      PROVE  k <= n - s
  <2>1. n - k \in Nat /\ n - (n - k) = k
    OBVIOUS
  <2>2. n - k \in S
    BY <2>1
  <2>3. s <= n - k /\ s \in Nat /\ k \in Nat
    BY <2>2, <1>4
  <2>4. QED
    BY <2>3
<1>6. n - s \in T
  BY <1>4
<1>7. QED
  BY <1>5, <1>6

(* A journal: a sequence of records with times, the events among them.     *)
Journal(results, events) ==
  /\ DOMAIN results = 1 .. Len(results)
  /\ Len(results) \in Nat
  /\ \A i \in DOMAIN results : results[i].ts \in Int
  /\ events \subseteq DOMAIN results

Used(pairs) == {p[2] : p \in pairs}

Open(results, events, before, a) == Creditable(results, events, Used(before), a)

Credited(results, actions, events, before, a) ==
  IF a \notin actions \/ Open(results, events, before, a) = {} THEN before
  ELSE before \cup {<<a, First(Open(results, events, before, a))>>}

(* What is credited to the routings up to each sample.                     *)
CreditsUpTo(results, actions, events, last, f) ==
  f = [a \in 0 .. last |-> IF a = 0 THEN {} ELSE Credited(results, actions, events, f[a - 1], a)]

LEMMA CreditsExist ==
  ASSUME NEW results, NEW actions, NEW events, Len(results) \in Nat
  PROVE  \E f : CreditsUpTo(results, actions, events, Len(results), f)
<1> DEFINE n == Len(results)
           Good == {m \in 0 .. n : \E f : CreditsUpTo(results, actions, events, m, f)}
<1>1. ASSUME NEW m \in 0 .. n, \A k \in 0 .. m - 1 : k \in Good
      PROVE  m \in Good
  <2>1. CASE m = 0
    <3>1. CreditsUpTo(results, actions, events, m, [a \in 0 .. 0 |-> {}])
      BY <2>1 DEF CreditsUpTo
    <3>2. QED
      BY <3>1
  <2>2. CASE m # 0
    <3>1. m - 1 \in 0 .. m - 1 /\ m \in Nat
      BY <2>2
    <3>2. PICK g : CreditsUpTo(results, actions, events, m - 1, g)
      BY <1>1, <3>1
    <3> DEFINE h == [a \in 0 .. m |->
                       IF a = m THEN Credited(results, actions, events, g[m - 1], m) ELSE g[a]]
    <3>3. ASSUME NEW a \in 0 .. m
          PROVE  h[a] = IF a = 0 THEN {} ELSE Credited(results, actions, events, h[a - 1], a)
      <4>1. CASE a = m
        <5>1. h[a - 1] = g[m - 1] /\ h[a] = Credited(results, actions, events, g[m - 1], m)
          BY <4>1, <3>1
        <5>2. QED
          BY <5>1, <4>1, <2>2
      <4>2. CASE a # m
        <5>1. a \in 0 .. m - 1
          BY <4>2, <3>1
        <5>2. g[a] = IF a = 0 THEN {} ELSE Credited(results, actions, events, g[a - 1], a)
          BY <5>1, <3>2 DEF CreditsUpTo
        <5>3. h[a] = g[a] /\ (a # 0 => h[a - 1] = g[a - 1])
          BY <5>1, <4>2, <3>1
        <5>4. QED
          BY <5>2, <5>3
      <4>3. QED
        BY <4>1, <4>2
    <3>4. CreditsUpTo(results, actions, events, m, h)
      <4>1. h = [a \in 0 .. m |-> h[a]]
        OBVIOUS
      <4> HIDE DEF h
      <4>2. [a \in 0 .. m |-> h[a]]
              = [a \in 0 .. m |->
                   IF a = 0 THEN {} ELSE Credited(results, actions, events, h[a - 1], a)]
        BY <3>3
      <4>3. QED
        BY <4>1, <4>2 DEF CreditsUpTo
    <3>5. QED
      BY <3>4
  <2>3. QED
    BY <2>1, <2>2
<1>2. n \in 0 .. n /\ n \in Nat
  OBVIOUS
<1>3. n \in Good
  <2> HIDE DEF Good
  <2>1. QED
    BY <1>1, <1>2, Upward
<1>4. QED
  BY <1>3

LEMMA CreditsAreLast ==
  ASSUME NEW results, NEW actions, NEW events, Len(results) \in Nat
  PROVE  \E f : /\ CreditsUpTo(results, actions, events, Len(results), f)
                /\ Credits(results, actions, events) = f[Len(results)]
<1> DEFINE F == CHOOSE f : CreditsUpTo(results, actions, events, Len(results), f)
<1>1. CreditsUpTo(results, actions, events, Len(results), F)
  BY CreditsExist
<1>2. Credits(results, actions, events) = F[Len(results)]
  BY DEF Credits, CreditsUpTo, Credited, Open, Used
<1>3. QED
  BY <1>1, <1>2

-----------------------------------------------------------------------------
(* A routing up to a, with an event it could be credited with.             *)
Edge(results, actions, events, a, p) ==
  /\ p = <<p[1], p[2]>>
  /\ p[1] \in actions /\ p[1] \in 1 .. a
  /\ p[2] \in events /\ p[2] > p[1]
  /\ results[p[2]].ts - results[p[1]].ts <= LOOKAHEAD

(* What is credited up to a: edges, one to one; an event is passed over    *)
(* only when it is used, and so is all that an uncredited routing reaches. *)
Sound(results, actions, events, a, pairs) ==
  /\ IsFiniteSet(pairs)
  /\ \A p \in pairs : Edge(results, actions, events, a, p)
  /\ OneToOne(pairs)
  /\ InTimeOrder(results) =>
       \A p \in pairs : \A e \in events : p[1] < e /\ e < p[2] => e \in Used(pairs)
  /\ \A b \in actions \cap (1 .. a) : (\A p \in pairs : p[1] # b) =>
       \A e \in events : e > b /\ results[e].ts - results[b].ts <= LOOKAHEAD => e \in Used(pairs)

LEMMA FirstIsFirst ==
  ASSUME NEW results, NEW events, NEW used, NEW a, Journal(results, events),
         Creditable(results, events, used, a) # {}
  PROVE  LET open == Creditable(results, events, used, a)
         IN First(open) \in open /\ \A e \in open : First(open) <= e
<1> DEFINE open == Creditable(results, events, used, a)
<1>1. open \in SUBSET Nat /\ open # {}
  BY DEF Journal, Creditable
<1>2. \E n \in open : \A m \in open : n <= m
  <2> HIDE DEF open
  <2>1. QED
    BY <1>1, LeastNatural
<1>3. QED
  BY <1>2 DEF First

(* One more routing.                                                       *)
LEMMA CreditKeepsSound ==
  ASSUME NEW results, NEW actions, NEW events, Journal(results, events),
         actions \subseteq DOMAIN results,
         NEW a \in 1 .. Len(results), NEW before,
         Sound(results, actions, events, a - 1, before)
  PROVE  Sound(results, actions, events, a, Credited(results, actions, events, before, a))
<1> DEFINE open == Open(results, events, before, a)
           after == Credited(results, actions, events, before, a)
           E(b, p) == Edge(results, actions, events, b, p)
<1>1. /\ IsFiniteSet(before) /\ OneToOne(before)
      /\ \A p \in before : E(a - 1, p)
  BY DEF Sound
<1>2. a \in Nat /\ 1 .. a - 1 \subseteq 1 .. a /\ a \notin 1 .. a - 1
      /\ \A b \in 1 .. a : b = a \/ b \in 1 .. a - 1
  BY DEF Journal
<1>3. /\ \A e \in events : e \in Nat /\ e \in DOMAIN results /\ results[e].ts \in Int
      /\ results[a].ts \in Int /\ a \in DOMAIN results
      /\ \A e : e \in open <=> /\ e \in events /\ e > a /\ e \notin Used(before)
                               /\ results[e].ts - results[a].ts <= LOOKAHEAD
  BY DEF Journal, Open, Creditable
<1>4. \A p \in before : E(a, p) /\ p[1] # a
  BY <1>1, <1>2 DEF Edge
<1>5. CASE a \notin actions \/ open = {}
  <2>1. after = before
    BY <1>5 DEF Credited
  <2>2. ASSUME NEW b \in actions \cap (1 .. a), \A p \in before : p[1] # b,
               NEW e \in events, e > b, results[e].ts - results[b].ts <= LOOKAHEAD
        PROVE  e \in Used(before)
    <3>1. CASE b = a
      BY <3>1, <2>2, <1>3, <1>5
    <3>2. CASE b # a
      <4>1. b \in actions \cap (1 .. a - 1)
        BY <3>2, <1>2
      <4>2. QED
        BY <4>1, <2>2 DEF Sound
    <3>3. QED
      BY <3>1, <3>2
  <2>3. InTimeOrder(results) =>
          \A p \in before : \A e \in events : p[1] < e /\ e < p[2] => e \in Used(before)
    BY DEF Sound
  <2>4. QED
    BY <1>1, <1>4, <2>1, <2>2, <2>3 DEF Sound
<1>6. CASE a \in actions /\ open # {}
  <2> DEFINE x == First(open)
             new == <<a, x>>
  <2>1. after = before \cup {new}
    BY <1>6 DEF Credited
  <2>2. x \in open /\ \A e \in open : x <= e
    BY <1>6, FirstIsFirst DEF Open
  <2> HIDE DEF x, open
  <2>3. /\ x \in events /\ x \in Nat /\ x > a /\ x \notin Used(before)
        /\ results[x].ts - results[a].ts <= LOOKAHEAD /\ results[x].ts \in Int
    BY <2>2, <1>3
  <2>4. new[1] = a /\ new[2] = x /\ new = <<new[1], new[2]>>
    OBVIOUS
  <2>5. E(a, new)
    BY <2>3, <2>4, <1>2, <1>6 DEF Edge, Journal
  <2> HIDE DEF new
  <2>6. \A p \in after : E(a, p)
    BY <2>1, <2>5, <1>4
  <2>7. IsFiniteSet(after)
    BY <2>1, <1>1, FS_AddElement
  <2>8. \A p \in before : p[1] # a /\ p[2] # x
    BY <1>4, <2>3 DEF Used
  <2>9. OneToOne(after)
    <3>1. \A p, q \in before : p[1] = q[1] <=> p[2] = q[2]
      BY <1>1 DEF OneToOne
    <3>2. QED
      BY <2>1, <2>4, <2>8, <3>1 DEF OneToOne
  <2>10. Used(before) \subseteq Used(after) /\ x \in Used(after)
    BY <2>1, <2>4 DEF Used
  <2>11. ASSUME InTimeOrder(results), NEW p \in after, NEW e \in events, p[1] < e, e < p[2]
         PROVE  e \in Used(after)
    <3>1. CASE p \in before
      BY <3>1, <2>10, <2>11 DEF Sound
    <3>2. CASE p = new
      <4>1. a < e /\ e < x
        BY <3>2, <2>4, <2>11
      <4>2. results[e].ts <= results[x].ts
        BY <4>1, <2>3, <2>11, <1>3 DEF InTimeOrder
      <4>3. e \notin open
        BY <4>1, <2>2, <2>3, <1>3
      <4>4. results[e].ts - results[a].ts <= LOOKAHEAD
        BY <4>2, <2>3, <1>3, RecordsAssumption
      <4>5. QED
        BY <4>1, <4>3, <4>4, <1>3, <1>2, <2>10
    <3>3. QED
      BY <3>1, <3>2, <2>1, <2>11
  <2>12. ASSUME NEW b \in actions \cap (1 .. a), \A p \in after : p[1] # b,
                NEW e \in events, e > b, results[e].ts - results[b].ts <= LOOKAHEAD
         PROVE  e \in Used(after)
    <3>1. b # a
      BY <2>1, <2>4, <2>12
    <3>2. b \in actions \cap (1 .. a - 1) /\ \A p \in before : p[1] # b
      BY <3>1, <1>2, <2>1, <2>12
    <3>3. QED
      BY <3>2, <2>10, <2>12 DEF Sound
  <2>13. QED
    BY <2>6, <2>7, <2>9, <2>11, <2>12 DEF Sound
<1>7. QED
  BY <1>5, <1>6

(* Every prefix is sound, and holds the ones before it.                    *)
LEMMA CreditsAreSound ==
  ASSUME NEW results, NEW actions, NEW events, Journal(results, events),
         actions \subseteq DOMAIN results,
         NEW U, CreditsUpTo(results, actions, events, Len(results), U)
  PROVE  \A a \in 0 .. Len(results) : Sound(results, actions, events, a, U[a])
<1> DEFINE n == Len(results)
           Good == {m \in 0 .. n : Sound(results, actions, events, m, U[m])}
<1>1. n \in Nat
  BY DEF Journal
<1>2. ASSUME NEW m \in 0 .. n, \A k \in 0 .. m - 1 : k \in Good
      PROVE  Sound(results, actions, events, m, U[m])
  <2>1. CASE m = 0
    <3>1. U[m] = {} /\ 1 .. 0 = {}
      BY <2>1, <1>1 DEF CreditsUpTo
    <3>2. IsFiniteSet(U[m])
      BY <3>1, FS_EmptySet
    <3>3. QED
      BY <3>1, <3>2, <2>1 DEF Sound, OneToOne
  <2>2. CASE m # 0
    <3>1. m - 1 \in 0 .. m - 1 /\ m \in 1 .. Len(results)
      BY <2>2, <1>1
    <3>2. Sound(results, actions, events, m - 1, U[m - 1])
      BY <1>2, <3>1
    <3>3. U[m] = Credited(results, actions, events, U[m - 1], m)
      BY <2>2 DEF CreditsUpTo
    <3>4. QED
      BY <3>1, <3>2, <3>3, CreditKeepsSound
  <2>3. QED
    BY <2>1, <2>2
<1>3. ASSUME NEW m \in 0 .. n, \A k \in 0 .. m - 1 : k \in Good
      PROVE  m \in Good
  BY <1>2, <1>3
<1>4. \A m \in 0 .. n : m \in Good
  <2> HIDE DEF Good
  <2>1. QED
    BY <1>1, <1>3, Upward
<1>5. QED
  BY <1>4

LEMMA CreditsGrow ==
  ASSUME NEW results, NEW actions, NEW events, Len(results) \in Nat,
         NEW U, CreditsUpTo(results, actions, events, Len(results), U)
  PROVE  \A a \in 0 .. Len(results) : \A k \in 0 .. a : U[k] \subseteq U[a]
<1> DEFINE n == Len(results)
           Good == {m \in 0 .. n : \A k \in 0 .. m : U[k] \subseteq U[m]}
<1>1. ASSUME NEW m \in 0 .. n, \A k \in 0 .. m - 1 : k \in Good
      PROVE  m \in Good
  <2>1. ASSUME NEW k \in 0 .. m
        PROVE  U[k] \subseteq U[m]
    <3>1. CASE k = m
      BY <3>1
    <3>2. CASE k # m
      <4>1. k \in 0 .. m - 1 /\ m - 1 \in 0 .. m - 1 /\ m # 0
        BY <3>2
      <4>2. U[k] \subseteq U[m - 1]
        BY <1>1, <4>1
      <4>3. U[m] = Credited(results, actions, events, U[m - 1], m)
        BY <4>1 DEF CreditsUpTo
      <4>4. U[m - 1] \subseteq U[m]
        BY <4>3 DEF Credited
      <4>5. QED
        BY <4>2, <4>4
    <3>3. QED
      BY <3>1, <3>2
  <2>2. QED
    BY <2>1
<1>2. \A m \in 0 .. n : m \in Good
  <2> HIDE DEF Good
  <2>1. QED
    BY <1>1, Upward
<1>3. QED
  BY <1>2

-----------------------------------------------------------------------------
(* A cover: of each credited pair its routing, when it is in T, or else    *)
(* its event, so that every edge has an end among them.  No one-to-one     *)
(* pairing has then more edges than there are credited pairs.              *)
CoveredBy(pairs, T, p) == \E q \in pairs : IF q \in T THEN q[1] = p[1] ELSE q[2] = p[2]

Covers(results, actions, events, a, pairs, T) ==
  \A p : Edge(results, actions, events, a, p) => CoveredBy(pairs, T, p)

(* A routing that finds its events used: let u be the last unused event    *)
(* before it.  Behind u every event in reach is used, by routings from u   *)
(* on; the routings before u have a cover of their own.                    *)
LEMMA UnusedIsPassed ==
  ASSUME NEW results, NEW actions, NEW events, Journal(results, events),
         InTimeOrder(results), actions \subseteq DOMAIN results,
         NEW U, CreditsUpTo(results, actions, events, Len(results), U),
         NEW a \in 1 .. Len(results),
         Open(results, events, U[a - 1], a) = {}, U[a] = U[a - 1],
         \A k \in 0 .. a - 1 : \E T : Covers(results, actions, events, k, U[k], T) /\ T \subseteq U[k]
  PROVE  \E T : Covers(results, actions, events, a, U[a], T) /\ T \subseteq U[a]
<1> DEFINE Spare == {v \in events : v <= a /\ v \notin Used(U[a])}
<1>1. /\ a \in Nat /\ a \in DOMAIN results /\ Len(results) \in Nat /\ a - 1 \in 0 .. Len(results)
      /\ \A e \in events : e \in Nat /\ e \in DOMAIN results /\ e >= 1
  BY DEF Journal
<1>2. \E u \in 0 .. a : /\ u # 0 => u \in events /\ u \notin Used(U[a])
                        /\ \A v \in events : v > u /\ v <= a => v \in Used(U[a])
  <2>1. CASE Spare = {}
    <3>1. 0 \in 0 .. a
      BY <1>1
    <3>2. QED
      BY <2>1, <3>1
  <2>2. CASE Spare # {}
    <3>1. Spare \in SUBSET (0 .. a)
      BY <1>1
    <3>2. PICK u \in Spare : \A k \in Spare : k <= u
      <4> HIDE DEF Spare
      <4>1. QED
        BY <2>2, <3>1, <1>1, GreatestNatural
    <3>3. u \in 0 .. a /\ u \in events /\ u \notin Used(U[a])
      BY <3>1
    <3>4. ASSUME NEW v \in events, v > u, v <= a
          PROVE  v \in Used(U[a])
      BY <3>2, <3>3, <3>4, <1>1
    <3>5. QED
      BY <3>3, <3>4
  <2>3. QED
    BY <2>1, <2>2
<1>3. PICK u \in 0 .. a : /\ u # 0 => u \in events /\ u \notin Used(U[a])
                          /\ \A v \in events : v > u /\ v <= a => v \in Used(U[a])
  BY <1>2
<1> DEFINE k == IF u = 0 THEN 0 ELSE u - 1
<1>4. k \in 0 .. a - 1 /\ k <= u /\ (u # 0 => k = u - 1) /\ k \in Nat /\ k \in 0 .. a
  BY <1>1
<1> HIDE DEF k, Spare
<1>5. PICK T : Covers(results, actions, events, k, U[k], T) /\ T \subseteq U[k]
  BY <1>4
<1>6. U[k] \subseteq U[a]
  <2>1. a \in 0 .. Len(results)
    BY <1>1
  <2>2. QED
    BY <1>1, <1>4, <2>1, CreditsGrow
<1>7. Sound(results, actions, events, a, U[a]) /\ Sound(results, actions, events, k, U[k])
  <2>1. a \in 0 .. Len(results) /\ k \in 0 .. Len(results)
    BY <1>1, <1>4
  <2>2. QED
    BY <2>1, CreditsAreSound
<1>8. ASSUME NEW p, Edge(results, actions, events, a, p)
      PROVE  CoveredBy(U[a], T, p)
  <2> DEFINE b == p[1]
             e == p[2]
  <2>1. /\ p = <<b, e>> /\ b \in actions /\ b \in 1 .. a /\ e \in events /\ e > b
        /\ results[e].ts - results[b].ts <= LOOKAHEAD
    BY <1>8 DEF Edge
  <2> HIDE DEF b, e
  <2>2. b \in Nat /\ e \in Nat /\ b \in DOMAIN results /\ e \in DOMAIN results
    BY <2>1, <1>1
  <2>3. CASE b <= k
    <3>1. Edge(results, actions, events, k, p)
      <4>1. b \in 1 .. k
        BY <2>1, <2>3, <1>4
      <4>2. QED
        BY <2>1, <4>1 DEF Edge, b, e
    <3>2. PICK q \in U[k] : IF q \in T THEN q[1] = p[1] ELSE q[2] = p[2]
      BY <1>5, <3>1 DEF Covers, CoveredBy
    <3>3. QED
      BY <3>2, <1>6 DEF CoveredBy
  <2>4. CASE b > k
    <3>1. b >= u /\ e > u
      BY <2>1, <2>2, <2>4, <1>1, <1>3, <1>4
    <3>2. results[b].ts <= results[a].ts
      <4>1. b = a \/ b < a
        BY <2>1, <2>2, <1>1
      <4>2. results[a].ts \in Int
        BY <1>1 DEF Journal
      <4>3. QED
        BY <4>1, <4>2, <2>2, <1>1 DEF InTimeOrder
    <3>3. e \in Used(U[a])
      <4>1. CASE e <= a
        BY <4>1, <3>1, <2>1, <1>3
      <4>2. CASE e > a
        <5>1. results[e].ts - results[a].ts <= LOOKAHEAD
          <6>1. results[a].ts \in Int /\ results[b].ts \in Int /\ results[e].ts \in Int
            BY <1>1, <2>2 DEF Journal
          <6>2. QED
            BY <6>1, <3>2, <2>1, RecordsAssumption
        <5>2. e \in Used(U[a - 1])
          BY <5>1, <4>2, <2>1 DEF Open, Creditable
        <5>3. QED
          BY <5>2
      <4>3. QED
        BY <4>1, <4>2, <1>1, <2>2
    <3>4. PICK q \in U[a] : q[2] = e
      BY <3>3 DEF Used
    <3>5. ASSUME q \in T
          PROVE  FALSE
      <4>1. q \in U[k]
        BY <3>5, <1>5
      <4>2. Edge(results, actions, events, k, q)
        BY <4>1, <1>7 DEF Sound
      <4>3. q[1] \in 1 .. k
        BY <4>2 DEF Edge
      <4>4. u # 0 /\ q[1] < u
        BY <4>3, <1>4, <1>3, <1>1
      <4>5. u \in events /\ u < q[2]
        BY <4>4, <1>3, <3>1, <3>4
      <4>6. u \in Used(U[a])
        BY <4>4, <4>5, <1>7 DEF Sound
      <4>7. QED
        BY <4>4, <4>6, <1>3
    <3>6. QED
      BY <3>4, <3>5 DEF CoveredBy, e
  <2>5. QED
    BY <2>2, <2>3, <2>4, <1>4
<1>9. T \subseteq U[a]
  BY <1>5, <1>6
<1>10. QED
  BY <1>8, <1>9 DEF Covers

(* A cover for every prefix: a credited routing joins it.                  *)
LEMMA CoverExists ==
  ASSUME NEW results, NEW actions, NEW events, Journal(results, events),
         InTimeOrder(results), actions \subseteq DOMAIN results,
         NEW U, CreditsUpTo(results, actions, events, Len(results), U)
  PROVE  \A a \in 0 .. Len(results) :
           \E T : Covers(results, actions, events, a, U[a], T) /\ T \subseteq U[a]
<1> DEFINE n == Len(results)
           Has(m) == \E T : Covers(results, actions, events, m, U[m], T) /\ T \subseteq U[m]
           Good == {m \in 0 .. n : Has(m)}
<1>1. n \in Nat
  BY DEF Journal
<1>2. ASSUME NEW m \in 0 .. n, \A k \in 0 .. m - 1 : k \in Good
      PROVE  Has(m)
  <2>1. CASE m = 0
    <3>1. \A p : ~Edge(results, actions, events, m, p)
      BY <2>1 DEF Edge
    <3>2. Covers(results, actions, events, m, U[m], {}) /\ {} \subseteq U[m]
      BY <3>1 DEF Covers
    <3>3. QED
      BY <3>2
  <2>2. CASE m # 0
    <3>1. m - 1 \in 0 .. m - 1 /\ m \in 1 .. Len(results) /\ m - 1 \in 0 .. Len(results)
      BY <2>2, <1>1
    <3>2. U[m] = Credited(results, actions, events, U[m - 1], m)
      BY <2>2 DEF CreditsUpTo
    <3>3. PICK T : Covers(results, actions, events, m - 1, U[m - 1], T) /\ T \subseteq U[m - 1]
      BY <1>2, <3>1
    <3>4. Sound(results, actions, events, m - 1, U[m - 1])
      BY <3>1, CreditsAreSound
    <3>5. ASSUME NEW p, Edge(results, actions, events, m, p), p[1] # m
          PROVE  Edge(results, actions, events, m - 1, p)
      BY <3>1, <3>5 DEF Edge
    <3>6. CASE m \notin actions
      <4>1. U[m] = U[m - 1]
        BY <3>2, <3>6 DEF Credited
      <4>2. \A p : Edge(results, actions, events, m, p) => p[1] # m
        BY <3>6 DEF Edge
      <4>3. Covers(results, actions, events, m, U[m], T)
        BY <4>1, <4>2, <3>3, <3>5 DEF Covers
      <4>4. QED
        BY <4>1, <4>3, <3>3
    <3>7. CASE m \in actions /\ Open(results, events, U[m - 1], m) = {}
      <4>1. U[m] = U[m - 1]
        BY <3>2, <3>7 DEF Credited
      <4>2. \A k \in 0 .. m - 1 : Has(k)
        BY <1>2
      <4>3. QED
        BY <4>1, <4>2, <3>1, <3>7, UnusedIsPassed
    <3>8. CASE m \in actions /\ Open(results, events, U[m - 1], m) # {}
      <4> DEFINE new == <<m, First(Open(results, events, U[m - 1], m))>>
                 S == T \cup {new}
      <4>1. U[m] = U[m - 1] \cup {new}
        BY <3>2, <3>8 DEF Credited
      <4>2. new[1] = m
        OBVIOUS
      <4> HIDE DEF new
      <4>3. new \notin U[m - 1]
        <5>1. \A p \in U[m - 1] : p[1] \in 1 .. m - 1
          BY <3>4 DEF Sound, Edge
        <5>2. QED
          BY <5>1, <4>2, <3>1
      <4>4. ASSUME NEW p, Edge(results, actions, events, m, p)
            PROVE  CoveredBy(U[m], S, p)
        <5>1. CASE p[1] = m
          BY <5>1, <4>1, <4>2 DEF CoveredBy
        <5>2. CASE p[1] # m
          <6>1. CoveredBy(U[m - 1], T, p)
            BY <5>2, <4>4, <3>5, <3>3 DEF Covers
          <6>2. PICK q \in U[m - 1] : IF q \in T THEN q[1] = p[1] ELSE q[2] = p[2]
            BY <6>1 DEF CoveredBy
          <6>3. q \in U[m] /\ (q \in T <=> q \in S)
            BY <4>1, <4>3
          <6>4. QED
            BY <6>2, <6>3 DEF CoveredBy
        <5>3. QED
          BY <5>1, <5>2
      <4>5. S \subseteq U[m]
        BY <4>1, <3>3
      <4>6. Covers(results, actions, events, m, U[m], S)
        BY <4>4 DEF Covers
      <4>7. QED
        BY <4>5, <4>6
    <3>9. QED
      BY <3>6, <3>7, <3>8
  <2>3. QED
    BY <2>1, <2>2
<1>3. ASSUME NEW m \in 0 .. n, \A k \in 0 .. m - 1 : k \in Good
      PROVE  m \in Good
  BY <1>2, <1>3
<1>4. \A m \in 0 .. n : m \in Good
  <2> HIDE DEF Good
  <2>1. QED
    BY <1>1, <1>3, Upward
<1>5. QED
  BY <1>4

(* A one-to-one pairing of covered edges has no more edges than the cover  *)
(* has pairs.                                                              *)
LEMMA CoverBounds ==
  ASSUME NEW pairs, IsFiniteSet(pairs), NEW T, NEW more, OneToOne(more),
         \A p \in more : p = <<p[1], p[2]>> /\ CoveredBy(pairs, T, p)
  PROVE  Cardinality(more) <= Cardinality(pairs)
<1> DEFINE By(p) == CHOOSE q \in pairs : IF q \in T THEN q[1] = p[1] ELSE q[2] = p[2]
           g == [p \in more |-> By(p)]
<1>1. \A p \in more : By(p) \in pairs /\ IF By(p) \in T THEN By(p)[1] = p[1] ELSE By(p)[2] = p[2]
  BY DEF CoveredBy
<1> HIDE DEF By
<1>2. ASSUME NEW p \in more, NEW q \in more, By(p) = By(q)
      PROVE  p = q
  <2>1. p[1] = q[1] \/ p[2] = q[2]
    BY <1>1, <1>2
  <2>2. p[1] = q[1] /\ p[2] = q[2]
    BY <2>1 DEF OneToOne
  <2>3. p = <<p[1], p[2]>> /\ q = <<q[1], q[2]>>
    OBVIOUS
  <2>4. QED
    BY <2>2, <2>3
<1>3. g \in [more -> pairs]
  BY <1>1
<1>4. \A p, q \in more : g[p] = g[q] => p = q
  BY <1>2
<1>5. g \in Injection(more, pairs)
  BY <1>3, <1>4 DEF Injection, IsInjective
<1>6. QED
  BY <1>5, FS_Injection

(* The greedy attribution is sound in any journal, and maximal in one that *)
(* is in order of time.                                                    *)
LEMMA GreedyIsMaximal ==
  ASSUME NEW results, NEW actions, NEW events, Journal(results, events),
         actions \subseteq DOMAIN results
  PROVE  LET pairs   == Credits(results, actions, events)
             choices == {p \in Pairable(results, events) : p[1] \in actions}
         IN /\ pairs \subseteq choices
            /\ OneToOne(pairs)
            /\ InTimeOrder(results) =>
                 \A more \in kSubset(Cardinality(pairs) + 1, choices) : ~OneToOne(more)
<1> DEFINE n == Len(results)
           pairs == Credits(results, actions, events)
           choices == {p \in Pairable(results, events) : p[1] \in actions}
<1>1. n \in Nat /\ DOMAIN results = 1 .. n /\ events \subseteq 1 .. n
  BY DEF Journal
<1>2. PICK U : /\ CreditsUpTo(results, actions, events, n, U)
               /\ pairs = U[n]
  BY <1>1, CreditsAreLast
<1> HIDE DEF pairs
<1>3. Sound(results, actions, events, n, pairs)
  BY <1>1, <1>2, CreditsAreSound
<1>4. \A p : p \in choices <=> Edge(results, actions, events, n, p)
  <2>1. ASSUME NEW p, p \in choices
        PROVE  Edge(results, actions, events, n, p)
    <3>1. p \in (1 .. n) \X events /\ p[1] \in actions
          /\ p[2] > p[1] /\ results[p[2]].ts - results[p[1]].ts <= LOOKAHEAD
      BY <2>1, <1>1 DEF Pairable
    <3>2. QED
      BY <3>1 DEF Edge
  <2>2. ASSUME NEW p, Edge(results, actions, events, n, p)
        PROVE  p \in choices
    <3>1. p = <<p[1], p[2]>> /\ p[1] \in 1 .. n /\ p[2] \in events
      BY <2>2 DEF Edge
    <3>2. p \in (1 .. n) \X events
      BY <3>1
    <3>3. QED
      BY <3>2, <2>2, <1>1 DEF Edge, Pairable
  <2>3. QED
    BY <2>1, <2>2
<1> HIDE DEF choices
<1>5. pairs \subseteq choices /\ OneToOne(pairs) /\ IsFiniteSet(pairs)
  BY <1>3, <1>4 DEF Sound
<1>6. ASSUME InTimeOrder(results),
             NEW more \in kSubset(Cardinality(pairs) + 1, choices), OneToOne(more)
      PROVE  FALSE
  <2>1. more \subseteq choices /\ Cardinality(more) = Cardinality(pairs) + 1
    BY <1>6 DEF kSubset
  <2>2. n \in 0 .. n
    BY <1>1
  <2>3. PICK T : Covers(results, actions, events, n, pairs, T)
    BY <1>1, <1>2, <1>6, <2>2, CoverExists
  <2>4. \A p \in more : Edge(results, actions, events, n, p)
    BY <2>1, <1>4
  <2>5. \A p \in more : p = <<p[1], p[2]>> /\ CoveredBy(pairs, T, p)
    BY <2>3, <2>4 DEF Covers, Edge
  <2>6. Cardinality(more) <= Cardinality(pairs)
    BY <2>5, <1>5, <1>6, CoverBounds
  <2>7. Cardinality(pairs) \in Nat
    BY <1>5, FS_CardinalityType
  <2>8. QED
    BY <2>1, <2>6, <2>7
<1>7. QED
  BY <1>5, <1>6 DEF pairs, choices

-----------------------------------------------------------------------------
(* The samples of a model are a journal: each of its places is the Nth of  *)
(* them for one n.                                                         *)
Lower(places, i) == {j \in places : j < i}

LEMMA LowerIsFewer ==
  ASSUME NEW places \in SUBSET Nat, IsFiniteSet(places), NEW i \in places
  PROVE  IsFiniteSet(Lower(places, i)) /\ Cardinality(Lower(places, i)) + 1 \in 1 .. Cardinality(places)
<1>1. Lower(places, i) \in SUBSET (places \ {i})
  BY DEF Lower
<1>2. IsFiniteSet(places \ {i}) /\ Cardinality(places \ {i}) = Cardinality(places) - 1
  BY FS_RemoveElement
<1>3. IsFiniteSet(Lower(places, i)) /\ Cardinality(Lower(places, i)) <= Cardinality(places) - 1
  BY <1>1, <1>2, FS_Subset
<1>4. Cardinality(Lower(places, i)) \in Nat /\ Cardinality(places) \in Nat
  BY <1>3, FS_CardinalityType
<1>5. QED
  BY <1>3, <1>4

LEMMA LowerInOrder ==
  ASSUME NEW places \in SUBSET Nat, IsFiniteSet(places),
         NEW i \in places, NEW j \in places, i < j
  PROVE  Cardinality(Lower(places, i)) < Cardinality(Lower(places, j))
<1>1. Lower(places, i) \cup {i} \in SUBSET Lower(places, j)
  <2>1. \A k \in Lower(places, i) : k \in places /\ k < j
    BY DEF Lower
  <2>2. QED
    BY <2>1 DEF Lower
<1>2. IsFiniteSet(Lower(places, i)) /\ IsFiniteSet(Lower(places, j))
  BY LowerIsFewer
<1>3. Cardinality(Lower(places, i) \cup {i}) = Cardinality(Lower(places, i)) + 1
  <2>1. i \notin Lower(places, i)
    BY DEF Lower
  <2>2. QED
    BY <2>1, <1>2, FS_AddElement
<1>4. Cardinality(Lower(places, i) \cup {i}) <= Cardinality(Lower(places, j))
  BY <1>1, <1>2, FS_Subset
<1>5. Cardinality(Lower(places, i)) \in Nat /\ Cardinality(Lower(places, j)) \in Nat
  BY <1>2, FS_CardinalityType
<1>6. QED
  BY <1>3, <1>4, <1>5

LEMMA NthIsPlace ==
  ASSUME NEW places \in SUBSET Nat, IsFiniteSet(places), NEW k \in 1 .. Cardinality(places)
  PROVE  Nth(places, k) \in places
<1> DEFINE n == Cardinality(places)
           Rank(i) == Cardinality(Lower(places, i)) + 1
           g == [i \in places |-> Rank(i)]
<1>1. n \in Nat /\ IsFiniteSet(1 .. n) /\ Cardinality(1 .. n) = n
  BY FS_CardinalityType, FS_Interval
<1>2. \A i \in places : Rank(i) \in 1 .. n /\ Cardinality(Lower(places, i)) \in Nat
  BY LowerIsFewer, FS_CardinalityType
<1>3. \A i, j \in places : i < j => Rank(i) < Rank(j)
  BY <1>2, LowerInOrder
<1>4. \A i, j \in places : Rank(i) = Rank(j) => i = j
  <2> HIDE DEF Rank
  <2>1. QED
    BY <1>2, <1>3, <1>1
<1>5. \A i \in places : Rank(i) = k => Cardinality({j \in places : j < i}) = k - 1
  BY <1>2 DEF Lower
<1> HIDE DEF Rank
<1>6. g \in Injection(places, 1 .. n)
  BY <1>2, <1>4 DEF Injection, IsInjective
<1>7. g \in Surjection(places, 1 .. n)
  BY <1>1, <1>6, FS_Injection
<1>8. PICK i \in places : g[i] = k
  BY <1>7 DEF Surjection
<1>9. Cardinality({j \in places : j < i}) = k - 1
  BY <1>5, <1>8
<1>10. QED
  BY <1>9 DEF Nth

LEMMA ResultsAreJournal ==
  ASSUME input \in Inputs, NEW m
  PROVE  LET results == ResultsOf(m)
         IN Journal(results, {i \in DOMAIN results : IsEvent(results[i])})
<1> DEFINE mine == {i \in DOMAIN input : input[i].model = m}
           results == ResultsOf(m)
<1>1. input \in Seq(Range(input)) /\ \A r \in Range(input) : r.ts \in Int
  BY RecordsAssumption
<1>2. Len(input) \in Nat /\ DOMAIN input = 1 .. Len(input)
  BY <1>1
<1>3. \A i \in DOMAIN input : input[i].ts \in Int
  BY <1>1 DEF Range
<1>4. IsFiniteSet(1 .. Len(input)) /\ mine \in SUBSET (1 .. Len(input))
  BY <1>2, FS_Interval
<1>5. IsFiniteSet(mine) /\ mine \in SUBSET Nat
  <2> HIDE DEF mine
  <2>1. IsFiniteSet(mine)
    BY <1>4, FS_Subset
  <2>2. QED
    BY <2>1, <1>4, <1>2
<1>6. Cardinality(mine) \in Nat
  BY <1>5, FS_CardinalityType
<1>7. results = [k \in 1 .. Cardinality(mine) |-> input[Nth(mine, k)]]
  BY DEF ResultsOf
<1>8. \A k \in 1 .. Cardinality(mine) : Nth(mine, k) \in mine
  <2> HIDE DEF mine
  <2>1. QED
    BY <1>5, NthIsPlace
<1>9. \A k \in 1 .. Cardinality(mine) : input[Nth(mine, k)].ts \in Int
  BY <1>8, <1>3
<1> HIDE DEF mine, results
<1>10. DOMAIN results = 1 .. Len(results) /\ Len(results) \in Nat
  BY <1>6, <1>7
<1>11. \A i \in DOMAIN results : results[i].ts \in Int
  BY <1>7, <1>9
<1>12. QED
  BY <1>10, <1>11 DEF Journal, results

(* Whatever file and models, the greedy attribution credits each event     *)
(* once and each routing with one event behind it within the lookahead; in *)
(* a file in order of time no other such pairing credits more.             *)
THEOREM CreditsAreMaximal == HistorySpec => []CreditsMaximal
<1>1. HistoryInit => input \in Inputs
  BY DEF HistoryInit, ReplayInit
<1>2. input \in Inputs /\ [HistoryNext]_<<replayVars, windowHistory>> => (input \in Inputs)'
  BY DEF HistoryNext, StartModel, ReplaySample, FinishModel, replayVars
<1>3. input \in Inputs => CreditsMaximal
  <2> SUFFICES ASSUME input \in Inputs
               PROVE  CreditsMaximal
    OBVIOUS
  <2> DEFINE results == ResultsOf(model)
             events == {i \in DOMAIN results : IsEvent(results[i])}
             routed == {i \in DOMAIN results : rows[i].react = "ROUTE"}
  <2>1. Journal(results, events) /\ routed \subseteq DOMAIN results
    BY ResultsAreJournal
  <2>2. LET pairs   == Credits(results, routed, events)
            choices == {p \in Pairable(results, events) : p[1] \in routed}
        IN /\ pairs \subseteq choices
           /\ OneToOne(pairs)
           /\ InTimeOrder(results) =>
                \A more \in kSubset(Cardinality(pairs) + 1, choices) : ~OneToOne(more)
    <3> HIDE DEF results, events, routed
    <3>1. QED
      BY <2>1, GreedyIsMaximal
  <2>3. QED
    BY <2>2 DEF CreditsMaximal
<1>4. QED
  BY <1>1, <1>2, <1>3, PTL DEF HistorySpec
=============================================================================
