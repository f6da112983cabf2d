--------------------------- MODULE RollingBaseline ---------------------------
(***************************************************************************)
(* The arithmetic the policies share: the median of a bounded history, in  *)
(* integers.  The median of an even number of values is a half, so medians *)
(* are kept doubled.                                                       *)
(***************************************************************************)
EXTENDS Integers, Sequences, FiniteSets

(* The k-th smallest value of a sequence.                                  *)
Ranked(s, k) ==
  CHOOSE v \in {s[i] : i \in DOMAIN s} :
    /\ Cardinality({i \in DOMAIN s : s[i] < v}) < k
    /\ k <= Cardinality({i \in DOMAIN s : s[i] <= v})

(* Twice statistics.median.                                                *)
DoubleMedian(s) == Ranked(s, (Len(s) + 1) \div 2) + Ranked(s, (Len(s) \div 2) + 1)

NonNegative(x) == IF x > 0 THEN x ELSE 0

(* A deque with a bound: appending to a full one drops its oldest value.   *)
PushBounded(history, value, bound) ==
  LET longer == Append(history, value)
  IN IF Len(longer) > bound THEN Tail(longer) ELSE longer
=============================================================================
