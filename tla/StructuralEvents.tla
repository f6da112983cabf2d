--------------------------- MODULE StructuralEvents ---------------------------
(***************************************************************************)
(* From bits to structural events, src/core/structural_entropy.cpp:        *)
(* transform_rich, which labels the steps of a whole bit stream in         *)
(* parallel and in any order, and StructuralProcessor::process, which      *)
(* labels the same steps one bit at a time; then aggregate and the counts  *)
(* that EntropyProcessor::analyze makes its ratios of.                     *)
(***************************************************************************)
EXTENDS Integers, SequencesExt

CONSTANTS
  Words,            \* what the elements of the stream may be; 0 and 1 are bits
  NULL_STATE, OSCILLATION, REGIME_SHIFT,
  Unset             \* an event no iteration has written yet

VARIABLES
  bits,
  pending, result, invalid,   \* transform_rich
  fed, prev_bit, states       \* process: bits consumed, its memory, its answers

vars == <<bits, pending, result, invalid, fed, prev_bit, states>>

IsBit(word) == word \in {0, 1}

NoBit == -1

(* Mutated form: a fall is no oscillation.                                 *)
StateOf_RisesOnly(prev, curr) ==
  IF curr = 1 THEN (IF prev = 1 THEN REGIME_SHIFT ELSE OSCILLATION) ELSE NULL_STATE

(* The label of a step between two bits.                                   *)
StateOf(prev, curr) ==
  IF prev # curr THEN OSCILLATION
  ELSE IF prev = 1 THEN REGIME_SHIFT ELSE NULL_STATE

-----------------------------------------------------------------------------
(* Mutated form: the flag is what the last iteration to run says.          *)
TransformAt_LastWins(i) ==
  /\ i \in pending
  /\ pending' = pending \ {i}
  /\ invalid' = ~(IsBit(bits[i]) /\ IsBit(bits[i + 1]))
  /\ result' = [result EXCEPT ![i] = IF invalid' THEN @ ELSE StateOf(bits[i], bits[i + 1])]
  /\ UNCHANGED <<bits, fed, prev_bit, states>>

(* An iteration of the for_each, run under par_unseq.                      *)
TransformAt(i) ==
  /\ i \in pending
  /\ pending' = pending \ {i}
  /\ IF IsBit(bits[i]) /\ IsBit(bits[i + 1])
     THEN /\ result' = [result EXCEPT ![i] = StateOf(bits[i], bits[i + 1])]
          /\ UNCHANGED invalid
     ELSE invalid' = TRUE /\ UNCHANGED result
  /\ UNCHANGED <<bits, fed, prev_bit, states>>

Transformed == pending = {}

(* What transform_rich returns.                                            *)
events == IF invalid THEN << >> ELSE result

(* process of the next element: a word that is no bit is passed over.      *)
Process ==
  LET word == bits[fed + 1]
  IN /\ fed < Len(bits)
     /\ fed' = fed + 1
     /\ IF IsBit(word)
        THEN /\ prev_bit' = word
             /\ states' = IF prev_bit = NoBit THEN states
                          ELSE Append(states, StateOf(prev_bit, word))
        ELSE UNCHANGED <<prev_bit, states>>
     /\ UNCHANGED <<bits, pending, result, invalid>>

(* reset, and the stream is fed from its start again.                      *)
Reset ==
  /\ fed > 0
  /\ fed' = 0
  /\ prev_bit' = NoBit
  /\ states' = << >>
  /\ UNCHANGED <<bits, pending, result, invalid>>

StepCount(stream) == IF Len(stream) < 2 THEN 0 ELSE Len(stream) - 1

StartOf(stream) ==
  /\ bits = stream
  /\ pending = 1 .. StepCount(stream)
  /\ result = [i \in 1 .. StepCount(stream) |-> Unset]
  /\ invalid = FALSE
  /\ fed = 0
  /\ prev_bit = NoBit
  /\ states = << >>

Init == \E stream \in Seq(Words) : StartOf(stream)

Next ==
  \/ \E i \in pending : TransformAt(i)
  \/ Process
  \/ Reset

Spec == Init /\ [][Next]_vars

-----------------------------------------------------------------------------
(* An event joins the last run or starts one; indices count from one.      *)
Joined(runs, i, state) ==
  IF runs # << >> /\ Last(runs).state = state
  THEN [runs EXCEPT ![Len(runs)].count = @ + 1]
  ELSE Append(runs, [index |-> i, state |-> state, count |-> 1])

aggregate(sequence) ==
  LET runs[i \in 0 .. Len(sequence)] ==
        IF i = 0 THEN << >> ELSE Joined(runs[i - 1], i, sequence[i])
  IN runs[Len(sequence)]

CountOf(state) == Cardinality({i \in DOMAIN events : events[i] = state})

null_state_count  == CountOf(NULL_STATE)
oscillation_count == CountOf(OSCILLATION)
shift_count       == CountOf(REGIME_SHIFT)

(* At the default collapse_threshold of a half; the ratio is zero without  *)
(* events.                                                                 *)
collapse_detected == events # << >> /\ 2 * shift_count >= Len(events)

-----------------------------------------------------------------------------
(* Whatever the order the iterations run in, the parallel transformation   *)
(* of a stream of bits says what the bit by bit processor says of it, and  *)
(* says nothing of any other stream.                                       *)
BatchEqualsStream ==
  Transformed /\ fed = Len(bits) =>
    events = IF \A i \in 1 .. Len(bits) : IsBit(bits[i]) THEN states
             ELSE << >>

(* Aggregation loses nothing but the bits: its runs are maximal, and laid  *)
(* out one behind the other they are the events again.                     *)
RunsAreLossless ==
  Transformed =>
    LET runs == aggregate(events)
        behind(k) == runs[k].index + runs[k].count
    IN /\ runs = << >> <=> events = << >>
       /\ runs # << >> => runs[1].index = 1 /\ behind(Len(runs)) = Len(events) + 1
       /\ \A k \in 1 .. Len(runs) :
            /\ runs[k].count > 0
            /\ \A i \in runs[k].index .. behind(k) - 1 : events[i] = runs[k].state
       /\ \A k \in 1 .. Len(runs) - 1 :
            behind(k) = runs[k + 1].index /\ runs[k].state # runs[k + 1].state

(* The counts agree with the bits: the ones that follow a one are the      *)
(* shifts, and the oscillations are as many as it takes to get from the    *)
(* first bit to the last.                                                  *)
CountsFitTheBits ==
  Transformed /\ events # << >> =>
    LET ones == {i \in 1 .. Len(bits) : bits[i] = 1}
        firsts == {i \in ones : i - 1 \notin ones}
    IN /\ Cardinality(ones) = shift_count + Cardinality(firsts)
       /\ oscillation_count % 2 = (IF bits[1] = Last(bits) THEN 0 ELSE 1)
       /\ null_state_count + oscillation_count + shift_count = Len(bits) - 1

(* A stream collapses when it is at least as often one, for a whole step,  *)
(* as it is anything else; so a stream of ones does, and one that never    *)
(* holds a one for two bits does not.                                      *)
CollapseIsHeldOnes ==
  Transformed /\ events # << >> =>
    /\ (\A i \in 1 .. Len(bits) : bits[i] = 1) => collapse_detected
    /\ shift_count = null_state_count + oscillation_count => collapse_detected
    /\ (\A i \in 1 .. Len(bits) - 1 : bits[i] = 0 \/ bits[i + 1] = 0) => ~collapse_detected

(* What is reported of a stream agrees with its bits, in all these ways.   *)
EventsAddUp == RunsAreLossless /\ CountsFitTheBits /\ CollapseIsHeldOnes
=============================================================================
