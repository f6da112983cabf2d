------------------------------- MODULE BitCodec -------------------------------
(***************************************************************************)
(* The byte a telemetry point becomes and what can be read back from it:   *)
(* WindowBitEncoder of scripts/research/regime_manifold/encoder.py and     *)
(* decode_window_bits of decoder.py.  A byte is direction (1 bit),         *)
(* velocity bucket (3), zscore bucket (2), is_extreme and is_static.       *)
(* Values, mean and deviation are integers in units of EPSILON_ZSCORE, and *)
(* the ratios are exact, which those of Python are up to a rounding error. *)
(***************************************************************************)
EXTENDS Integers, Sequences

CONSTANTS
  Baselines,   \* [baseline_mean, baseline_std]
  Values

VARIABLES
  baseline,
  prev_value,   \* the point before the window
  values,       \* the points encoded so far
  last_value,
  bytes

vars == <<baseline, prev_value, values, last_value, bytes>>

MAX_VEL_BUCKET == 7
MAX_ZSCORE_BUCKET == 3

-----------------------------------------------------------------------------
Magnitude(n) == IF n < 0 THEN -n ELSE n

AtMost(n, bound) == IF n > bound THEN bound ELSE n

std_safe == IF baseline.baseline_std > 1 THEN baseline.baseline_std ELSE 1

(* round() of n / d: to the nearest, a tie to the even neighbour.          *)
Rounded(n, d) ==
  LET below == n \div d
      rest == 2 * (n % d)
  IN IF rest > d \/ (rest = d /\ below % 2 = 1) THEN below + 1 ELSE below

VelocityBucket(velocity) ==
  Rounded(MAX_VEL_BUCKET * AtMost(Magnitude(velocity), 2 * std_safe), 2 * std_safe)

ZScoreBucket(value) ==
  Rounded(AtMost(Magnitude(value - baseline.baseline_mean), 3 * std_safe), std_safe)

IsExtreme(value) == Magnitude(value - baseline.baseline_mean) >= 3 * std_safe

Bit(condition) == IF condition THEN 1 ELSE 0

(* The four fields, most significant first.                                *)
Byte(value, velocity) ==
  128 * Bit(velocity >= 0) + 16 * VelocityBucket(velocity) + 4 * ZScoreBucket(value)
    + 2 * Bit(IsExtreme(value)) + Bit(velocity = 0)

(* Mutated form: every velocity is measured from the start of the window.  *)
EncodePoint_FromStart(value) ==
  /\ bytes' = Append(bytes, Byte(value, value - last_value))
  /\ values' = Append(values, value)
  /\ UNCHANGED <<baseline, prev_value, last_value>>

(* One turn of the loop of encode_bits.                                    *)
EncodePoint(value) ==
  /\ bytes' = Append(bytes, Byte(value, value - last_value))
  /\ values' = Append(values, value)
  /\ last_value' = value
  /\ UNCHANGED <<baseline, prev_value>>

Init ==
  /\ baseline \in Baselines
  /\ prev_value \in Values
  /\ values = << >>
  /\ last_value = prev_value
  /\ bytes = << >>

Next == \E value \in Values : EncodePoint(value)

Spec == Init /\ [][Next]_vars

-----------------------------------------------------------------------------
(* The decoder.  The estimates are in sevenths of a unit and in deviations.*)
Decoded(byte) ==
  LET velocity_bucket == (byte \div 16) % 8
      is_static == byte % 2 = 1
      sign == IF byte \div 128 = 0 THEN -1 ELSE 1
  IN [velocity_est |-> IF is_static THEN 0 ELSE sign * velocity_bucket * 2 * std_safe,
      zscore_est   |-> (byte \div 4) % 4,
      is_extreme   |-> (byte \div 2) % 2 = 1,
      is_static    |-> is_static]

decode_window_bits == [i \in 1 .. Len(bytes) |-> Decoded(bytes[i])]

-----------------------------------------------------------------------------
VelocityAt(i) == values[i] - (IF i = 1 THEN prev_value ELSE values[i - 1])

(* What is read back of a velocity is within half a bucket of it, or the   *)
(* last bucket for two deviations and more, never of the other sign, and   *)
(* is_static for a point that repeats the one before it and for no other.  *)
VelocityRecovered ==
  \A i \in 1 .. Len(bytes) :
    LET point == decode_window_bits[i]
        within == Magnitude(VelocityAt(i)) <= 2 * std_safe
    IN /\ within => Magnitude(7 * VelocityAt(i) - point.velocity_est) <= std_safe
       /\ ~within => Magnitude(point.velocity_est) = 7 * 2 * std_safe
       /\ point.velocity_est * VelocityAt(i) >= 0
       /\ point.is_static <=> VelocityAt(i) = 0

(* What is read back of the distance to the baseline is within half a      *)
(* deviation of it, up to three, and a point is extreme from there on.     *)
DeviationRecovered ==
  \A i \in 1 .. Len(bytes) :
    LET distance == Magnitude(values[i] - baseline.baseline_mean)
        point == decode_window_bits[i]
    IN /\ point.is_extreme <=> distance >= 3 * std_safe
       /\ 2 * Magnitude(AtMost(distance, 3 * std_safe) - point.zscore_est * std_safe) <= std_safe

(* Of two moves of a window the larger is never read back as the smaller.  *)
OrderRecovered ==
  \A i, j \in 1 .. Len(bytes) :
    VelocityAt(i) < VelocityAt(j) =>
      decode_window_bits[i].velocity_est <= decode_window_bits[j].velocity_est

(* Both estimates stay within their buckets, and moves in order.           *)
ValuesRecovered == VelocityRecovered /\ DeviationRecovered /\ OrderRecovered
=============================================================================
