--------------------------- MODULE TelemetryEncoder ---------------------------
(***************************************************************************)
(* Which points a manifold window is computed from: encode of scripts/     *)
(* research/regime_manifold/encoder.py over a series.  A point is its      *)
(* value; what is computed from a window's points (bits, signature,        *)
(* metrics, canonical features) is a function of the fields of Window.     *)
(* c is the encoder: window_points, stride_points and baseline_period.     *)
(***************************************************************************)
EXTENDS Integers, Sequences

MinWindowPoints == 8
MinStridePoints == 1

(* What __init__ accepts; nothing checks baseline_period.                  *)
EncoderAccepts(c) ==
  c.window_points >= MinWindowPoints /\ c.stride_points >= MinStridePoints

AtLeastZero(n) == IF n > 0 THEN n ELSE 0

(* Mutated form: the mean of the whole series.                             *)
Baseline_WholeSeries(c, series, start) == series

(* The values the baseline is the mean and deviation of.  Without any the  *)
(* mean is the first value, as it is for that value alone.                 *)
Baseline(c, series, start) ==
  LET history == IF start > 0
                 THEN SubSeq(series, AtLeastZero(start - c.baseline_period) + 1, start)
                 ELSE SubSeq(series, 1, c.window_points)
  IN IF history = << >> THEN <<series[1]>> ELSE history

(* _calculate_velocities of the window and the point before it; of a       *)
(* window with no point before it, less the leading zero.                  *)
Velocities(c, series, start) ==
  LET steps == SubSeq(series, AtLeastZero(start - 1) + 1, start + c.window_points)
      all == [i \in 1 .. Len(steps) |-> IF i = 1 THEN 0 ELSE steps[i] - steps[i - 1]]
  IN IF start = 0 THEN Tail(all) ELSE all

(* The window behind the first start points.                               *)
Window(c, series, start) ==
  [subset     |-> SubSeq(series, start + 1, start + c.window_points),
   baseline   |-> Baseline(c, series, start),
   prev_value |-> IF start > 0 THEN series[start] ELSE series[1],
   velocities |-> Velocities(c, series, start)]

MaxStart(c, series) == Len(series) - c.window_points

AlignedStart(c, series) == (MaxStart(c, series) \div c.stride_points) * c.stride_points

(* The loop: a window every stride_points points while one fits.           *)
WindowsFrom(c, series, first) ==
  [k \in 1 .. (IF first > MaxStart(c, series) THEN 0
               ELSE (MaxStart(c, series) - first) \div c.stride_points + 1) |->
     Window(c, series, first + (k - 1) * c.stride_points)]

EncodeAll(c, series) == WindowsFrom(c, series, 0)

(* return_only_latest, aligned to the stride and not.                      *)
EncodeAligned(c, series) ==
  IF MaxStart(c, series) < 0 THEN << >> ELSE WindowsFrom(c, series, AlignedStart(c, series))

EncodeLatest(c, series) ==
  IF MaxStart(c, series) < 0 THEN << >> ELSE WindowsFrom(c, series, MaxStart(c, series))
=============================================================================
