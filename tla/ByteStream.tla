------------------------------ MODULE ByteStream ------------------------------
(***************************************************************************)
(* analyze_byte_stream of src/core/byte_stream_manifold.cpp: the windows   *)
(* of a byte stream, one per step, and how often the signature of each has *)
(* repeated.  A signature is three rounded measures of the bits of its     *)
(* window; here it is any function of those bits, chosen as the windows    *)
(* come, signature_of.                                                     *)
(***************************************************************************)
EXTENDS Integers, SequencesExt

CONSTANTS
  Configs,    \* window_bits, step_bits, max_windows, lsb_first, repetition_lookback
  ByteBits,   \* the bits of a byte, 8
  Signatures

ASSUME ByteStreamAssumption ==
  /\ ByteBits \in Nat \ {0}
  /\ \A c \in Configs :
       /\ c.window_bits \in Nat /\ c.step_bits \in Nat
       /\ c.max_windows \in Nat /\ c.repetition_lookback \in Nat
       /\ c.lsb_first \in BOOLEAN

VARIABLES
  config, bytes,                 \* the input
  signature_of,                  \* of the bits met so far
  windows,                       \* the windows analysed so far
  history,                       \* repetition_history: indices per signature
  histogram, max_repetition,
  analysing

input == <<config, bytes>>
vars == <<input, signature_of, windows, history, histogram, max_repetition, analysing>>

-----------------------------------------------------------------------------
(* A byte is the sequence of its bits, the most significant first; all the *)
(* bytes of a stream have equally many.                                    *)
BitCount(stream) == IF stream = << >> THEN 0 ELSE Len(stream) * Len(stream[1])

bytes_to_bits ==
  LET width == Len(bytes[1])
      byte(k) == bytes[(k - 1) \div width + 1]
      i(k) == (k - 1) % width
  IN [k \in 1 .. BitCount(bytes) |->
        IF config.lsb_first THEN byte(k)[width - i(k)] ELSE byte(k)[i(k) + 1]]

step_bits == IF config.step_bits > 1 THEN config.step_bits ELSE 1

window_index == Len(windows)

start == window_index * step_bits

(* Mutated form: a window must be followed by another bit.                 *)
Fits_Strict == start + config.window_bits < BitCount(bytes)

Fits == start + config.window_bits <= BitCount(bytes)

(* Mutated form: the lookback is one window too long.                      *)
Recalled_OneMore(index) ==
  config.repetition_lookback = 0 \/ window_index - index <= config.repetition_lookback

(* The early returns, and the conditions of the loop.                      *)
MoreWindows ==
  /\ bytes # << >> /\ config.window_bits > 0
  /\ Fits
  /\ config.max_windows = 0 \/ window_index < config.max_windows

WindowBits == SubSeq(bytes_to_bits, start + 1, start + config.window_bits)

Recalled(index) ==
  config.repetition_lookback = 0 \/ window_index - index < config.repetition_lookback

(* The indices that are left when the old ones are popped off the front.   *)
Recent(indices) ==
  LET stays == {k \in DOMAIN indices : Recalled(indices[k])}
  IN IF stays = {} THEN << >> ELSE SubSeq(indices, Min(stays), Len(indices))

MaxRepetition(count) == IF count > max_repetition THEN count ELSE max_repetition

(* make_signature: equal bits have equal signatures.                       *)
Signed(signature) ==
  /\ WindowBits \in DOMAIN signature_of => signature = signature_of[WindowBits]
  /\ signature_of' = (WindowBits :> signature) @@ signature_of

(* One turn of the loop, for a window with this signature.                 *)
AnalyseWindow(signature) ==
  LET indices == Append(Recent(history[signature]), window_index)
      count == Len(indices)
  IN /\ analysing
     /\ MoreWindows
     /\ Signed(signature)
     /\ history' = [history EXCEPT ![signature] = indices]
     /\ windows' = Append(windows, [offset_bits |-> start, signature |-> signature,
                                    repetition_count |-> count])
     /\ histogram' = [histogram EXCEPT ![count] = @ + 1]
     /\ max_repetition' = MaxRepetition(count)
     /\ UNCHANGED <<input, analysing>>

Finish ==
  /\ analysing
  /\ ~MoreWindows
  /\ analysing' = FALSE
  /\ UNCHANGED <<input, signature_of, windows, history, histogram, max_repetition>>

StartOf(stream) ==
  /\ bytes = stream
  /\ signature_of = << >>
  /\ windows = << >>
  /\ history = [s \in Signatures |-> << >>]
  /\ histogram = [k \in 1 .. BitCount(stream) |-> 0]
  /\ max_repetition = 0
  /\ analysing = TRUE

Init ==
  /\ config \in Configs
  /\ \E stream \in Seq([1 .. ByteBits -> {0, 1}]) : StartOf(stream)

Next == (\E s \in Signatures : AnalyseWindow(s)) \/ Finish

Spec == Init /\ [][Next]_vars

-----------------------------------------------------------------------------
Analysed == 1 .. Len(windows)

(* The repetition count of a window is the number of windows with its      *)
(* signature among the last repetition_lookback, or among all, however     *)
(* late the histories of other signatures were cleaned up.                 *)
CountsAreOfTheLookback ==
  \A i \in Analysed :
    windows[i].repetition_count =
      Cardinality({j \in 1 .. i :
        /\ windows[j].signature = windows[i].signature
        /\ config.repetition_lookback = 0 \/ i - j < config.repetition_lookback})

(* The histogram has every window once, under its repetition count, and    *)
(* max_repetition is the largest there is; without a lookback its first    *)
(* entry is the number of different signatures and no entry is larger than *)
(* the one before it.                                                      *)
HistogramIsComplete ==
  /\ \A k \in DOMAIN histogram :
       histogram[k] = Cardinality({i \in Analysed : windows[i].repetition_count = k})
  /\ \A i \in Analysed : windows[i].repetition_count <= max_repetition
  /\ windows # << >> => histogram[max_repetition] > 0
  /\ config.repetition_lookback = 0 =>
       \A k \in 1 .. max_repetition - 1 : histogram[k] >= histogram[k + 1]

(* What the summary says of repetitions is so.                             *)
RepetitionsCounted == CountsAreOfTheLookback /\ HistogramIsComplete

(* When the analysis ends without a cap, the bits behind the last window   *)
(* are fewer than a step, and a stream as long as its window has exactly   *)
(* one.                                                                    *)
BitsAreCovered ==
  ~analysing /\ config.window_bits > 0 /\ config.max_windows = 0 =>
    LET length == BitCount(bytes)
    IN /\ windows # << >> =>
            length - (Last(windows).offset_bits + config.window_bits) < step_bits
       /\ windows = << >> <=> length < config.window_bits
       /\ length = config.window_bits => Len(windows) = 1
=============================================================================
