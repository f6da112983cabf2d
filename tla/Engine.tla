-------------------------------- MODULE Engine --------------------------------
(***************************************************************************)
(* From points to signatures.  The encoder makes a byte of every point of  *)
(* a window and hands them to the native engine as a stream that is one    *)
(* window long.  analyze_byte_stream hands the bits of every window to     *)
(* EntropyProcessor::analyze, which labels them in a parallel loop, before *)
(* it makes a signature of the result.  The other caller of the labelling  *)
(* is a program linked with the library, which may hand it words that are  *)
(* no bits, and feeds StructuralProcessor one at a time.                   *)
(***************************************************************************)
EXTENDS ByteStream

CONSTANTS Baselines, Values, Words, NULL_STATE, OSCILLATION, REGIME_SHIFT, Unset

ASSUME BaselinesAssumption ==
  \A b \in Baselines : b.baseline_mean \in Int /\ b.baseline_std \in Nat

ASSUME ValuesAssumption == Values \subseteq Int

ASSUME LabelsAssumption ==
  NULL_STATE # OSCILLATION /\ OSCILLATION # REGIME_SHIFT /\ REGIME_SHIFT # NULL_STATE

VARIABLES
  caller,   \* who is at work: the "encoder", the "library"'s user, or
            \* analyze_byte_stream, at the "scan" or with a "window"
  baseline, prev_value, values, last_value, encoded,
  bits, pending, result, invalid, fed, prev_bit, states

Codec == INSTANCE BitCodec WITH bytes <- encoded

Events == INSTANCE StructuralEvents

codecVars == <<baseline, prev_value, values, last_value, encoded>>
eventVars == <<bits, pending, result, invalid, fed, prev_bit, states>>
engineVars == <<vars, caller, codecVars, eventVars>>

-----------------------------------------------------------------------------
(* A byte of the encoder has eight bits; the first of a sequence is the    *)
(* most significant one.                                                   *)
PlaceValue == <<128, 64, 32, 16, 8, 4, 2, 1>>

Octet(byte) == [k \in 1 .. 8 |-> (byte \div PlaceValue[k]) % 2]

EncodePoint ==
  /\ caller = "encoder"
  /\ Codec!Next
  /\ UNCHANGED <<vars, caller, eventVars>>

(* analyze_bytes of the bytes of a window, with their number for window    *)
(* and step; the other fields keep their defaults.                         *)
HandOver ==
  LET length == 8 * Len(encoded)
  IN /\ caller = "encoder"
     /\ encoded # << >>
     /\ caller' = "scan"
     /\ config' = [window_bits |-> length, step_bits |-> length, max_windows |-> 0,
                   lsb_first |-> TRUE, repetition_lookback |-> 0]
     /\ bytes' = [i \in 1 .. Len(encoded) |-> Octet(encoded[i])]
     /\ histogram' = [k \in 1 .. length |-> 0]
     /\ UNCHANGED <<signature_of, windows, history, max_repetition, analysing, codecVars, eventVars>>

-----------------------------------------------------------------------------
(* analyze_byte_stream copies the next window and calls analyze.           *)
BeginWindow ==
  /\ caller = "scan"
  /\ analysing
  /\ MoreWindows
  /\ caller' = "window"
  /\ bits' = WindowBits
  /\ pending' = 1 .. Events!StepCount(WindowBits)
  /\ result' = [i \in 1 .. Events!StepCount(WindowBits) |-> Unset]
  /\ invalid' = FALSE
  /\ UNCHANGED <<vars, codecVars, fed, prev_bit, states>>

(* analyze has returned, and the turn of the loop goes on.                 *)
EndWindow ==
  /\ caller = "window"
  /\ Events!Transformed
  /\ \E s \in Signatures : AnalyseWindow(s)
  /\ caller' = "scan"
  /\ UNCHANGED <<codecVars, eventVars>>

FinishStream ==
  /\ caller = "scan"
  /\ Finish
  /\ UNCHANGED <<caller, codecVars, eventVars>>

Label ==
  /\ \E i \in pending : Events!TransformAt(i)
  /\ UNCHANGED <<vars, caller, codecVars>>

FeedProcessor ==
  /\ caller = "library"
  /\ Events!Process \/ Events!Reset
  /\ UNCHANGED <<vars, caller, codecVars>>

(* A call of one entry point; the others have nothing to do.               *)
NotEncoding == baseline = Unset /\ prev_value = Unset /\ last_value = Unset
               /\ values = << >> /\ encoded = << >>

CallOf(stream) == StartOf(stream) /\ Events!StartOf(<< >>) /\ NotEncoding /\ caller = "scan"

CallWith(words) == StartOf(<< >>) /\ Events!StartOf(words) /\ NotEncoding /\ caller = "library"

Encoding == StartOf(<< >>) /\ Events!StartOf(<< >>) /\ Codec!Init /\ caller = "encoder"

EngineInit ==
  /\ config \in Configs
  /\ \/ \E stream \in Seq([1 .. ByteBits -> {0, 1}]) : CallOf(stream)
     \/ \E words \in Seq(Words) : CallWith(words)
     \/ Encoding

EngineNext ==
  \/ EncodePoint \/ HandOver
  \/ BeginWindow \/ EndWindow \/ FinishStream
  \/ Label \/ FeedProcessor

EngineSpec == EngineInit /\ [][EngineNext]_engineVars

-----------------------------------------------------------------------------
(* A window gets its signature only when all of it is labelled: no event   *)
(* of the window before is left, and the words taken from bytes are bits,  *)
(* so that the result is never thrown away.                                *)
WindowsAreLabelled ==
  caller = "window" /\ Events!Transformed =>
    /\ bits = WindowBits
    /\ Len(Events!events) = Events!StepCount(bits)
    /\ \A i \in DOMAIN Events!events :
         Events!events[i] = Events!StateOf(bits[i], bits[i + 1])

(* Whatever the order the iterations run in, the parallel labelling agrees *)
(* with the one that is fed bit by bit, is whole for every window of a     *)
(* byte stream, and says nothing of a stream with words that are no bits.  *)
BatchEqualsStream ==
  /\ caller = "library" => Events!BatchEqualsStream
  /\ WindowsAreLabelled

(* The runs, counts and the collapse reported of a stream, or of a window  *)
(* of a byte stream, agree with its bits.                                  *)
EventsAddUp == Events!EventsAddUp

(* No stream loses more than the bits behind its last window; the encoder, *)
(* which reads the first window of the answer, gets one, of all its points.*)
StreamIsCovered ==
  /\ BitsAreCovered
  /\ encoded # << >> /\ ~analysing =>
       Len(windows) = 1 /\ Len(bits) = 8 * Len(values)

(* What the decoder reads back of the bytes of a window are its points.    *)
ValuesRecovered == Codec!ValuesRecovered
=============================================================================
