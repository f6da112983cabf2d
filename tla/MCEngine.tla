------------------------------- MODULE MCEngine -------------------------------
(***************************************************************************)
(* Byte streams of up to MaxBytes bytes of ByteBits bits and lists of up   *)
(* to MaxWords words, in every order of the parallel iterations and with   *)
(* every signature a window may have.  Windows of up to MaxPoints points,  *)
(* of which those of one point and of two are analysed, labelled from left *)
(* to right: the deviations make buckets of less than a unit, ties between *)
(* two buckets and, at zero, the EPSILON_ZSCORE floor; the values reach    *)
(* past the caps on both sides of the baseline.                            *)
(***************************************************************************)
EXTENDS Engine

CONSTANTS MaxBytes, MaxWords, MaxPoints, MaxAnalysed

MCConfigs ==
  [window_bits : {0, 1, 3}, step_bits : {0, 2}, max_windows : {0, 2},
   lsb_first : BOOLEAN, repetition_lookback : {0, 1, 2, 3}]
  \cup [window_bits : {2, 4}, step_bits : {2}, max_windows : {0},
        lsb_first : {TRUE}, repetition_lookback : {0}]

MCBaselines == [baseline_mean : {-3, 0}, baseline_std : {0, 1, 2, 3, 7}]
MCValues == {-9, -4, -1, 0, 1, 2, 3, 5, 8, 21}

Anything == CHOOSE c \in MCConfigs : TRUE

MCInit ==
  \/ /\ config \in MCConfigs
     /\ \E n \in 0 .. MaxBytes :
          \E stream \in [1 .. n -> [1 .. ByteBits -> {0, 1}]] : CallOf(stream)
  \/ /\ config = Anything
     /\ \E n \in 0 .. MaxWords : \E words \in [1 .. n -> Words] : CallWith(words)
  \/ config = Anything /\ Encoding

MCNext ==
  \/ Len(values) < MaxPoints /\ EncodePoint
  \/ Len(encoded) <= MaxAnalysed /\ HandOver
  \/ BeginWindow \/ EndWindow \/ FinishStream \/ FeedProcessor
  \/ Label /\ (encoded # << >> => pending' = pending \ {Min(pending)})

MCSpec == MCInit /\ [][MCNext]_engineVars
=============================================================================
