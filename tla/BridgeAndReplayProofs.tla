------------------------ MODULE BridgeAndReplayProofs -------------------------
(***************************************************************************)
(* Proofs about BridgeService and the encoder it uses, for all             *)
(* configurations that satisfy the assumption, all series and all bounds;  *)
(* then about LLMReplay, for all probe files, encoders and policies.       *)
(***************************************************************************)
EXTENDS BridgeService, LLMReplay, FiniteSetTheorems, SequenceTheorems,
        NaturalsInduction, WellFoundedInduction, TLAPS

(* An encoder that has been accepted.                                      *)
EncoderSound(c) ==
  /\ c.window_points \in Nat \ {0}
  /\ c.stride_points \in Nat \ {0}
  /\ c.baseline_period \in Int

(* The latest window is one, at the largest start.                         *)
LEMMA LatestWindow ==
  ASSUME NEW c, EncoderSound(c), NEW series \in Seq(Values)
  PROVE  EncodeLatest(c, series) =
           IF MaxStart(c, series) < 0 THEN << >> ELSE <<Window(c, series, MaxStart(c, series))>>
<1>1. CASE MaxStart(c, series) < 0
  BY <1>1 DEF EncodeLatest
<1>2. CASE ~(MaxStart(c, series) < 0)
  <2>1. c.stride_points \in Nat \ {0} /\ c.window_points \in Nat
    BY DEF EncoderSound
  <2>2. MaxStart(c, series) \in Int
    BY <2>1 DEF MaxStart
  <2>3. (MaxStart(c, series) - MaxStart(c, series)) \div c.stride_points + 1 = 1
    BY <2>1, <2>2
  <2>4. MaxStart(c, series) + (1 - 1) * c.stride_points = MaxStart(c, series)
    BY <2>1, <2>2
  <2>5. EncodeLatest(c, series) = WindowsFrom(c, series, MaxStart(c, series))
    BY <1>2 DEF EncodeLatest
  <2>6. WindowsFrom(c, series, MaxStart(c, series))
          = [k \in 1 .. 1 |->
               Window(c, series, MaxStart(c, series) + (k - 1) * c.stride_points)]
    BY <2>2, <2>3 DEF WindowsFrom
  <2>7. @ = <<Window(c, series, MaxStart(c, series))>>
    <3> DEFINE w == Window(c, series, MaxStart(c, series))
    <3> HIDE DEF w
    <3>1. [k \in 1 .. 1 |-> Window(c, series, MaxStart(c, series) + (k - 1) * c.stride_points)]
            = [k \in 1 .. 1 |-> w]
      BY <2>4 DEF w
    <3>2. [k \in 1 .. 1 |-> w] = <<w>>
      OBVIOUS
    <3>3. QED
      BY <3>1, <3>2 DEF w
  <2>8. QED
    BY <1>2, <2>5, <2>6, <2>7
<1>3. QED
  BY <1>1, <1>2

(* A part of the tail of a series is a part of the series.                 *)
LEMMA PartOfTail ==
  ASSUME NEW series \in Seq(Values), NEW k \in Nat, k < Len(series),
         NEW m \in 1 .. Len(series) - k, NEW n \in 1 .. Len(series) - k
  PROVE  SubSeq(SubSeq(series, k + 1, Len(series)), m, n) = SubSeq(series, k + m, k + n)
<1>1. k + 1 \in 1 .. Len(series) /\ Len(series) \in 1 .. Len(series)
  OBVIOUS
<1>2. m \in 1 .. Len(series) - (k + 1) + 1 /\ n \in 1 .. Len(series) - (k + 1) + 1
  OBVIOUS
<1>3. SubSeq(SubSeq(series, k + 1, Len(series)), m, n)
        = SubSeq(series, (k + 1) + m - 1, (k + 1) + n - 1)
  BY <1>1, <1>2, SubSeqOfSubSeq
<1>4. (k + 1) + m - 1 = k + m /\ (k + 1) + n - 1 = k + n
  OBVIOUS
<1>5. QED
  BY <1>3, <1>4

(* The window behind a whole baseline period reads nothing before it.      *)
LEMMA WindowOfTail ==
  ASSUME NEW c, EncoderSound(c), c.baseline_period > 0,
         NEW series \in Seq(Values), NEW k \in Nat, k < Len(series),
         NEW start \in Nat, c.baseline_period <= start,
         start + c.window_points = Len(series) - k
  PROVE  Window(c, SubSeq(series, k + 1, Len(series)), start) = Window(c, series, k + start)
<1> DEFINE tail == SubSeq(series, k + 1, Len(series))
           end == start + c.window_points
<1>1. /\ c.window_points \in Nat \ {0} /\ c.baseline_period \in Int
      /\ Len(series) \in Nat
  BY DEF EncoderSound
<1>2. start > 0 /\ k + start > 0 /\ start \in 1 .. Len(series) - k
  BY <1>1
<1>3. SubSeq(tail, start + 1, end) = SubSeq(series, (k + start) + 1, (k + start) + c.window_points)
  <2>1. start + 1 \in 1 .. Len(series) - k /\ end \in 1 .. Len(series) - k
    BY <1>1, <1>2
  <2>2. SubSeq(tail, start + 1, end) = SubSeq(series, k + (start + 1), k + end)
    BY <2>1, PartOfTail
  <2>3. k + (start + 1) = (k + start) + 1 /\ k + end = (k + start) + c.window_points
    BY <1>1
  <2>4. QED
    BY <2>2, <2>3
<1>4. Baseline(c, tail, start) = Baseline(c, series, k + start)
  <2> DEFINE from == start - c.baseline_period
  <2>1. from \in Nat /\ from + 1 \in 1 .. Len(series) - k
    BY <1>1, <1>2
  <2>2. AtLeastZero(from) = from
    BY <2>1 DEF AtLeastZero
  <2>3. AtLeastZero((k + start) - c.baseline_period) = k + from
    BY <1>1, <2>1 DEF AtLeastZero
  <2>4. SubSeq(tail, from + 1, start) = SubSeq(series, k + (from + 1), k + start)
    BY <1>2, <2>1, PartOfTail
  <2>5. k + (from + 1) = (k + from) + 1
    BY <2>1
  <2> DEFINE history == SubSeq(tail, from + 1, start)
  <2>6. history # << >>
    <3>1. Len(series) \in Nat /\ from + 1 <= start /\ (k + from) + 1 \in Nat /\ k + start \in Nat
      BY <1>1, <2>1
    <3>2. \A i \in (k + from) + 1 .. k + start : series[i] \in Values
      BY <1>1, <2>1
    <3>3. Len(SubSeq(series, (k + from) + 1, k + start)) = (k + start) - ((k + from) + 1) + 1
      BY <3>1, <3>2, <2>1, SubSeqProperties
    <3>4. Len(SubSeq(series, (k + from) + 1, k + start)) # 0
      BY <3>1, <3>3, <2>1
    <3>5. Len(history) # 0
      BY <2>4, <2>5, <3>4
    <3> HIDE DEF history
    <3>6. QED
      BY <3>5
  <2>7. Baseline(c, tail, start) = history
    BY <1>2, <2>2, <2>6 DEF Baseline
  <2>8. Baseline(c, series, k + start) = history
    BY <1>2, <2>3, <2>4, <2>5, <2>6 DEF Baseline
  <2>9. QED
    BY <2>7, <2>8
<1>5. tail[start] = series[k + start]
  <2>1. \A i \in k + 1 .. Len(series) : series[i] \in Values
    BY <1>1
  <2>2. start \in 1 .. Len(series) - (k + 1) + 1
    BY <1>1, <1>2
  <2>3. tail[start] = series[(k + 1) + start - 1]
    BY <1>1, <2>1, <2>2, SubSeqProperties
  <2>4. (k + 1) + start - 1 = k + start
    BY <1>1
  <2>5. QED
    BY <2>3, <2>4
<1>6. Velocities(c, tail, start) = Velocities(c, series, k + start)
  <2>1. AtLeastZero(start - 1) + 1 = start /\ AtLeastZero((k + start) - 1) + 1 = k + start
    BY <1>1, <1>2 DEF AtLeastZero
  <2>2. end \in 1 .. Len(series) - k /\ k + end = (k + start) + c.window_points
    BY <1>1, <1>2
  <2>3. SubSeq(tail, start, end) = SubSeq(series, k + start, (k + start) + c.window_points)
    BY <1>2, <2>2, PartOfTail
  <2>4. start # 0 /\ k + start # 0
    BY <1>2
  <2>5. QED
    BY <2>1, <2>3, <2>4 DEF Velocities
<1>7. QED
  BY <1>2, <1>3, <1>4, <1>5, <1>6 DEF Window

(* The latest window of any part of a series that holds a window and a     *)
(* whole baseline is that of the series up to the end of the part.         *)
LEMMA PartIsReplayed ==
  ASSUME NEW c, EncoderSound(c), c.baseline_period > 0,
         NEW series \in Seq(Values), NEW first \in 1 .. Len(series),
         NEW last \in first .. Len(series),
         last - first + 1 >= c.window_points + c.baseline_period
  PROVE  \E w : /\ EncodeLatest(c, SubSeq(series, first, last)) = <<w>>
               /\ EncodeLatest(c, SubSeq(series, 1, last)) = <<w>>
<1> DEFINE whole == SubSeq(series, 1, last)
           part == SubSeq(series, first, last)
           k == first - 1
           start == last - k - c.window_points
<1>1. /\ c.window_points \in Nat \ {0} /\ c.baseline_period \in Int
      /\ Len(series) \in Nat /\ first \in Nat /\ last \in Nat /\ k \in Nat /\ k < last
      /\ start \in Nat /\ c.baseline_period <= start
  BY DEF EncoderSound
<1>2. whole \in Seq(Values) /\ Len(whole) = last
  <2>1. \A i \in 1 .. last : series[i] \in Values
    BY <1>1
  <2>2. QED
    BY <1>1, <2>1, SubSeqProperties
<1>3. part \in Seq(Values) /\ Len(part) = last - k
  <2>1. \A i \in first .. last : series[i] \in Values
    BY <1>1
  <2>2. part \in Seq(Values) /\ Len(part) = last - first + 1
    BY <1>1, <2>1, SubSeqProperties
  <2>3. QED
    BY <1>1, <2>2
<1>4. part = SubSeq(whole, k + 1, last)
  <2>1. 1 \in 1 .. Len(series) /\ last \in 1 .. Len(series)
    BY <1>1
  <2>2. k + 1 \in 1 .. last - 1 + 1 /\ last \in 1 .. last - 1 + 1
    BY <1>1
  <2>3. SubSeq(whole, k + 1, last) = SubSeq(series, 1 + (k + 1) - 1, 1 + last - 1)
    BY <2>1, <2>2, SubSeqOfSubSeq
  <2>4. 1 + (k + 1) - 1 = first /\ 1 + last - 1 = last
    BY <1>1
  <2>5. QED
    BY <2>3, <2>4
<1> HIDE DEF whole, part
<1>5. MaxStart(c, part) = start /\ MaxStart(c, whole) = k + start
  BY <1>1, <1>2, <1>3 DEF MaxStart
<1>6. Window(c, part, start) = Window(c, whole, k + start)
  <2>1. /\ whole \in Seq(Values) /\ k \in Nat /\ k < Len(whole) /\ start \in Nat
        /\ start + c.window_points = Len(whole) - k /\ c.baseline_period <= start
    BY <1>1, <1>2
  <2> HIDE DEF k, start
  <2>2. Window(c, SubSeq(whole, k + 1, Len(whole)), start) = Window(c, whole, k + start)
    BY <2>1, WindowOfTail
  <2>3. QED
    BY <1>2, <1>4, <2>2
<1>7. ~(start < 0) /\ ~(k + start < 0)
  BY <1>1
<1>8. EncodeLatest(c, part) = <<Window(c, part, start)>>
  BY <1>3, <1>5, <1>7, LatestWindow
<1>9. EncodeLatest(c, whole) = <<Window(c, whole, k + start)>>
  BY <1>2, <1>5, <1>7, LatestWindow
<1>10. QED
  BY <1>6, <1>8, <1>9 DEF whole, part

-----------------------------------------------------------------------------
(* The series only grows, and whatever was observed has been replayed.     *)
SeriesTyped ==
  /\ points \in Seq(Values)
  /\ stamps \in Seq(Int)
  /\ Len(stamps) = Len(points)
  /\ now \in Int

BridgeTyped ==
  /\ config \in Configs
  /\ phase \notin {"start", "refused"} => EncoderAccepts(config)
  /\ \E S : observations \in Seq(S)

IInv == SeriesTyped /\ BridgeTyped /\ ObservationsAreReplayed

(* Nothing is observed in the beginning.                                   *)
LEMMA InitIInv == Init => IInv
<1> SUFFICES ASSUME Init PROVE IInv
  OBVIOUS
<1>1. SeriesTyped /\ BridgeTyped
  <2>1. << >> \in Seq({})
    OBVIOUS
  <2>2. QED
    BY <2>1 DEF Init, SeriesTyped, BridgeTyped
<1>2. DOMAIN observations = {}
  BY DEF Init
<1>3. QED
  BY <1>1, <1>2 DEF IInv, ObservationsAreReplayed

(* A bridge that polls has an encoder that has been accepted.              *)
LEMMA PollingEncoder ==
  ASSUME BridgeTyped, phase = "poll" PROVE EncoderSound(config)
BY ConfigsAssumption DEF BridgeTyped, EncoderAccepts, EncoderSound, MinWindowPoints, MinStridePoints

(* What a fetch makes of the points is what a replay makes of them.        *)
LEMMA EncodedIsReplayed ==
  ASSUME IInv, phase = "poll",
         NEW first \in 1 .. Len(points), NEW last \in 1 .. Len(points), first <= last,
         NEW windows \in {EncodeLatest(config, SubSeq(points, first, last)), << >>}
  PROVE  Replayed(Encoded(first, last, windows))
<1> DEFINE o == Encoded(first, last, windows)
<1>1. /\ o.sample_count = last - first + 1 /\ o.last_timestamp = stamps[last]
      /\ o.window = IF windows = << >> THEN None ELSE windows[Len(windows)]
  BY DEF Encoded
<1> HIDE DEF o
<1>2. SUFFICES ASSUME o.window # None, config.baseline_period > 0,
                      o.sample_count >= config.window_points + config.baseline_period
               PROVE  <<o.window>> = EncodeLatest(config, SubSeq(points, 1, last))
  BY <1>1 DEF Replayed, o
<1>3. windows = EncodeLatest(config, SubSeq(points, first, last)) /\ windows # << >>
  BY <1>1, <1>2
<1>4. PICK w : /\ EncodeLatest(config, SubSeq(points, first, last)) = <<w>>
              /\ EncodeLatest(config, SubSeq(points, 1, last)) = <<w>>
  BY <1>1, <1>2, PollingEncoder, PartIsReplayed DEF IInv, SeriesTyped
<1>5. o.window = w
  BY <1>1, <1>3, <1>4
<1>6. QED
  BY <1>4, <1>5

(* An observation that has been added does not disturb the others.         *)
LEMMA ObserveIInv ==
  ASSUME IInv, phase = "poll", NEW o, Replayed(o), Observe(o)
  PROVE  IInv'
<1>1. UNCHANGED <<config, points, stamps, now>>
  BY DEF Observe, world
<1>2. SeriesTyped'
  BY <1>1 DEF IInv, SeriesTyped
<1>3. PICK S : observations \in Seq(S)
  BY DEF IInv, BridgeTyped
<1>4. BridgeTyped'
  <2>1. observations' \in Seq(S \cup {o})
    <3>1. observations \in Seq(S \cup {o})
      BY <1>3
    <3>2. QED
      BY <3>1 DEF Observe
  <2>2. QED
    BY <1>1, <2>1 DEF IInv, BridgeTyped, EncoderAccepts
<1>5. ASSUME NEW i \in DOMAIN observations'
      PROVE  Replayed(observations'[i])
  <2>1. \/ i \in DOMAIN observations /\ observations'[i] = observations[i]
        \/ observations'[i] = o
    BY <1>3 DEF Observe
  <2>2. QED
    BY <2>1 DEF IInv, ObservationsAreReplayed
<1>6. ObservationsAreReplayed'
  BY <1>1, <1>5 DEF ObservationsAreReplayed, Replayed
<1>7. QED
  BY <1>2, <1>4, <1>6 DEF IInv

(* Every step of the bridge keeps the invariant.                           *)
LEMMA BridgeIInv ==
  ASSUME IInv, Bridge
  PROVE  IInv'
<1> DEFINE Still == UNCHANGED <<config, points, stamps, now>>
<1>1. ASSUME Still, BridgeTyped',
             observations' = observations \/ observations' = << >>
      PROVE  IInv'
  <2>1. SeriesTyped'
    BY <1>1 DEF IInv, SeriesTyped
  <2>2. \A i \in DOMAIN observations' : Replayed(observations'[i])
    BY <1>1 DEF IInv, ObservationsAreReplayed
  <2>3. ObservationsAreReplayed'
    BY <1>1, <2>2 DEF ObservationsAreReplayed, Replayed
  <2>4. QED
    BY <1>1, <2>1, <2>3 DEF IInv
<1>2. CASE Start
  BY <1>1, <1>2 DEF Start, Accepted, world, IInv, BridgeTyped, EncoderAccepts
<1>3. CASE Refuse
  BY <1>1, <1>3 DEF Refuse, world, IInv, BridgeTyped
<1>4. CASE FetchFails
  <2>1. Replayed(Failed("fetch"))
    BY DEF Replayed, Failed
  <2>2. QED
    BY <1>4, <2>1, ObserveIInv DEF FetchFails, Polls
<1>5. CASE FetchNothing
  <2>1. Replayed(Failed("no_samples"))
    BY DEF Replayed, Failed
  <2>2. QED
    BY <1>5, <2>1, ObserveIInv DEF FetchNothing, Polls
<1>6. CASE FetchPoints
  <2>1. PICK first \in 1 .. Len(points), last \in 1 .. Len(points) :
          /\ phase = "poll" /\ first <= last
          /\ \E windows \in {EncodeLatest(config, SubSeq(points, first, last)), << >>} :
               Observe(Encoded(first, last, windows))
    BY <1>6 DEF FetchPoints, Polls
  <2>2. PICK windows \in {EncodeLatest(config, SubSeq(points, first, last)), << >>} :
          Observe(Encoded(first, last, windows))
    BY <2>1
  <2>3. Replayed(Encoded(first, last, windows))
    BY <2>1, EncodedIsReplayed
  <2>4. QED
    BY <2>1, <2>2, <2>3, ObserveIInv
<1>7. CASE EmitOne
  BY <1>1, <1>7 DEF EmitOne, world, IInv, BridgeTyped, EncoderAccepts
<1>8. CASE EmitLast
  <2>1. << >> \in Seq({})
    OBVIOUS
  <2>2. QED
    BY <1>1, <1>8, <2>1 DEF EmitLast, world, IInv, BridgeTyped, EncoderAccepts
<1>9. CASE EmitFails
  BY <1>1, <1>9 DEF EmitFails, world, IInv, BridgeTyped, EncoderAccepts
<1>10. CASE Wake
  BY <1>1, <1>10 DEF Wake, world, IInv, BridgeTyped, EncoderAccepts
<1>11. QED
  BY <1>2, <1>3, <1>4, <1>5, <1>6, <1>7, <1>8, <1>9, <1>10 DEF Bridge

(* A point that comes changes nothing of the series before it.             *)
LEMMA WorldIInv ==
  ASSUME IInv, Gap \/ \E value \in Values : Arrive(value)
  PROVE  IInv'
<1>1. UNCHANGED <<config, phase, observations>>
  BY DEF Gap, Arrive, Passes
<1>2. SeriesTyped'
  <2>1. SeriesTyped /\ now' = now + 1
    BY DEF IInv, Gap, Arrive, Passes
  <2>2. CASE UNCHANGED <<points, stamps>>
    BY <2>1, <2>2 DEF SeriesTyped
  <2>3. ASSUME NEW value \in Values, points' = Append(points, value), stamps' = Append(stamps, now')
        PROVE  SeriesTyped'
    BY <2>1, <2>3 DEF SeriesTyped
  <2>4. QED
    BY <2>2, <2>3 DEF Gap, Arrive
<1>3. BridgeTyped'
  BY <1>1 DEF IInv, BridgeTyped, EncoderAccepts
<1>4. ASSUME NEW last \in 1 .. Len(points)
      PROVE  /\ last \in 1 .. Len(points')
             /\ stamps'[last] = stamps[last]
             /\ SubSeq(points', 1, last) = SubSeq(points, 1, last)
  <2>1. CASE UNCHANGED <<points, stamps>>
    BY <1>4, <2>1
  <2>2. ASSUME NEW value \in Values, points' = Append(points, value), stamps' = Append(stamps, now')
        PROVE  /\ last \in 1 .. Len(points')
               /\ stamps'[last] = stamps[last]
               /\ SubSeq(points', 1, last) = SubSeq(points, 1, last)
    <3>1. points \in Seq(Values) /\ stamps \in Seq(Int) /\ Len(stamps) = Len(points)
      BY DEF IInv, SeriesTyped
    <3>2. Len(points') = Len(points) + 1 /\ \A i \in 1 .. Len(points) : points'[i] = points[i]
      BY <2>2, <3>1
    <3>3. stamps'[last] = stamps[last]
      BY <2>2, <3>1
    <3>4. SubSeq(points', 1, last) = [i \in 1 .. last |-> points'[i]]
      BY <3>1
    <3>5. SubSeq(points, 1, last) = [i \in 1 .. last |-> points[i]]
      BY <3>1
    <3>6. QED
      BY <3>1, <3>2, <3>3, <3>4, <3>5
  <2>3. QED
    BY <2>1, <2>2 DEF Gap, Arrive
<1>5. ASSUME NEW i \in DOMAIN observations
      PROVE  Replayed(observations[i])'
  <2> DEFINE o == observations[i]
  <2>1. Replayed(o)
    BY <1>5 DEF IInv, ObservationsAreReplayed
  <2>2. SUFFICES ASSUME o.window # None, config.baseline_period > 0,
                        o.sample_count >= config.window_points + config.baseline_period
                 PROVE  \E last \in 1 .. Len(points') :
                          /\ stamps'[last] = o.last_timestamp
                          /\ <<o.window>> = EncodeLatest(config, SubSeq(points', 1, last))
    BY <1>1 DEF Replayed
  <2>3. PICK last \in 1 .. Len(points) :
          /\ stamps[last] = o.last_timestamp
          /\ <<o.window>> = EncodeLatest(config, SubSeq(points, 1, last))
    BY <2>1, <2>2 DEF Replayed
  <2>4. QED
    BY <1>4, <2>3
<1>6. QED
  BY <1>1, <1>2, <1>3, <1>5 DEF IInv, ObservationsAreReplayed

-----------------------------------------------------------------------------
(* What RoundIsComplete says of one observation.                           *)
Sound(c, i, o) ==
  /\ o.sample_count <= c.metrics[i].lookback_points
  /\ o.error = None => o.window.subset[c.window_points] = o.current_value
  /\ o.sample_count > 0 /\ c.metrics[i].provider # "llm_probe"
     => o.last_timestamp - o.first_timestamp
          < c.metrics[i].lookback_points * c.metrics[i].period_seconds

(* Points come a tick apart at least: no more of them fit into a span.     *)
StampsApart ==
  \A i \in 1 .. Len(points) :
    /\ now - stamps[i] >= Len(points) - i
    /\ \A j \in i .. Len(points) : stamps[j] - stamps[i] >= j - i

(* Where the round is, and that what it has observed is sound.             *)
RoundSound ==
  /\ phase \notin {"start", "refused"} => Accepted
  /\ phase \in {"start", "sleep"} => next = 1 /\ observations = << >>
  /\ phase = "poll" => next = Len(observations) + 1 /\ next \in 1 .. Count
  /\ phase = "emit" => Len(observations) = Count
  /\ \A i \in DOMAIN observations : Sound(config, i, observations[i])

RInv == StampsApart /\ RoundSound

(* An accepted configuration has a metric, and they are valid.             *)
LEMMA AcceptedMetrics ==
  ASSUME config \in Configs, Accepted
  PROVE  /\ Count \in Nat \ {0}
         /\ \A i \in 1 .. Count :
              /\ config.metrics[i].lookback_points \in Nat \ {0}
              /\ config.metrics[i].period_seconds = 1
<1>1. /\ config.metrics # << >> /\ \A i \in 1 .. Count : Valid(config.metrics[i])
      /\ config.metrics \in Seq({config.metrics[i] : i \in DOMAIN config.metrics})
  BY MetricsAssumption DEF Accepted, Loads
<1>2. Count \in Nat \ {0} /\ DOMAIN config.metrics = 1 .. Count
  BY <1>1 DEF Count
<1>3. ASSUME NEW i \in 1 .. Count
      PROVE  /\ config.metrics[i].lookback_points \in Nat \ {0}
             /\ config.metrics[i].period_seconds = 1
  <2>1. config.metrics[i].lookback_points \in Int /\ config.metrics[i].period_seconds \in {0, 1}
    BY <1>2, <1>3, ConfigsAssumption, PeriodAssumption
  <2>2. config.metrics[i].lookback_points > 0 /\ config.metrics[i].period_seconds > 0
    BY <1>1, <1>3 DEF Valid
  <2>3. QED
    BY <2>1, <2>2
<1>4. QED
  BY <1>2, <1>3

(* A fetch that failed, or found nothing, is a sound observation.          *)
LEMMA FailedSound ==
  ASSUME IInv, RInv, phase = "poll", NEW cause \in {"fetch", "no_samples"}
  PROVE  Sound(config, next, Failed(cause))
<1>1. config.metrics[next].lookback_points \in Nat
  BY AcceptedMetrics DEF IInv, BridgeTyped, RInv, RoundSound
<1>2. cause # None
  BY NoneAssumption
<1>3. Failed(cause).sample_count = 0 /\ Failed(cause).error = cause
  BY DEF Failed
<1>4. QED
  BY <1>1, <1>2, <1>3 DEF Sound

(* What is offered is within the lookback of the metric.                   *)
LEMMA OfferSound ==
  ASSUME IInv, RInv, phase = "poll",
         NEW first \in 1 .. Len(points), NEW last \in 1 .. Len(points), first <= last,
         Offers(first, last)
  PROVE  /\ last - first + 1 <= Metric.lookback_points
         /\ Metric.provider # "llm_probe"
            => stamps[last] - stamps[first] < Metric.lookback_points * Metric.period_seconds
<1>1. Metric.lookback_points \in Nat \ {0} /\ Metric.period_seconds = 1
  BY AcceptedMetrics DEF IInv, BridgeTyped, RInv, RoundSound, Metric
<1>2. /\ Len(points) \in Nat /\ now \in Int
      /\ stamps[first] \in Int /\ stamps[last] \in Int
  BY DEF IInv, SeriesTyped
<1>3. CASE ProbesOffer(first, last)
  <2>1. Metric.provider = "llm_probe" /\ last = Len(points)
        /\ first = AtLeastZero(Len(points) - Metric.lookback_points) + 1
    BY <1>3 DEF ProbesOffer
  <2>2. last - first + 1 <= Metric.lookback_points
    BY <1>1, <1>2, <2>1 DEF AtLeastZero
  <2>3. QED
    BY <2>1, <2>2
<1>4. CASE PrometheusOffers(first, last) \/ CloudWatchOffers(first, last)
  <2>1. InRange(first) /\ InRange(last)
    <3>1. first \in first .. last /\ last \in first .. last
      OBVIOUS
    <3>2. QED
      BY <1>4, <3>1 DEF PrometheusOffers, CloudWatchOffers
  <2>2. Span = Metric.lookback_points - 1
    BY <1>1 DEF Span, AtLeastZero
  <2>3. stamps[last] - stamps[first] <= Metric.lookback_points - 1
    BY <1>1, <1>2, <2>1, <2>2 DEF InRange
  <2>4. stamps[last] - stamps[first] >= last - first
    BY DEF RInv, StampsApart
  <2>5. QED
    BY <1>1, <1>2, <2>3, <2>4
<1>5. QED
  BY <1>3, <1>4 DEF Offers

(* The window of a fetch ends with the newest point of it.                 *)
LEMMA WindowEnds ==
  ASSUME NEW c, EncoderSound(c), NEW part \in Seq(Values),
         EncodeLatest(c, part) # << >>
  PROVE  \E w : EncodeLatest(c, part) = <<w>> /\ w.subset[c.window_points] = part[Len(part)]
<1> DEFINE m == MaxStart(c, part)
<1>1. ~(m < 0) /\ EncodeLatest(c, part) = <<Window(c, part, m)>>
  BY LatestWindow
<1>2. /\ c.window_points \in Nat \ {0} /\ Len(part) \in Nat
      /\ m \in Nat /\ m + c.window_points = Len(part)
  BY <1>1 DEF MaxStart, EncoderSound
<1> HIDE DEF m
<1>3. SubSeq(part, m + 1, m + c.window_points)[c.window_points] = part[Len(part)]
  <2>1. \A i \in m + 1 .. m + c.window_points : part[i] \in Values
    BY <1>2
  <2>2. c.window_points \in 1 .. (m + c.window_points) - (m + 1) + 1
    BY <1>2
  <2> DEFINE a == m + 1
             b == m + c.window_points
  <2>3. a \in 1 .. Len(part) + 1 /\ b \in Nat /\ \A i \in a .. b : part[i] \in Values
    BY <1>2, <2>1
  <2>4. c.window_points \in 1 .. b - a + 1 /\ a + c.window_points - 1 = Len(part)
    BY <1>2
  <2> HIDE DEF a, b
  <2>5. SubSeq(part, a, b)[c.window_points] = part[a + c.window_points - 1]
    BY <2>3, <2>4, SubSeqProperties
  <2>6. QED
    BY <2>4, <2>5 DEF a, b
<1>4. Window(c, part, m).subset = SubSeq(part, m + 1, m + c.window_points)
  BY DEF Window
<1>5. QED
  BY <1>1, <1>3, <1>4 DEF m

(* An observation of points that are offered is sound.                     *)
LEMMA EncodedSound ==
  ASSUME IInv, RInv, phase = "poll",
         NEW first \in 1 .. Len(points), NEW last \in 1 .. Len(points), first <= last,
         Offers(first, last),
         NEW windows \in {EncodeLatest(config, SubSeq(points, first, last)), << >>}
  PROVE  Sound(config, next, Encoded(first, last, windows))
<1> DEFINE o == Encoded(first, last, windows)
           part == SubSeq(points, first, last)
<1>1. /\ o.sample_count = last - first + 1 /\ o.current_value = points[last]
      /\ o.first_timestamp = stamps[first] /\ o.last_timestamp = stamps[last]
      /\ o.window = IF windows = << >> THEN None ELSE windows[Len(windows)]
      /\ o.error = IF windows = << >> THEN "no_window" ELSE None
  BY DEF Encoded
<1> HIDE DEF o
<1>2. part \in Seq(Values) /\ Len(part) = last - first + 1 /\ part[Len(part)] = points[last]
  <2>1. points \in Seq(Values) /\ \A i \in first .. last : points[i] \in Values
    BY DEF IInv, SeriesTyped
  <2>2. /\ part \in Seq(Values) /\ Len(part) = last - first + 1
        /\ \A i \in 1 .. last - first + 1 : part[i] = points[first + i - 1]
    BY <2>1, SubSeqProperties
  <2>3. last - first + 1 \in 1 .. last - first + 1 /\ first + (last - first + 1) - 1 = last
    OBVIOUS
  <2>4. QED
    BY <2>2, <2>3
<1> HIDE DEF part
<1>3. ASSUME o.error = None
      PROVE  o.window.subset[config.window_points] = o.current_value
  <2>1. windows # << >> /\ windows = EncodeLatest(config, part)
    BY <1>1, <1>3, NoneAssumption DEF part
  <2>2. PICK w : windows = <<w>> /\ w.subset[config.window_points] = part[Len(part)]
    BY <1>2, <2>1, PollingEncoder, WindowEnds DEF IInv
  <2>3. o.window = w
    BY <1>1, <2>1, <2>2
  <2>4. QED
    BY <1>1, <1>2, <2>2, <2>3
<1>4. QED
  BY <1>1, <1>3, OfferSound DEF Sound, Metric, o

(* A sound observation of the metric that is next keeps the round sound.   *)
LEMMA ObserveRInv ==
  ASSUME IInv, RInv, phase = "poll", NEW o, Sound(config, next, o), Observe(o)
  PROVE  RInv'
<1>1. UNCHANGED <<config, points, stamps, now>>
  BY DEF Observe, world
<1>2. StampsApart'
  BY <1>1 DEF RInv, StampsApart
<1>3. PICK S : observations \in Seq(S)
  BY DEF IInv, BridgeTyped
<1>4. /\ Accepted' /\ Count' = Count /\ Count \in Nat
      /\ next = Len(observations) + 1 /\ next \in 1 .. Count
  <2>1. Accepted /\ next = Len(observations) + 1 /\ next \in 1 .. Count
    BY DEF RInv, RoundSound
  <2>2. QED
    BY <1>1, <2>1, AcceptedMetrics
       DEF IInv, BridgeTyped, Accepted, Loads, Providers, Count, EncoderAccepts
<1>5. /\ Len(observations') = next
      /\ \A i \in 1 .. Len(observations) : observations'[i] = observations[i]
      /\ observations'[next] = o
  BY <1>3, <1>4 DEF Observe
<1>6. DOMAIN observations' = 1 .. next /\ DOMAIN observations = 1 .. next - 1
  BY <1>3, <1>4 DEF Observe
<1>7. ASSUME NEW i \in DOMAIN observations'
      PROVE  Sound(config', i, observations'[i])
  <2>1. CASE i = next
    BY <1>1, <1>5, <2>1 DEF Sound
  <2>2. CASE i \in DOMAIN observations
    <3>1. Sound(config, i, observations[i]) /\ observations'[i] = observations[i]
      BY <1>4, <1>5, <1>6, <2>2 DEF RInv, RoundSound
    <3>2. QED
      BY <1>1, <3>1 DEF Sound
  <2>3. QED
    BY <1>4, <1>6, <2>1, <2>2
<1>8. RoundSound'
  <2>1. CASE next = Count
    <3>1. phase' = "emit" /\ Len(observations') = Count'
      BY <1>4, <1>5, <2>1 DEF Observe
    <3>2. QED
      BY <1>4, <1>7, <3>1 DEF RoundSound
  <2>2. CASE next # Count
    <3>1. phase' = "poll" /\ next' = next + 1
      BY <2>2 DEF Observe
    <3>2. next' = Len(observations') + 1 /\ next' \in 1 .. Count'
      BY <1>4, <1>5, <2>2, <3>1
    <3>3. QED
      BY <1>4, <1>7, <3>1, <3>2 DEF RoundSound
  <2>3. QED
    BY <2>1, <2>2
<1>9. QED
  BY <1>2, <1>8 DEF RInv

(* Nothing has come and nothing is observed in the beginning.              *)
LEMMA InitRInv == Init => RInv
BY DEF Init, RInv, RoundSound, StampsApart

(* Every step of the bridge keeps the round sound.                         *)
LEMMA BridgeRInv ==
  ASSUME IInv, RInv, Bridge
  PROVE  RInv'
<1>1. ASSUME UNCHANGED <<config, points, stamps, now>>,
             observations' \in {observations, << >>},
             phase' \notin {"start", "refused"} => Accepted,
             phase' \in {"start", "sleep"} => next' = 1 /\ observations' = << >>,
             phase' = "poll" => next' = 1 /\ observations' = << >>,
             phase' = "emit" => Len(observations') = Count
      PROVE  RInv'
  <2>1. StampsApart'
    BY <1>1 DEF RInv, StampsApart
  <2>2. Count' = Count /\ (Accepted => Accepted')
    BY <1>1 DEF Accepted, Loads, Providers, Count, EncoderAccepts
  <2>3. phase' = "poll" => next' \in 1 .. Count' /\ Len(observations') = 0
    BY <1>1, <2>2, AcceptedMetrics DEF IInv, BridgeTyped
  <2>4. \A i \in DOMAIN observations' : Sound(config, i, observations'[i])
    BY <1>1 DEF RInv, RoundSound
  <2>5. \A i \in DOMAIN observations' : Sound(config', i, observations'[i])
    BY <1>1, <2>4 DEF Sound
  <2>6. QED
    BY <1>1, <2>1, <2>2, <2>3, <2>5 DEF RInv, RoundSound
<1>2. CASE Start
  BY <1>1, <1>2 DEF Start, world, RInv, RoundSound
<1>3. CASE Refuse
  BY <1>1, <1>3 DEF Refuse, world, RInv, RoundSound
<1>4. CASE FetchFails
  BY <1>4, FailedSound, ObserveRInv DEF FetchFails, Polls
<1>5. CASE FetchNothing
  BY <1>5, FailedSound, ObserveRInv DEF FetchNothing, Polls
<1>6. CASE FetchPoints
  <2>1. PICK first \in 1 .. Len(points), last \in 1 .. Len(points) :
          /\ phase = "poll" /\ first <= last /\ Offers(first, last)
          /\ \E windows \in {EncodeLatest(config, SubSeq(points, first, last)), << >>} :
               Observe(Encoded(first, last, windows))
    BY <1>6 DEF FetchPoints, Polls
  <2>2. PICK windows \in {EncodeLatest(config, SubSeq(points, first, last)), << >>} :
          Observe(Encoded(first, last, windows))
    BY <2>1
  <2>3. Sound(config, next, Encoded(first, last, windows))
    BY <2>1, EncodedSound
  <2>4. QED
    BY <2>1, <2>2, <2>3, ObserveRInv
<1>7. CASE EmitOne
  BY <1>1, <1>7 DEF EmitOne, world, RInv, RoundSound
<1>8. CASE EmitLast
  BY <1>1, <1>8 DEF EmitLast, world, RInv, RoundSound
<1>9. CASE EmitFails
  BY <1>1, <1>9 DEF EmitFails, world, RInv, RoundSound
<1>10. CASE Wake
  BY <1>1, <1>10 DEF Wake, world, RInv, RoundSound
<1>11. QED
  BY <1>2, <1>3, <1>4, <1>5, <1>6, <1>7, <1>8, <1>9, <1>10 DEF Bridge

(* The clock goes on with every point, and without.                        *)
LEMMA WorldRInv ==
  ASSUME IInv, RInv, Gap \/ \E value \in Values : Arrive(value)
  PROVE  RInv'
<1>1. UNCHANGED <<config, phase, next, observations>> /\ now' = now + 1
  BY DEF Gap, Arrive, Passes
<1>2. RoundSound'
  BY <1>1 DEF RInv, RoundSound, Sound, Accepted, Loads, Providers, Count, EncoderAccepts
<1>3. /\ points \in Seq(Values) /\ stamps \in Seq(Int) /\ Len(stamps) = Len(points)
      /\ now \in Int /\ \A i \in 1 .. Len(points) : stamps[i] \in Int
  BY DEF IInv, SeriesTyped
<1>4. CASE UNCHANGED <<points, stamps>>
  <2>1. ASSUME NEW i \in 1 .. Len(points)
        PROVE  now' - stamps[i] >= Len(points) - i
    <3>1. now - stamps[i] >= Len(points) - i /\ stamps[i] \in Int /\ Len(points) \in Nat
      BY <1>3 DEF RInv, StampsApart
    <3>2. QED
      BY <1>1, <1>3, <3>1
  <2>2. StampsApart'
    BY <1>4, <2>1 DEF RInv, StampsApart
  <2>3. QED
    BY <1>2, <2>2 DEF RInv
<1>5. ASSUME NEW value \in Values, points' = Append(points, value), stamps' = Append(stamps, now')
      PROVE  StampsApart'
  <2> DEFINE n == Len(points)
  <2>1. /\ n \in Nat /\ Len(points') = n + 1 /\ stamps'[n + 1] = now + 1
        /\ \A i \in 1 .. n : stamps'[i] = stamps[i]
    BY <1>1, <1>3, <1>5
  <2> HIDE DEF n
  <2>2. ASSUME NEW i \in 1 .. n + 1
        PROVE  /\ now' - stamps'[i] >= (n + 1) - i
               /\ \A j \in i .. n + 1 : stamps'[j] - stamps'[i] >= j - i
    <3>1. CASE i = n + 1
      BY <1>1, <1>3, <2>1, <3>1
    <3>2. CASE i \in 1 .. n
      <4>1. /\ stamps[i] \in Int /\ now - stamps[i] >= n - i
            /\ \A j \in i .. n : stamps[j] - stamps[i] >= j - i
        BY <1>3, <3>2 DEF RInv, StampsApart, n
      <4>2. now' - stamps'[i] >= (n + 1) - i
        BY <1>1, <1>3, <2>1, <3>2, <4>1
      <4>3. ASSUME NEW j \in i .. n + 1 PROVE stamps'[j] - stamps'[i] >= j - i
        <5>1. j = n + 1 \/ j \in i .. n
          BY <2>1, <3>2, <4>3
        <5>2. CASE j = n + 1
          BY <1>3, <2>1, <3>2, <4>1, <5>2
        <5>3. CASE j \in i .. n
          BY <2>1, <3>2, <4>1, <5>3
        <5>4. QED
          BY <5>1, <5>2, <5>3
      <4>4. QED
        BY <4>2, <4>3
    <3>3. QED
      BY <2>1, <3>1, <3>2
  <2>3. QED
    BY <2>1, <2>2 DEF StampsApart
<1>6. QED
  BY <1>2, <1>4, <1>5 DEF RInv, Gap, Arrive

-----------------------------------------------------------------------------
(* Division leaves a remainder below the divisor.                          *)
LEMMA Remainder ==
  ASSUME NEW m \in Nat, NEW s \in Nat \ {0}
  PROVE  /\ m \div s \in Nat
         /\ m - (m \div s) * s \in Nat
         /\ m - (m \div s) * s < s
         /\ (m - (m \div s) * s) \div s = 0
<1>1. m \div s \in Nat /\ m - (m \div s) * s \in 0 .. s - 1
  OBVIOUS
<1>2. \A r \in 0 .. s - 1 : r \div s = 0
  OBVIOUS
<1>3. QED
  BY <1>1, <1>2

(* Aligned to the stride, the latest window is the last one of them all.   *)
LEMMA AlignedWindow ==
  ASSUME NEW c, EncoderSound(c), NEW series \in Seq(Values), MaxStart(c, series) >= 0
  PROVE  EncodeAligned(c, series)
           = <<EncodeAll(c, series)[Len(EncodeAll(c, series))]>>
<1> DEFINE m == MaxStart(c, series)
           s == c.stride_points
           q == m \div s
           here(k, first) == Window(c, series, first + (k - 1) * s)
           n(first) == IF first > m THEN 0 ELSE (m - first) \div s + 1
<1>1. m \in Nat /\ s \in Nat \ {0}
  <2>1. c.window_points \in Nat /\ Len(series) \in Nat /\ s \in Nat \ {0}
    BY DEF EncoderSound
  <2>2. QED
    BY <2>1 DEF MaxStart
<1>2. \A first : WindowsFrom(c, series, first) = [k \in 1 .. n(first) |-> here(k, first)]
  BY DEF WindowsFrom
<1>3. EncodeAligned(c, series) = WindowsFrom(c, series, q * s)
  BY <1>1 DEF EncodeAligned, AlignedStart
<1> HIDE DEF m, s
<1>4. q \in Nat /\ q * s \in Nat /\ q * s <= m /\ (m - q * s) \div s = 0
  <2>1. q \in Nat /\ m - q * s \in Nat /\ (m - q * s) \div s = 0
    BY <1>1, Remainder
  <2>2. q * s \in Nat
    BY <1>1, <2>1
  <2> HIDE DEF q
  <2>3. QED
    BY <1>1, <2>1, <2>2
<1>5. n(q * s) = 1 /\ n(0) = q + 1
  <2>1. m - 0 = m /\ ~(0 > m) /\ ~(q * s > m)
    BY <1>1, <1>4
  <2>2. QED
    BY <1>4, <2>1
<1> HIDE DEF q
<1>6. here(1, q * s) = here(q + 1, 0)
  <2>1. \A a \in Nat : a + (1 - 1) * s = a
    BY <1>1
  <2>2. 0 + (q + 1 - 1) * s = q * s
    <3>1. q + 1 - 1 = q /\ 0 + q * s = q * s
      BY <1>4
    <3>2. QED
      BY <3>1
  <2>3. q * s + (1 - 1) * s = q * s
    BY <1>4, <2>1
  <2>4. here(1, q * s) = Window(c, series, q * s)
    BY <1>1, <1>4, <2>3
  <2>5. here(q + 1, 0) = Window(c, series, q * s)
    BY <1>1, <1>4, <2>2
  <2>6. QED
    BY <2>4, <2>5
<1> HIDE DEF n, here
<1>7. EncodeAligned(c, series) = <<here(1, q * s)>>
  <2>1. EncodeAligned(c, series) = [k \in 1 .. 1 |-> here(k, q * s)]
    BY <1>2, <1>3, <1>5
  <2>2. QED
    BY <2>1
<1>8. /\ EncodeAll(c, series) = [k \in 1 .. q + 1 |-> here(k, 0)]
      /\ Len(EncodeAll(c, series)) = q + 1
  BY <1>2, <1>4, <1>5 DEF EncodeAll
<1>9. EncodeAll(c, series)[q + 1] = here(q + 1, 0)
  BY <1>4, <1>8
<1>10. QED
  BY <1>6, <1>7, <1>8, <1>9

(* The invariant holds in every reachable state.                           *)
LEMMA Invariant == Spec => []IInv
<1>1. IInv /\ [Next]_vars => IInv'
  <2>1. IInv /\ UNCHANGED vars => IInv'
    BY DEF IInv, SeriesTyped, BridgeTyped, EncoderAccepts, ObservationsAreReplayed, Replayed,
       vars, world
  <2>2. QED
    BY <2>1, BridgeIInv, WorldIInv DEF Next
<1>2. QED
  BY InitIInv, <1>1, PTL DEF Spec

(* The latest window of an accepted encoder is exactly one, and the right  *)
(* one, aligned to the stride or not.                                      *)
THEOREM LatestIsAlwaysOne == Spec => []LatestIsOne
<1>1. ASSUME IInv, EncoderAccepts(config), MaxStart(config, points) >= 0
      PROVE  /\ EncodeAligned(config, points)
                   = <<EncodeAll(config, points)[Len(EncodeAll(config, points))]>>
             /\ EncodeLatest(config, points) = <<Window(config, points, MaxStart(config, points))>>
  <2>1. EncoderSound(config)
    BY <1>1, ConfigsAssumption
       DEF IInv, BridgeTyped, EncoderAccepts, EncoderSound, MinWindowPoints, MinStridePoints
  <2>2. points \in Seq(Values)
    BY <1>1 DEF IInv, SeriesTyped
  <2>3. MaxStart(config, points) \in Int
    BY <2>1, <2>2 DEF MaxStart, EncoderSound
  <2>4. QED
    BY <1>1, <2>1, <2>2, <2>3, AlignedWindow, LatestWindow
<1>2. IInv => LatestIsOne
  BY <1>1 DEF LatestIsOne
<1>3. QED
  BY <1>2, Invariant, PTL

(* The bridge and an offline replay of the whole series compute the same   *)
(* window, wherever the bridge's lookback begins and ends.                 *)
THEOREM BridgeAgreesWithReplay == Spec => []ObservationsAreReplayed
<1>1. IInv => ObservationsAreReplayed
  BY DEF IInv
<1>2. QED
  BY <1>1, Invariant, PTL

(* So do the soundness of the round and the points being a tick apart.     *)
LEMMA RoundInvariant == Spec => [](IInv /\ RInv)
<1>1. Init => RInv
  BY InitRInv
<1>2. IInv /\ RInv /\ [Next]_vars => RInv'
  <2>1. RInv /\ UNCHANGED vars => RInv'
    BY DEF RInv, StampsApart, RoundSound, Sound, Accepted, Loads, Providers, Count,
       EncoderAccepts, vars, world
  <2>2. QED
    BY <2>1, BridgeRInv, WorldRInv DEF Next
<1>3. QED
  BY <1>1, <1>2, Invariant, PTL DEF Spec

(* A round that is printed has an observation of every metric, within what *)
(* the metric looks back over, and each without an error has a window of   *)
(* the newest point: whatever failed, arrived late or was missing.         *)
THEOREM RoundsAreComplete == Spec => []RoundIsComplete
<1>1. IInv /\ RInv => RoundIsComplete
  <2>1. SUFFICES ASSUME IInv, RInv, phase = "emit"
                 PROVE  /\ Len(observations) = Count
                        /\ \A i \in 1 .. Count : Sound(config, i, observations[i])
    BY DEF RoundIsComplete, Sound
  <2>2. PICK S : observations \in Seq(S)
    BY <2>1 DEF IInv, BridgeTyped
  <2>3. QED
    BY <2>1, <2>2 DEF RInv, RoundSound
<1>2. QED
  BY <1>1, RoundInvariant, PTL

-----------------------------------------------------------------------------
(* What RoundsGoOn rests on: the metrics of a round left to poll and the   *)
(* lines left to print.                                                    *)
LeftOfRound ==
  IF phase = "poll" THEN (Count - next + 1) + Count
  ELSE IF phase = "emit" THEN Count - next + 1 ELSE 0

Shortens ==
  phase \in {"poll", "emit"} =>
    /\ LeftOfRound \in 1 .. 2 * Count
    /\ IF Bridge THEN LeftOfRound' \in 0 .. LeftOfRound - 1
       ELSE UNCHANGED <<config, phase, next, observations>>

(* While a round lasts every step of the bridge shortens it, a failed fetch*)
(* or print like any other, and nothing else touches it: a round takes two *)
(* steps for each metric at most.                                          *)
RoundsShorten == [][Shortens]_vars

(* The metric that is next has its connector: the look-up outside the try, *)
(* which would end the bridge, never fails, whatever was configured.       *)
LookupSucceeds == phase = "poll" => Polls

(* A bridge that runs has built the connectors its metrics name.           *)
Connected == phase \notin {"start", "refused"} => connectors = Providers

(* When a line is printed there is one more to print, or it was the last.  *)
Printing == phase = "emit" => next \in 1 .. Count

(* EmitOne looks whether it was the last; a round begins with the first.   *)
LEMMA PrintingStep == IInv /\ RInv /\ Printing /\ [Next]_vars => Printing'
<1> SUFFICES ASSUME IInv, RInv, Printing, [Next]_vars PROVE Printing'
  OBVIOUS
<1>1. Count' = Count
  BY DEF Next, vars, world, Bridge, Start, Refuse, FetchFails, FetchNothing, FetchPoints, Observe,
     EmitOne, EmitLast, EmitFails, Wake, Gap, Arrive, Passes, Count
<1>2. phase = "poll" => Count \in Nat \ {0}
  BY AcceptedMetrics DEF IInv, BridgeTyped, RInv, RoundSound
<1>3. CASE FetchFails \/ FetchNothing \/ FetchPoints
  BY <1>1, <1>2, <1>3 DEF FetchFails, FetchNothing, FetchPoints, Polls, Observe, Printing
<1>4. CASE EmitOne
  <2>1. next \in 1 .. Count /\ next < Count /\ Count \in Int
    <3>1. Count \in Nat
      BY <1>4, AcceptedMetrics DEF IInv, BridgeTyped, RInv, RoundSound, EmitOne
    <3>2. QED
      BY <1>4, <3>1 DEF EmitOne, Printing
  <2>2. QED
    BY <1>1, <1>4, <2>1 DEF EmitOne, Printing
<1>5. CASE Start \/ Refuse \/ EmitLast \/ EmitFails \/ Wake
  BY <1>1, <1>5 DEF Start, Refuse, EmitLast, EmitFails, Wake, Printing
<1>6. CASE Gap \/ (\E value \in Values : Arrive(value)) \/ UNCHANGED vars
  BY <1>1, <1>6 DEF Gap, Arrive, Passes, vars, Printing
<1>7. QED
  BY <1>3, <1>4, <1>5, <1>6 DEF Next, Bridge

(* The lines are counted within the round.                                 *)
LEMMA PrintingAlways == Spec => []Printing
<1>1. Init => Printing
  BY DEF Init, Printing
<1>2. QED
  BY <1>1, PrintingStep, RoundInvariant, PTL DEF Spec

(* The bound on a round, and that nothing in it is endless.                *)
THEOREM RoundsAreFinite == Spec => RoundsShorten
<1>1. ASSUME IInv, RInv, Printing, [Next]_vars
      PROVE  Shortens
  <2>1. SUFFICES ASSUME phase \in {"poll", "emit"}
                 PROVE  /\ LeftOfRound \in 1 .. 2 * Count
                        /\ Bridge => LeftOfRound' \in 0 .. LeftOfRound - 1
                        /\ ~Bridge => UNCHANGED <<config, phase, next, observations>>
    BY DEF Shortens
  <2>2. Count \in Nat \ {0} /\ next \in 1 .. Count
    BY <1>1, <2>1, AcceptedMetrics DEF IInv, BridgeTyped, RInv, RoundSound, Printing
  <2>3. LeftOfRound \in 1 .. 2 * Count
    BY <2>1, <2>2 DEF LeftOfRound
  <2>4. ASSUME Bridge
        PROVE  LeftOfRound' \in 0 .. LeftOfRound - 1
    <3>1. Count' = Count
      BY <2>4 DEF Bridge, Start, Refuse, FetchFails, FetchNothing, FetchPoints, Observe,
         EmitOne, EmitLast, EmitFails, Wake, Count
    <3>2. CASE FetchFails \/ FetchNothing \/ FetchPoints
      <4>1. /\ phase = "poll"
            /\ next' = IF next = Count THEN 1 ELSE next + 1
            /\ phase' = IF next = Count THEN "emit" ELSE "poll"
        BY <3>2 DEF FetchFails, FetchNothing, FetchPoints, Polls, Observe
      <4>2. QED
        BY <2>2, <3>1, <4>1 DEF LeftOfRound
    <3>3. CASE EmitOne
      BY <2>2, <3>1, <3>3 DEF EmitOne, LeftOfRound
    <3>4. CASE EmitLast \/ EmitFails
      <4>1. phase = "emit" /\ phase' \notin {"poll", "emit"}
        BY <3>4 DEF EmitLast, EmitFails
      <4>2. LeftOfRound' = 0
        BY <4>1 DEF LeftOfRound
      <4>3. QED
        BY <2>2, <4>1, <4>2 DEF LeftOfRound
    <3>5. QED
      BY <2>1, <2>4, <3>2, <3>3, <3>4 DEF Bridge, Start, Refuse, Wake
  <2>5. ASSUME ~Bridge
        PROVE  UNCHANGED <<config, phase, next, observations>>
    BY <1>1, <2>5 DEF Next, Gap, Arrive, Passes, vars
  <2>6. QED
    BY <2>3, <2>4, <2>5
<1>2. QED
  BY <1>1, RoundInvariant, PrintingAlways, PTL DEF Spec, RoundsShorten

(* A bridge never ends at the look-up of a connector.                      *)
THEOREM LookupsSucceed == Spec => []LookupSucceeds
<1>1. Init => Connected
  BY DEF Init, Connected
<1>2. Connected /\ [Next]_vars => Connected'
  <2> SUFFICES ASSUME Connected, [Next]_vars PROVE Connected'
    OBVIOUS
  <2>1. Providers' = Providers
    BY DEF Next, vars, world, Bridge, Start, Refuse, FetchFails, FetchNothing, FetchPoints,
       Observe, EmitOne, EmitLast, EmitFails, Wake, Gap, Arrive, Passes, Providers, Count
  <2>2. CASE Start \/ Refuse
    BY <2>1, <2>2 DEF Start, Refuse, Connected
  <2>3. CASE FetchFails \/ FetchNothing \/ FetchPoints
    BY <2>1, <2>3 DEF FetchFails, FetchNothing, FetchPoints, Polls, Observe, Connected
  <2>4. CASE EmitOne \/ EmitLast \/ EmitFails \/ Wake
    BY <2>1, <2>4 DEF EmitOne, EmitLast, EmitFails, Wake, Connected
  <2>5. CASE Gap \/ (\E value \in Values : Arrive(value)) \/ UNCHANGED vars
    BY <2>1, <2>5 DEF Gap, Arrive, Passes, vars, Connected
  <2>6. QED
    BY <2>2, <2>3, <2>4, <2>5 DEF Next, Bridge
<1>3. RInv /\ Connected => LookupSucceeds
  BY DEF RInv, RoundSound, Connected, LookupSucceeds, Polls, Providers, Metric
<1>4. QED
  BY <1>1, <1>2, <1>3, RoundInvariant, PTL DEF Spec

-----------------------------------------------------------------------------
(* The routing replay.  What the probe files hold, and a table in order of *)
(* time.                                                                   *)
LinesInv ==
  /\ input \in Seq(Range(input))
  /\ \A r \in Range(input) \ {Damaged} : r.ts \in Int

Ordered(table) ==
  /\ \E S : table \in Seq(S)
  /\ \A i \in DOMAIN table : table[i].ts \in Int
  /\ \A i, j \in DOMAIN table : i <= j => table[i].ts <= table[j].ts

Placing == [i \in Mine |-> Place(i)]

Earlier(i) == {j \in Mine : Before(j, i)}

(* The places of the samples are theirs alone, in order of time, and none  *)
(* is left empty.                                                          *)
LEMMA MineIsTimed ==
  ASSUME LinesInv, Damaged \notin Range(input)
  PROVE  /\ Mine \in SUBSET Nat /\ IsFiniteSet(Mine) /\ Cardinality(Mine) \in Nat
         /\ \A i \in Mine : input[i].ts \in Int
<1>1. DOMAIN input = 1 .. Len(input) /\ Len(input) \in Nat
  BY DEF LinesInv
<1>2. Mine \in SUBSET (1 .. Len(input))
  BY <1>1 DEF Mine
<1>3. IsFiniteSet(1 .. Len(input))
  BY <1>1, FS_Interval
<1>4. IsFiniteSet(Mine)
  BY <1>2, <1>3, FS_Subset
<1>5. \A i \in Mine : input[i] \in Range(input) \ {Damaged}
  BY <1>1, <1>2 DEF Range
<1>6. QED
  BY <1>2, <1>4, <1>5, FS_CardinalityType DEF LinesInv

LEMMA EarlierIsFewer ==
  ASSUME LinesInv, Damaged \notin Range(input), NEW i \in Mine
  PROVE  /\ IsFiniteSet(Earlier(i)) /\ Cardinality(Earlier(i)) \in Nat
         /\ Place(i) = Cardinality(Earlier(i)) + 1
         /\ Place(i) \in 1 .. Cardinality(Mine)
<1>1. Earlier(i) \in SUBSET (Mine \ {i})
  BY MineIsTimed DEF Earlier, Before
<1>2. IsFiniteSet(Mine) /\ Cardinality(Mine) \in Nat
  BY MineIsTimed
<1>3. IsFiniteSet(Mine \ {i}) /\ Cardinality(Mine \ {i}) = Cardinality(Mine) - 1
  BY <1>2, FS_RemoveElement
<1>4. IsFiniteSet(Earlier(i)) /\ Cardinality(Earlier(i)) <= Cardinality(Mine) - 1
  BY <1>1, <1>3, FS_Subset
<1>5. Cardinality(Earlier(i)) \in Nat
  BY <1>4, FS_CardinalityType
<1>6. Place(i) = Cardinality(Earlier(i)) + 1
  BY DEF Place, Earlier
<1>7. QED
  BY <1>2, <1>4, <1>5, <1>6

LEMMA PlacesInOrder ==
  ASSUME LinesInv, Damaged \notin Range(input), NEW i \in Mine, NEW j \in Mine, Before(i, j)
  PROVE  Place(i) < Place(j)
<1>1. input[i].ts \in Int /\ input[j].ts \in Int /\ i \in Nat /\ j \in Nat
  BY MineIsTimed
<1>2. ASSUME NEW k \in Earlier(i)
      PROVE  k \in Earlier(j)
  <2>1. k \in Mine /\ Before(k, i) /\ input[k].ts \in Int /\ k \in Nat
    BY MineIsTimed DEF Earlier
  <2>2. QED
    BY <1>1, <2>1 DEF Earlier, Before
<1>3. i \in Earlier(j) /\ i \notin Earlier(i)
  BY <1>1 DEF Earlier, Before
<1>4. Earlier(i) \cup {i} \in SUBSET Earlier(j)
  BY <1>2, <1>3
<1>5. IsFiniteSet(Earlier(i)) /\ IsFiniteSet(Earlier(j))
  BY EarlierIsFewer
<1>6. Cardinality(Earlier(i) \cup {i}) = Cardinality(Earlier(i)) + 1
  BY <1>3, <1>5, FS_AddElement
<1>7. Cardinality(Earlier(i) \cup {i}) <= Cardinality(Earlier(j))
  BY <1>4, <1>5, FS_Subset
<1>8. Cardinality(Earlier(i)) \in Nat /\ Cardinality(Earlier(j)) \in Nat
  BY EarlierIsFewer
<1>9. Place(i) = Cardinality(Earlier(i)) + 1 /\ Place(j) = Cardinality(Earlier(j)) + 1
  BY EarlierIsFewer
<1>10. QED
  BY <1>6, <1>7, <1>8, <1>9

LEMMA PlacesAreFilled ==
  ASSUME LinesInv, Damaged \notin Range(input), NEW k \in 1 .. Cardinality(Mine)
  PROVE  \E i \in Mine : Place(i) = k
<1> DEFINE n == Cardinality(Mine)
<1>1. n \in Nat /\ IsFiniteSet(Mine)
  BY MineIsTimed
<1>2. IsFiniteSet(1 .. n) /\ Cardinality(1 .. n) = n
  BY <1>1, FS_Interval
<1>3. Placing \in [Mine -> 1 .. n]
  BY EarlierIsFewer DEF Placing
<1>4. \A i, j \in Mine : i # j => Before(i, j) \/ Before(j, i)
  BY MineIsTimed DEF Before
<1>5. \A i, j \in Mine : Place(i) = Place(j) => i = j
  <2>1. \A i \in Mine : Place(i) \in 1 .. n
    BY EarlierIsFewer
  <2>2. \A i, j \in Mine : Before(i, j) => Place(i) < Place(j)
    BY PlacesInOrder
  <2>3. QED
    BY <1>1, <1>4, <2>1, <2>2
<1>6. Placing \in Injection(Mine, 1 .. n)
  BY <1>3, <1>5 DEF Injection, IsInjective, Placing
<1>7. Placing \in Surjection(Mine, 1 .. n)
  BY <1>1, <1>2, <1>6, FS_Injection
<1>8. QED
  BY <1>7 DEF Surjection, Placing

LEMMA SeriesIsOrdered ==
  ASSUME LinesInv, Damaged \notin Range(input)
  PROVE  Ordered(Series)
<1> DEFINE n == Cardinality(Mine)
           From(k) == CHOOSE i \in Mine : Place(i) = k
<1>1. n \in Nat
  BY MineIsTimed
<1>2. \A k \in 1 .. n : From(k) \in Mine /\ Place(From(k)) = k
  BY PlacesAreFilled
<1>3. Series = [k \in 1 .. n |-> input[From(k)]]
  BY DEF Series
<1> HIDE DEF From, n
<1>4. ASSUME NEW j \in 1 .. n, NEW k \in 1 .. n, j <= k
      PROVE  Series[j].ts <= Series[k].ts
  <2>1. From(j) \in Mine /\ From(k) \in Mine /\ Place(From(j)) = j /\ Place(From(k)) = k
    BY <1>2
  <2>2. ~Before(From(k), From(j))
    <3>1. Before(From(k), From(j)) => k < j
      BY <2>1, PlacesInOrder
    <3>2. QED
      BY <3>1, <1>4, <1>1
  <2>3. input[From(j)].ts \in Int /\ input[From(k)].ts \in Int
    BY <2>1, MineIsTimed
  <2>4. input[From(j)].ts <= input[From(k)].ts
    BY <2>2, <2>3 DEF Before
  <2>5. QED
    BY <1>3, <2>4
<1>5. Series \in Seq(Range(input)) /\ DOMAIN Series = 1 .. n
  <2>1. \A k \in 1 .. n : input[From(k)] \in Range(input)
    <3>1. Mine \subseteq DOMAIN input
      BY DEF Mine
    <3>2. QED
      BY <1>2, <3>1 DEF Range
  <2>2. QED
    BY <1>1, <1>3, <2>1
<1>6. \A k \in 1 .. n : Series[k].ts \in Int
  BY <1>2, <1>3, MineIsTimed
<1>7. QED
  BY <1>4, <1>5, <1>6 DEF Ordered

(* The lead of a table in order of time has the sign of its first routes.  *)
TellsOrder(text) ==
  \A lead \in text.lead, s \in text.structural_first, t \in text.timeout_first :
    /\ lead > 0 => s < t
    /\ lead < 0 => t < s

LEMMA OrderedTellsOrder ==
  ASSUME NEW table, Ordered(table)
  PROVE  TellsOrder(SummaryOf(table))
<1> DEFINE Structs == FirstRoute(table, "structural")
           Times == FirstRoute(table, "timeout")
<1>1. PICK S : table \in Seq(S)
  BY DEF Ordered
<1>2. DOMAIN table \in SUBSET Nat
  BY <1>1
<1>3. /\ Structs \subseteq DOMAIN table /\ \A i, j \in Structs : i = j
      /\ Times \subseteq DOMAIN table /\ \A i, j \in Times : i = j
  BY <1>2 DEF FirstRoute, Routed
<1>4. /\ SummaryOf(table).structural_first = Structs
      /\ SummaryOf(table).timeout_first = Times
      /\ SummaryOf(table).lead = {table[t].ts - table[s].ts : s \in Structs, t \in Times}
  BY DEF SummaryOf, LeadOverTimeout
<1> HIDE DEF Structs, Times
<1>5. ASSUME NEW lead \in SummaryOf(table).lead, NEW s \in Structs, NEW t \in Times
      PROVE  (lead > 0 => s < t) /\ (lead < 0 => t < s)
  <2>1. PICK s1 \in Structs, t1 \in Times : lead = table[t1].ts - table[s1].ts
    BY <1>4
  <2>2. lead = table[t].ts - table[s].ts
    BY <1>3, <2>1
  <2>3. s \in Nat /\ t \in Nat /\ s \in DOMAIN table /\ t \in DOMAIN table
    BY <1>2, <1>3
  <2>4. table[s].ts \in Int /\ table[t].ts \in Int
    BY <2>3 DEF Ordered
  <2>5. /\ t <= s => table[t].ts <= table[s].ts
        /\ s <= t => table[s].ts <= table[t].ts
    BY <2>3 DEF Ordered
  <2>6. QED
    BY <2>2, <2>3, <2>4, <2>5
<1>6. QED
  BY <1>4, <1>5 DEF TellsOrder

-----------------------------------------------------------------------------
(* The rows follow the samples, and every summary was made of such rows.   *)
RowsInv ==
  /\ Ordered(samples)
  /\ \E S : rows \in Seq(S)
  /\ Len(rows) <= Len(samples)
  /\ \A i \in 1 .. Len(rows) : rows[i].ts = samples[i].ts

(* Which run the rows and the summary on disk are of.                      *)
ReportInv ==
  /\ run \in Nat /\ csv.run \in Nat /\ summary.run \in Nat
  /\ csv.run <= run /\ summary.run <= csv.run
  /\ csv = [run |-> csv.run, rows |-> csv.rows]
  /\ stage = "load" => rows = << >>
  /\ stage \in {"load", "replay"} => csv.run < run
  /\ stage = "csv" => csv.run = run /\ summary.run < run
  /\ stage = "summary" => csv = [run |-> run, rows |-> rows]
  /\ SummaryNeverAhead
  /\ TellsOrder(summary.text)

SummaryInv == LinesInv /\ RowsInv /\ ReportInv

LEMMA RowsAreOrdered ==
  ASSUME RowsInv
  PROVE  Ordered(rows)
<1>1. PICK S, R : rows \in Seq(S) /\ samples \in Seq(R)
  BY DEF RowsInv, Ordered
<1>2. /\ DOMAIN rows = 1 .. Len(rows) /\ Len(rows) \in Nat
      /\ DOMAIN samples = 1 .. Len(samples) /\ Len(samples) \in Nat
  BY <1>1
<1>3. \A i \in DOMAIN rows : i \in DOMAIN samples /\ rows[i].ts = samples[i].ts
  BY <1>2 DEF RowsInv
<1>4. \A i \in DOMAIN rows : rows[i].ts \in Int
  BY <1>3 DEF RowsInv, Ordered
<1>5. \A i, j \in DOMAIN rows : i <= j => rows[i].ts <= rows[j].ts
  BY <1>3 DEF RowsInv, Ordered
<1>6. QED
  BY <1>1, <1>4, <1>5 DEF Ordered

LEMMA NothingIsOrdered == Ordered(<< >>)
<1>1. << >> \in Seq({}) /\ DOMAIN << >> = {}
  OBVIOUS
<1>2. QED
  BY <1>1 DEF Ordered

LEMMA SummaryStarts == HistoryInit => SummaryInv
<1> SUFFICES ASSUME HistoryInit PROVE SummaryInv
  OBVIOUS
<1>1. /\ input \in Inputs /\ run = 1 /\ stage = "load" /\ samples = << >> /\ rows = << >>
      /\ csv = [run |-> 0, rows |-> << >>]
      /\ summary = [run |-> 0, whole |-> FALSE, text |-> SummaryOf(<< >>)]
  BY DEF HistoryInit, ReplayInit, NoFile, Cut
<1>2. LinesInv
  BY <1>1, LinesAssumption DEF LinesInv
<1>3. RowsInv
  BY <1>1, NothingIsOrdered DEF RowsInv, Ordered
<1>4. csv.run = 0 /\ csv.rows = << >> /\ summary.run = 0 /\ ~summary.whole
      /\ summary.text = SummaryOf(<< >>)
  BY <1>1
<1>5. ReportInv
  BY <1>1, <1>4, NothingIsOrdered, OrderedTellsOrder DEF ReportInv, SummaryNeverAhead
<1>6. QED
  BY <1>2, <1>3, <1>5 DEF SummaryInv

LEMMA OfItsRange ==
  ASSUME NEW S, NEW s \in Seq(S)
  PROVE  Range(s) \subseteq S /\ s \in Seq(Range(s))
<1>1. DOMAIN s = 1 .. Len(s) /\ Len(s) \in Nat /\ \A i \in 1 .. Len(s) : s[i] \in S
  OBVIOUS
<1>2. Range(s) \subseteq S /\ \A i \in 1 .. Len(s) : s[i] \in Range(s)
  BY <1>1 DEF Range
<1>3. s = [i \in 1 .. Len(s) |-> s[i]]
  BY <1>1
<1>4. s \in [1 .. Len(s) -> Range(s)]
  BY <1>2, <1>3
<1>5. QED
  BY <1>1, <1>2, <1>4

(* The files only grow, by lines of the same kind.                         *)
LEMMA LinesStep ==
  ASSUME LinesInv, NEW more \in Growth, input' = input \o more
  PROVE  LinesInv'
<1>1. more \in Seq(Range(more)) /\ \A r \in Range(more) \ {Damaged} : r.ts \in Int
  BY LinesAssumption
<1> DEFINE All == Range(input) \cup Range(more)
<1>2. input \in Seq(All) /\ more \in Seq(All)
  BY <1>1 DEF LinesInv
<1> HIDE DEF All
<1>3. input' \in Seq(All)
  BY <1>2
<1>4. Range(input') \subseteq All /\ input' \in Seq(Range(input'))
  BY <1>3, OfItsRange
<1>5. \A r \in All \ {Damaged} : r.ts \in Int
  BY <1>1 DEF LinesInv, All
<1>6. \A r \in Range(input') \ {Damaged} : r.ts \in Int
  BY <1>4, <1>5
<1>7. QED
  BY <1>4, <1>6 DEF LinesInv

(* A sample is replayed by adding a row of its time.                       *)
LEMMA RowStep ==
  ASSUME RowsInv, NEW row, row.ts = samples[Len(rows) + 1].ts,
         Len(rows) < Len(samples), rows' = Append(rows, row), samples' = samples
  PROVE  RowsInv'
<1>1. PICK S : rows \in Seq(S)
  BY DEF RowsInv
<1> DEFINE All == S \cup {row}
<1>2. rows \in Seq(All) /\ row \in All
  BY <1>1
<1> HIDE DEF All
<1>3. PICK n \in Nat : n = Len(rows)
  BY <1>2
<1>4. rows' \in Seq(All) /\ Len(rows') = n + 1 /\ rows'[n + 1] = row
      /\ \A i \in 1 .. n : rows'[i] = rows[i]
  BY <1>2, <1>3
<1>5. PICK R : samples \in Seq(R)
  BY DEF RowsInv, Ordered
<1>6. Len(samples) \in Nat
  BY <1>5
<1>7. \A i \in 1 .. Len(rows') : rows'[i].ts = samples[i].ts
  BY <1>3, <1>4 DEF RowsInv
<1>8. QED
  BY <1>3, <1>4, <1>6, <1>7 DEF RowsInv, Ordered

(* Nothing else touches the rows and the samples.                          *)
LEMMA SampleKeeps ==
  ASSUME SummaryInv, WarmupSample \/ ReplaySample
  PROVE  SummaryInv'
<1>1. /\ stage = "replay" /\ Len(rows) < Len(samples)
      /\ UNCHANGED <<input, run, stage, samples, artifacts>>
      /\ \E row : row.ts = samples[Len(rows) + 1].ts /\ rows' = Append(rows, row)
  BY DEF WarmupSample, ReplaySample, Row, Current
<1>2. RowsInv'
  BY <1>1, RowStep DEF SummaryInv
<1>3. LinesInv'
  BY <1>1 DEF SummaryInv, LinesInv
<1>4. ReportInv'
  BY <1>1 DEF SummaryInv, ReportInv, SummaryNeverAhead, artifacts
<1>5. QED
  BY <1>2, <1>3, <1>4 DEF SummaryInv

LEMMA LoadKeeps ==
  ASSUME SummaryInv, Load
  PROVE  SummaryInv'
<1>1. LinesInv'
  BY DEF Load, SummaryInv, LinesInv
<1>2. ReportInv'
  BY DEF Load, SummaryInv, ReportInv, SummaryNeverAhead, artifacts
<1>3. Ordered(samples')
  BY SeriesIsOrdered DEF Load, SummaryInv
<1>4. PICK R : samples' \in Seq(R)
  BY <1>3 DEF Ordered
<1>5. rows' = << >> /\ << >> \in Seq({}) /\ Len(<< >>) = 0
  BY DEF Load, SummaryInv, ReportInv
<1>6. Len(samples') \in Nat
  BY <1>4
<1>7. RowsInv'
  BY <1>3, <1>5, <1>6 DEF RowsInv, Ordered
<1>8. QED
  BY <1>1, <1>2, <1>7 DEF SummaryInv

LEMMA OpenCsvKeeps ==
  ASSUME SummaryInv, OpenCsv
  PROVE  SummaryInv'
<1>1. /\ stage = "replay" /\ stage' = "csv"
      /\ csv' = [run |-> run, rows |-> << >>]
      /\ UNCHANGED <<input, run, samples, rows, summary>>
  BY DEF OpenCsv
<1>2. csv'.run = run /\ csv'.rows = << >>
  BY <1>1
<1>3. LinesInv' /\ RowsInv'
  BY <1>1 DEF SummaryInv, LinesInv, RowsInv, Ordered
<1>4. ReportInv'
  BY <1>1, <1>2 DEF SummaryInv, ReportInv, SummaryNeverAhead
<1>5. QED
  BY <1>3, <1>4 DEF SummaryInv

LEMMA WriteRowKeeps ==
  ASSUME SummaryInv, WriteRow
  PROVE  SummaryInv'
<1>1. /\ stage = "csv" /\ UNCHANGED <<input, run, stage, samples, rows, summary>>
      /\ csv' = [csv EXCEPT !.rows = Append(@, rows[Len(@) + 1])]
  BY DEF WriteRow
<1>2. csv = [run |-> csv.run, rows |-> csv.rows]
  BY DEF SummaryInv, ReportInv
<1>3. PICK table : csv' = [run |-> csv.run, rows |-> table]
  BY <1>1, <1>2
<1>4. csv'.run = csv.run /\ csv' = [run |-> csv'.run, rows |-> csv'.rows]
  BY <1>3
<1>5. LinesInv' /\ RowsInv'
  BY <1>1 DEF SummaryInv, LinesInv, RowsInv, Ordered
<1>6. ReportInv'
  BY <1>1, <1>4 DEF SummaryInv, ReportInv, SummaryNeverAhead
<1>7. QED
  BY <1>5, <1>6 DEF SummaryInv

LEMMA OpenSummaryKeeps ==
  ASSUME SummaryInv, OpenSummary
  PROVE  SummaryInv'
<1>1. /\ stage = "csv" /\ stage' = "summary" /\ csv.rows = rows
      /\ summary' = [run |-> run, whole |-> FALSE, text |-> SummaryOf(<< >>)]
      /\ UNCHANGED <<input, run, samples, rows, csv>>
  BY DEF OpenSummary, Cut
<1>2. summary'.run = run /\ ~summary'.whole /\ summary'.text = SummaryOf(<< >>)
  BY <1>1
<1>3. LinesInv' /\ RowsInv'
  BY <1>1 DEF SummaryInv, LinesInv, RowsInv, Ordered
<1>4. TellsOrder(summary'.text)
  BY <1>2, NothingIsOrdered, OrderedTellsOrder
<1>5. csv = [run |-> run, rows |-> rows]
  BY <1>1 DEF SummaryInv, ReportInv
<1>6. ReportInv'
  BY <1>1, <1>2, <1>4, <1>5 DEF SummaryInv, ReportInv, SummaryNeverAhead
<1>7. QED
  BY <1>3, <1>6 DEF SummaryInv

LEMMA WriteSummaryKeeps ==
  ASSUME SummaryInv, WriteSummary
  PROVE  SummaryInv'
<1>1. /\ stage = "summary" /\ stage' = "ended"
      /\ summary' = [run |-> run, whole |-> TRUE, text |-> SummaryOf(rows)]
      /\ UNCHANGED <<input, run, samples, rows, csv>>
  BY DEF WriteSummary, Whole
<1>2. summary'.run = run /\ summary'.text = SummaryOf(rows)
  BY <1>1
<1>3. LinesInv' /\ RowsInv'
  BY <1>1 DEF SummaryInv, LinesInv, RowsInv, Ordered
<1>4. TellsOrder(summary'.text)
  BY <1>2, RowsAreOrdered, OrderedTellsOrder DEF SummaryInv
<1>5. csv = [run |-> run, rows |-> rows] /\ csv.run = run /\ csv.rows = rows
  BY <1>1 DEF SummaryInv, ReportInv
<1>6. SummaryNeverAhead'
  BY <1>1, <1>2, <1>5 DEF SummaryInv, ReportInv, SummaryNeverAhead
<1>7. ReportInv'
  BY <1>1, <1>2, <1>4, <1>5, <1>6 DEF SummaryInv, ReportInv
<1>8. QED
  BY <1>3, <1>7 DEF SummaryInv

LEMMA RerunKeeps ==
  ASSUME SummaryInv, Rerun
  PROVE  SummaryInv'
<1>1. /\ run' = run + 1 /\ stage' = "load" /\ samples' = << >> /\ rows' = << >>
      /\ UNCHANGED <<csv, summary>>
      /\ \E more \in Growth : input' = input \o more
  BY DEF Rerun, artifacts
<1>2. LinesInv'
  BY <1>1, LinesStep DEF SummaryInv
<1>3. RowsInv'
  BY <1>1, NothingIsOrdered DEF RowsInv, Ordered
<1>4. ReportInv'
  BY <1>1 DEF SummaryInv, ReportInv, SummaryNeverAhead
<1>5. QED
  BY <1>2, <1>3, <1>4 DEF SummaryInv

LEMMA SummaryAlways == HistorySpec => []SummaryInv
<1>1. SummaryInv /\ [HistoryNext]_historyVars => SummaryInv'
  <2> SUFFICES ASSUME SummaryInv, [HistoryNext]_historyVars
               PROVE  SummaryInv'
    OBVIOUS
  <2>1. CASE UNCHANGED historyVars
    BY <2>1 DEF historyVars, replayVars, artifacts, SummaryInv, LinesInv, RowsInv, Ordered,
       ReportInv, SummaryNeverAhead
  <2>2. CASE LoadFails \/ Crash
    <3>1. stage' = "ended" /\ UNCHANGED <<input, run, samples, rows, csv, summary>>
      BY <2>2 DEF LoadFails, Crash, artifacts
    <3>2. LinesInv' /\ RowsInv'
      BY <3>1 DEF SummaryInv, LinesInv, RowsInv, Ordered
    <3>3. ReportInv'
      BY <3>1 DEF SummaryInv, ReportInv, SummaryNeverAhead
    <3>4. QED
      BY <3>2, <3>3 DEF SummaryInv
  <2>3. QED
    BY <2>1, <2>2, LoadKeeps, SampleKeeps, OpenCsvKeeps, WriteRowKeeps, OpenSummaryKeeps,
       WriteSummaryKeeps, RerunKeeps DEF HistoryNext, Replay
<1>2. QED
  BY <1>1, SummaryStarts, PTL DEF HistorySpec

(* For files of any lines and lengths, grown between any number of runs    *)
(* that die anywhere, a whole summary on disk tells of the rows beside it  *)
(* or of an older run, and its lead has the sign of the first routes.      *)
THEOREM SummariesTellTheRows == HistorySpec => []SummaryTellsTheRows
<1>1. SummaryInv => SummaryTellsTheRows
  BY DEF SummaryInv, ReportInv, TellsOrder, SummaryTellsTheRows, LeadMeansEarlierRow
<1>2. QED
  BY <1>1, SummaryAlways, PTL

-----------------------------------------------------------------------------
(* Decisions are a function of the samples.  What the two policies hold    *)
(* between two samples, and the policies with a memory m.                  *)
StructuralMemory ==
  [config |-> s_config, hazard |-> s_hazard_history, rupture |-> s_rupture_history,
   signals |-> s_consecutive_signals, cooldown |-> s_cooldown_remaining,
   streak |-> s_recovery_streak, away |-> s_on_fallback, decision |-> s_decision]

TimeoutMemory ==
  [config |-> t_config, cooldown |-> t_cooldown_remaining, streak |-> t_recovery_streak,
   away |-> t_on_fallback, decision |-> t_decision]

StructuralOf(m) == INSTANCE StructuralRouting WITH
  Configs <- StructuralConfigs, config <- m.config,
  hazard_history <- m.hazard, rupture_history <- m.rupture,
  consecutive_signals <- m.signals, cooldown_remaining <- m.cooldown,
  recovery_streak <- m.streak, on_fallback <- m.away, decision <- m.decision

TimeoutOf(m) == INSTANCE TimeoutRouting WITH
  Configs <- TimeoutConfigs, config <- m.config, cooldown_remaining <- m.cooldown,
  recovery_streak <- m.streak, on_fallback <- m.away, decision <- m.decision

(* The memory after a window, and after a sample.                          *)
Concluded(m, w, cooldown, streak, away, action, target) ==
  [config |-> m.config,
   hazard |-> StructuralOf(m)!Remember(m.hazard, w.hazard),
   rupture |-> StructuralOf(m)!Remember(m.rupture, w.rupture),
   signals |-> StructuralOf(m)!SignalsAfter(w), cooldown |-> cooldown,
   streak |-> streak, away |-> away,
   decision |-> [action |-> action, selected_target |-> target, window |-> w]]

StructuralAfter(m, w) ==
  IF m.away
  THEN IF StructuralOf(m)!MayReturn(w)
       THEN Concluded(m, w, StructuralOf(m)!CooldownAfter(w), StructuralOf(m)!StreakAfter(w), FALSE,
                      "PRIMARY", StructuralOf(m)!primary_target)
       ELSE Concluded(m, w, StructuralOf(m)!CooldownAfter(w), StructuralOf(m)!StreakAfter(w),
                      m.away, "ROUTE_FALLBACK",
                      IF StructuralOf(m)!fallback_target # NoTarget
                      THEN StructuralOf(m)!fallback_target
                      ELSE StructuralOf(m)!primary_target)
  ELSE IF StructuralOf(m)!Trigger(w) /\ StructuralOf(m)!fallback_target # NoTarget
       THEN Concluded(m, w, m.config.cooldown_windows, 0, TRUE,
                      "ROUTE_FALLBACK", StructuralOf(m)!fallback_target)
       ELSE Concluded(m, w, StructuralOf(m)!CooledDown, m.streak, m.away,
                      IF StructuralOf(m)!Trigger(w) \/ StructuralOf(m)!observe_condition(w)
                      THEN "OBSERVE" ELSE "PRIMARY",
                      StructuralOf(m)!primary_target)

Decided(m, cooldown, streak, away, action, target) ==
  [config |-> m.config, cooldown |-> cooldown, streak |-> streak, away |-> away,
   decision |-> [action |-> action, selected_target |-> target]]

TimeoutAfter(m, x) ==
  IF m.away
  THEN IF TimeoutOf(m)!trigger(x)
       THEN Decided(m, m.config.cooldown_points, 0, m.away,
                    "ROUTE_FALLBACK", TimeoutOf(m)!HoldTarget)
       ELSE IF TimeoutOf(m)!MayReturn(x)
       THEN Decided(m, TimeoutOf(m)!CooledDown, TimeoutOf(m)!StreakAfter(x), FALSE,
                    "PRIMARY", TimeoutOf(m)!primary_target)
       ELSE Decided(m, TimeoutOf(m)!CooledDown, TimeoutOf(m)!StreakAfter(x), m.away,
                    "ROUTE_FALLBACK", TimeoutOf(m)!HoldTarget)
  ELSE IF TimeoutOf(m)!trigger(x) /\ TimeoutOf(m)!fallback_target # NoTarget
       THEN Decided(m, m.config.cooldown_points, m.streak, TRUE,
                    "ROUTE_FALLBACK", TimeoutOf(m)!fallback_target)
       ELSE Decided(m, TimeoutOf(m)!CooledDown, m.streak, m.away,
                    "PRIMARY", TimeoutOf(m)!primary_target)

(* A policy with the memory of the present is the present policy.          *)
LEMMA SameRank ==
  ASSUME NEW m, NEW history, NEW k
  PROVE  StructuralOf(m)!Ranked(history, k) = Structural!Ranked(history, k)
<1>1. \A S : StructuralOf(m)!Cardinality(S) = Structural!Cardinality(S)
  BY Zenon DEF StructuralOf!Cardinality, Structural!Cardinality
<1>2. QED
  BY <1>1, Zenon DEF StructuralOf!Ranked, Structural!Ranked

LEMMA SameDelta ==
  ASSUME NEW m, NEW value, NEW history
  PROVE  StructuralOf(m)!DoubleDelta(value, history) = Structural!DoubleDelta(value, history)
<1>1. StructuralOf(m)!DoubleMedian(history) = Structural!DoubleMedian(history)
  BY SameRank, Zenon DEF StructuralOf!DoubleMedian, Structural!DoubleMedian
<1>2. QED
  BY <1>1 DEF StructuralOf!DoubleDelta, Structural!DoubleDelta

LEMMA SameFallback ==
  ASSUME NEW m, NEW topology, NEW current
  PROVE  StructuralOf(m)!FallbackTargetFor(topology, current)
           = Structural!FallbackTargetFor(topology, current)
<1>1. StructuralOf(m)!StartIndex(topology, current) = Structural!StartIndex(topology, current)
  BY Zenon DEF StructuralOf!StartIndex, Structural!StartIndex, StructuralOf!Listed,
     Structural!Listed, StructuralOf!FirstIndex, Structural!FirstIndex
<1>2. \A p, i, o : StructuralOf(m)!Following(p, i, o) = Structural!Following(p, i, o)
  BY Zenon DEF StructuralOf!Following, Structural!Following
<1>3. StructuralOf(m)!FallbackOffsets(topology, current)
        = Structural!FallbackOffsets(topology, current)
  BY <1>1, <1>2, Zenon DEF StructuralOf!FallbackOffsets, Structural!FallbackOffsets
<1>4. QED
  BY <1>1, <1>2, <1>3, Zenon DEF StructuralOf!FallbackTargetFor, Structural!FallbackTargetFor

LEMMA SameScore ==
  ASSUME NEW m, NEW w, m = StructuralMemory
  PROVE  /\ StructuralOf(m)!hazard_delta(w) = Structural!hazard_delta(w)
         /\ StructuralOf(m)!rupture_delta(w) = Structural!rupture_delta(w)
         /\ StructuralOf(m)!Score(w) = Structural!Score(w)
<1>1. m.config = s_config /\ m.hazard = s_hazard_history /\ m.rupture = s_rupture_history
  BY DEF StructuralMemory
<1>2. StructuralOf(m)!Biases(w) = Structural!Biases(w)
  BY <1>1, Zenon DEF StructuralOf!Biases, Structural!Biases,
     StructuralOf!SignatureValue, Structural!SignatureValue
<1>3. /\ StructuralOf(m)!hazard_delta(w) = Structural!hazard_delta(w)
      /\ StructuralOf(m)!rupture_delta(w) = Structural!rupture_delta(w)
  BY <1>1, SameDelta DEF StructuralOf!hazard_delta, Structural!hazard_delta,
     StructuralOf!rupture_delta, Structural!rupture_delta
<1>4. QED
  BY <1>1, <1>2, <1>3 DEF StructuralOf!Score, Structural!Score, StructuralOf!NonNegative,
     Structural!NonNegative, StructuralOf!ScoreScale, Structural!ScoreScale

LEMMA SamePolicy ==
  ASSUME NEW m, NEW w, m = StructuralMemory
  PROVE  /\ StructuralOf(m)!SignalsAfter(w) = Structural!SignalsAfter(w)
         /\ StructuralOf(m)!CooledDown = Structural!CooledDown
         /\ StructuralOf(m)!CooldownAfter(w) = Structural!CooldownAfter(w)
         /\ StructuralOf(m)!StreakAfter(w) = Structural!StreakAfter(w)
         /\ StructuralOf(m)!Trigger(w) <=> Structural!Trigger(w)
         /\ StructuralOf(m)!observe_condition(w) <=> Structural!observe_condition(w)
         /\ StructuralOf(m)!MayReturn(w) <=> Structural!MayReturn(w)
<1>1. /\ m.config = s_config /\ m.signals = s_consecutive_signals
      /\ m.cooldown = s_cooldown_remaining /\ m.streak = s_recovery_streak
  BY DEF StructuralMemory
<1>2. StructuralOf(m)!signal_detected(w) <=> Structural!signal_detected(w)
  BY <1>1, SameScore, Zenon DEF StructuralOf!signal_detected, Structural!signal_detected
<1>3. StructuralOf(m)!InRecoveryBand(w) <=> Structural!InRecoveryBand(w)
  BY <1>1, Zenon DEF StructuralOf!InRecoveryBand, Structural!InRecoveryBand
<1>4. StructuralOf(m)!SignalsAfter(w) = Structural!SignalsAfter(w)
  BY <1>1, <1>2, <1>3 DEF StructuralOf!SignalsAfter, Structural!SignalsAfter
<1>5. StructuralOf(m)!CooledDown = Structural!CooledDown
  BY <1>1 DEF StructuralOf!CooledDown, Structural!CooledDown
<1>6. StructuralOf(m)!Trigger(w) <=> Structural!Trigger(w)
  BY <1>1, <1>4, <1>5, SameScore, Zenon DEF StructuralOf!Trigger, Structural!Trigger,
     StructuralOf!emergency, Structural!emergency, StructuralOf!route_condition,
     Structural!route_condition, StructuralOf!ScoreScale, Structural!ScoreScale
<1>7. StructuralOf(m)!observe_condition(w) <=> Structural!observe_condition(w)
  BY <1>1, <1>2, SameScore, Zenon DEF StructuralOf!observe_condition,
     Structural!observe_condition, StructuralOf!ScoreScale, Structural!ScoreScale
<1>8. /\ StructuralOf(m)!CooldownAfter(w) = Structural!CooldownAfter(w)
      /\ StructuralOf(m)!StreakAfter(w) = Structural!StreakAfter(w)
  BY <1>1, <1>3, <1>5, <1>6 DEF StructuralOf!CooldownAfter, Structural!CooldownAfter,
     StructuralOf!StreakAfter, Structural!StreakAfter
<1>9. StructuralOf(m)!MayReturn(w) <=> Structural!MayReturn(w)
  BY <1>1, <1>7, <1>8, Zenon DEF StructuralOf!MayReturn, Structural!MayReturn
<1>10. QED
  BY <1>4, <1>5, <1>6, <1>7, <1>8, <1>9

LEMMA SameTargets ==
  ASSUME NEW m, m = StructuralMemory
  PROVE  /\ StructuralOf(m)!primary_target = Structural!primary_target
         /\ StructuralOf(m)!fallback_target = Structural!fallback_target
         /\ \A h, v : StructuralOf(m)!Remember(h, v) = Structural!Remember(h, v)
<1>1. m.config = s_config
  BY DEF StructuralMemory
<1>2. StructuralOf(m)!primary_target = Structural!primary_target
  BY <1>1 DEF StructuralOf!primary_target, Structural!primary_target,
     StructuralOf!PrimaryTarget, Structural!PrimaryTarget
<1>3. StructuralOf(m)!fallback_target = Structural!fallback_target
  BY <1>1, <1>2, SameFallback DEF StructuralOf!fallback_target, Structural!fallback_target
<1>4. \A h, v : StructuralOf(m)!Remember(h, v) = Structural!Remember(h, v)
  BY <1>1, Zenon DEF StructuralOf!Remember, Structural!Remember
<1>5. QED
  BY <1>2, <1>3, <1>4

(* evaluate of the structural policy leaves nothing open.                  *)
LEMMA StructuralIsFunction ==
  ASSUME NEW w, Structural!evaluate(w)
  PROVE  StructuralMemory' = StructuralAfter(StructuralMemory, w)
<1>1. PICK m : m = StructuralMemory
  OBVIOUS
<1>2. /\ m.config = s_config /\ m.hazard = s_hazard_history /\ m.rupture = s_rupture_history
      /\ m.signals = s_consecutive_signals /\ m.cooldown = s_cooldown_remaining
      /\ m.streak = s_recovery_streak /\ m.away = s_on_fallback
  BY <1>1 DEF StructuralMemory
<1> DEFINE C(cooldown, streak, away, action, target) ==
             /\ s_cooldown_remaining' = cooldown /\ s_recovery_streak' = streak
             /\ s_on_fallback' = away /\ Structural!Conclude(w, action, target)
<1>3. ASSUME NEW cooldown, NEW streak, NEW away, NEW action, NEW target,
             C(cooldown, streak, away, action, target)
      PROVE  StructuralMemory' = Concluded(m, w, cooldown, streak, away, action, target)
  BY <1>1, <1>2, <1>3, SamePolicy, SameTargets
  DEF StructuralMemory, Concluded, Structural!Conclude
<1>4. ASSUME NEW cooldown, NEW streak, NEW away, NEW action, NEW target,
             StructuralAfter(m, w) = Concluded(m, w, cooldown, streak, away, action, target),
             C(cooldown, streak, away, action, target)
      PROVE  StructuralMemory' = StructuralAfter(m, w)
  BY <1>3, <1>4, Zenon
<1> HIDE DEF C
<1>5. CASE Structural!HoldFallback(w)
  BY <1>1, <1>2, <1>4, <1>5, SamePolicy, SameTargets, Zenon
  DEF Structural!HoldFallback, StructuralAfter, C
<1>6. CASE Structural!ReturnToPrimary(w)
  BY <1>1, <1>2, <1>4, <1>6, SamePolicy, SameTargets, Zenon
  DEF Structural!ReturnToPrimary, StructuralAfter, C
<1>7. CASE Structural!RouteToFallback(w)
  <2>1. ~m.away /\ StructuralOf(m)!Trigger(w) /\ StructuralOf(m)!fallback_target # NoTarget
    BY <1>1, <1>2, <1>7, SamePolicy, SameTargets, Zenon DEF Structural!RouteToFallback
  <2>2. StructuralAfter(m, w) = Concluded(m, w, s_config.cooldown_windows, 0, TRUE,
          "ROUTE_FALLBACK", Structural!fallback_target)
    BY <1>1, <1>2, <2>1, SameTargets, Zenon DEF StructuralAfter
  <2>3. C(s_config.cooldown_windows, 0, TRUE, "ROUTE_FALLBACK", Structural!fallback_target)
    BY <1>7, Zenon DEF Structural!RouteToFallback, C
  <2>4. QED
    BY <1>1, <1>4, <2>2, <2>3, Zenon
<1>8. CASE Structural!StayOnPrimary(w)
  <2> DEFINE action == IF Structural!Trigger(w) \/ Structural!observe_condition(w)
                       THEN "OBSERVE" ELSE "PRIMARY"
  <2>1. ~m.away /\ ~(StructuralOf(m)!Trigger(w) /\ StructuralOf(m)!fallback_target # NoTarget)
    BY <1>1, <1>2, <1>8, SamePolicy, SameTargets, Zenon DEF Structural!StayOnPrimary
  <2>2. action = IF StructuralOf(m)!Trigger(w) \/ StructuralOf(m)!observe_condition(w)
                 THEN "OBSERVE" ELSE "PRIMARY"
    BY <1>1, SamePolicy, Zenon
  <2>3. C(Structural!CooledDown, m.streak, m.away, action, Structural!primary_target)
    BY <1>2, <1>8, Zenon DEF Structural!StayOnPrimary, C
  <2> HIDE DEF action
  <2>4. StructuralAfter(m, w) = Concluded(m, w, Structural!CooledDown, m.streak, m.away,
          action, Structural!primary_target)
    BY <1>1, <2>1, <2>2, SamePolicy, SameTargets, Zenon DEF StructuralAfter
  <2>5. QED
    BY <1>1, <1>4, <2>3, <2>4, Zenon
<1>9. QED
  BY <1>1, <1>5, <1>6, <1>7, <1>8 DEF Structural!evaluate

LEMMA SameBaseline ==
  ASSUME NEW m, NEW x, m = TimeoutMemory
  PROVE  /\ TimeoutOf(m)!trigger(x) <=> Timeout!trigger(x)
         /\ TimeoutOf(m)!CooledDown = Timeout!CooledDown
         /\ TimeoutOf(m)!StreakAfter(x) = Timeout!StreakAfter(x)
         /\ TimeoutOf(m)!MayReturn(x) <=> Timeout!MayReturn(x)
         /\ TimeoutOf(m)!primary_target = Timeout!primary_target
         /\ TimeoutOf(m)!fallback_target = Timeout!fallback_target
         /\ TimeoutOf(m)!HoldTarget = Timeout!HoldTarget
<1>1. /\ m.config = t_config /\ m.cooldown = t_cooldown_remaining
      /\ m.streak = t_recovery_streak
  BY DEF TimeoutMemory
<1>2. TimeoutOf(m)!trigger(x) <=> Timeout!trigger(x)
  BY <1>1, Zenon DEF TimeoutOf!trigger, Timeout!trigger
<1>3. TimeoutOf(m)!CooledDown = Timeout!CooledDown
  BY <1>1 DEF TimeoutOf!CooledDown, Timeout!CooledDown
<1>4. TimeoutOf(m)!StreakAfter(x) = Timeout!StreakAfter(x)
  BY <1>1 DEF TimeoutOf!StreakAfter, Timeout!StreakAfter, TimeoutOf!recovered,
     Timeout!recovered
<1>5. TimeoutOf(m)!MayReturn(x) <=> Timeout!MayReturn(x)
  BY <1>1, <1>3, <1>4, Zenon DEF TimeoutOf!MayReturn, Timeout!MayReturn
<1>6. TimeoutOf(m)!primary_target = Timeout!primary_target
  BY <1>1 DEF TimeoutOf!primary_target, Timeout!primary_target,
     TimeoutOf!PrimaryTarget, Timeout!PrimaryTarget
<1>7. TimeoutOf(m)!FallbackTargetFor(t_config.topology, Timeout!primary_target)
        = Timeout!FallbackTargetFor(t_config.topology, Timeout!primary_target)
  <2> DEFINE topology == t_config.topology
             current == Timeout!primary_target
  <2>1. TimeoutOf(m)!StartIndex(topology, current) = Timeout!StartIndex(topology, current)
    BY Zenon DEF TimeoutOf!StartIndex, Timeout!StartIndex, TimeoutOf!Listed,
       Timeout!Listed, TimeoutOf!FirstIndex, Timeout!FirstIndex
  <2>2. \A p, i, o : TimeoutOf(m)!Following(p, i, o) = Timeout!Following(p, i, o)
    BY Zenon DEF TimeoutOf!Following, Timeout!Following
  <2> HIDE DEF topology, current
  <2>3. TimeoutOf(m)!FallbackOffsets(topology, current)
          = Timeout!FallbackOffsets(topology, current)
    BY <2>1, <2>2, Zenon DEF TimeoutOf!FallbackOffsets, Timeout!FallbackOffsets
  <2>4. TimeoutOf(m)!FallbackTargetFor(topology, current)
          = Timeout!FallbackTargetFor(topology, current)
    BY <2>1, <2>2, <2>3, Zenon DEF TimeoutOf!FallbackTargetFor, Timeout!FallbackTargetFor
  <2>5. QED
    BY <2>4 DEF topology, current
<1>8. TimeoutOf(m)!fallback_target = Timeout!fallback_target
  BY <1>1, <1>6, <1>7 DEF TimeoutOf!fallback_target, Timeout!fallback_target
<1>9. TimeoutOf(m)!HoldTarget = Timeout!HoldTarget
  BY <1>6, <1>8 DEF TimeoutOf!HoldTarget, Timeout!HoldTarget
<1>10. QED
  BY <1>2, <1>3, <1>4, <1>5, <1>6, <1>8, <1>9

(* Nor does that of the timeout baseline.                                  *)
LEMMA TimeoutIsFunction ==
  ASSUME NEW x, Timeout!evaluate(x)
  PROVE  TimeoutMemory' = TimeoutAfter(TimeoutMemory, x)
<1>1. PICK m : m = TimeoutMemory
  OBVIOUS
<1>2. /\ m.config = t_config /\ m.cooldown = t_cooldown_remaining
      /\ m.streak = t_recovery_streak /\ m.away = t_on_fallback
  BY <1>1 DEF TimeoutMemory
<1> DEFINE D(cooldown, streak, away, action, target) ==
             /\ t_cooldown_remaining' = cooldown /\ t_recovery_streak' = streak
             /\ t_on_fallback' = away /\ Timeout!Decide(action, target)
<1>3. ASSUME NEW cooldown, NEW streak, NEW away, NEW action, NEW target,
             D(cooldown, streak, away, action, target)
      PROVE  TimeoutMemory' = Decided(m, cooldown, streak, away, action, target)
  BY <1>2, <1>3 DEF TimeoutMemory, Decided, Timeout!Decide
<1>4. ASSUME NEW cooldown, NEW streak, NEW away, NEW action, NEW target,
             TimeoutAfter(m, x) = Decided(m, cooldown, streak, away, action, target),
             D(cooldown, streak, away, action, target)
      PROVE  TimeoutMemory' = TimeoutAfter(m, x)
  BY <1>3, <1>4, Zenon
<1> HIDE DEF D
<1>5. CASE Timeout!HoldAfterTrigger(x)
  <2>1. TimeoutAfter(m, x) = Decided(m, t_config.cooldown_points, 0, m.away,
          "ROUTE_FALLBACK", Timeout!HoldTarget)
    BY <1>1, <1>2, <1>5, SameBaseline, Zenon DEF Timeout!HoldAfterTrigger, TimeoutAfter
  <2>2. D(t_config.cooldown_points, 0, m.away, "ROUTE_FALLBACK", Timeout!HoldTarget)
    BY <1>2, <1>5, Zenon DEF Timeout!HoldAfterTrigger, D
  <2>3. QED
    BY <1>1, <1>4, <2>1, <2>2, Zenon
<1>6. CASE Timeout!HoldFallback(x)
  <2>1. TimeoutAfter(m, x) = Decided(m, Timeout!CooledDown, Timeout!StreakAfter(x), m.away,
          "ROUTE_FALLBACK", Timeout!HoldTarget)
    BY <1>1, <1>2, <1>6, SameBaseline, Zenon DEF Timeout!HoldFallback, TimeoutAfter
  <2>2. D(Timeout!CooledDown, Timeout!StreakAfter(x), m.away,
          "ROUTE_FALLBACK", Timeout!HoldTarget)
    BY <1>2, <1>6, Zenon DEF Timeout!HoldFallback, D
  <2>3. QED
    BY <1>1, <1>4, <2>1, <2>2, Zenon
<1>7. CASE Timeout!ReturnToPrimary(x)
  <2>1. TimeoutAfter(m, x) = Decided(m, Timeout!CooledDown, Timeout!StreakAfter(x), FALSE,
          "PRIMARY", Timeout!primary_target)
    BY <1>1, <1>2, <1>7, SameBaseline, Zenon DEF Timeout!ReturnToPrimary, TimeoutAfter
  <2>2. D(Timeout!CooledDown, Timeout!StreakAfter(x), FALSE,
          "PRIMARY", Timeout!primary_target)
    BY <1>2, <1>7, Zenon DEF Timeout!ReturnToPrimary, D
  <2>3. QED
    BY <1>1, <1>4, <2>1, <2>2, Zenon
<1>8. CASE Timeout!RouteToFallback(x)
  <2>1. TimeoutAfter(m, x) = Decided(m, t_config.cooldown_points, m.streak, TRUE,
          "ROUTE_FALLBACK", Timeout!fallback_target)
    BY <1>1, <1>2, <1>8, SameBaseline, Zenon DEF Timeout!RouteToFallback, TimeoutAfter
  <2>2. D(t_config.cooldown_points, m.streak, TRUE,
          "ROUTE_FALLBACK", Timeout!fallback_target)
    BY <1>2, <1>8, Zenon DEF Timeout!RouteToFallback, D
  <2>3. QED
    BY <1>1, <1>4, <2>1, <2>2, Zenon
<1>9. CASE Timeout!StayOnPrimary(x)
  <2>1. TimeoutAfter(m, x) = Decided(m, Timeout!CooledDown, m.streak, m.away,
          "PRIMARY", Timeout!primary_target)
    BY <1>1, <1>2, <1>9, SameBaseline, Zenon DEF Timeout!StayOnPrimary, TimeoutAfter
  <2>2. D(Timeout!CooledDown, m.streak, m.away, "PRIMARY", Timeout!primary_target)
    BY <1>2, <1>9, Zenon DEF Timeout!StayOnPrimary, D
  <2>3. QED
    BY <1>1, <1>4, <2>1, <2>2, Zenon
<1>10. QED
  BY <1>1, <1>5, <1>6, <1>7, <1>8, <1>9 DEF Timeout!evaluate

-----------------------------------------------------------------------------
(* The memory of a run before its first sample, and a run as the sequence  *)
(* of memories that its samples lead through and of the rows they leave.   *)
Memory == [s |-> StructuralMemory, t |-> TimeoutMemory]

Fresh ==
  [s |-> [config |-> s_config, hazard |-> << >>, rupture |-> << >>, signals |-> 0,
          cooldown |-> 0, streak |-> 0, away |-> FALSE, decision |-> Structural!NoDecision],
   t |-> [config |-> t_config, cooldown |-> 0, streak |-> 0, away |-> FALSE,
          decision |-> Timeout!NoDecision]]

Upto(series, i) == [j \in 1 .. i |-> Signal(series[j])]

MemoryAfter(m, series, i) ==
  [s |-> IF i < window_points THEN m.s ELSE StructuralAfter(m.s, Encode(Upto(series, i))),
   t |-> TimeoutAfter(m.t, series[i])]

RowAfter(m, series, i) ==
  [ts |-> series[i].ts,
   structural |-> IF i < window_points THEN "PRIMARY" ELSE m.s.decision.action,
   structural_target |-> IF i < window_points THEN Target ELSE m.s.decision.selected_target,
   timeout |-> m.t.decision.action, timeout_target |-> m.t.decision.selected_target]

Leads(start, series, table, g) ==
  /\ g[0] = start
  /\ \A i \in 1 .. Len(table) :
       /\ g[i] = MemoryAfter(g[i - 1], series, i)
       /\ table[i] = RowAfter(g[i], series, i)

(* The rows of this run and of the last one were each computed from the    *)
(* same fresh policies, by nothing but the samples.                        *)
Fits(series, table) ==
  /\ \E S : table \in Seq(S)
  /\ \E S : series \in Seq(S)
  /\ Len(table) <= Len(series)

ComputedInv ==
  /\ \E g : Leads(Fresh, samples, rows, g) /\ g[Len(rows)] = Memory
  /\ Fits(past.samples, past.rows)
  /\ \E g : Leads(Fresh, past.samples, past.rows, g)

(* A non-empty set of naturals has a least element.                        *)
LEMMA LeastNatural ==
  ASSUME NEW T \in SUBSET Nat, T # {}
  PROVE  \E n \in T : \A m \in T : n <= m
<1>1. PICK n \in T : \A m \in T : ~(<<m, n>> \in OpToRel(<, Nat))
  BY NatLessThanWellFounded, WFMin
<1>2. \A m \in T : ~(m < n)
  BY <1>1 DEF OpToRel
<1>3. QED
  BY <1>2

(* Two such runs agree as long as their samples do.                        *)
LEMMA RunsAgree ==
  ASSUME NEW start, NEW n \in Nat,
         NEW a, NEW x, NEW g, Leads(start, a, x, g), Len(x) \in Nat, n <= Len(x),
         NEW b, NEW y, NEW h, Leads(start, b, y, h), Len(y) \in Nat, n <= Len(y),
         \A i \in 1 .. n : a[i] = b[i]
  PROVE  \A i \in 1 .. n : x[i] = y[i]
<1>1. ASSUME NEW i \in 1 .. n
      PROVE  \A m : /\ MemoryAfter(m, a, i) = MemoryAfter(m, b, i)
                    /\ RowAfter(m, a, i) = RowAfter(m, b, i)
  <2>1. a[i] = b[i]
    OBVIOUS
  <2>2. Upto(a, i) = Upto(b, i)
    <3>1. \A j \in 1 .. i : a[j] = b[j]
      OBVIOUS
    <3>2. \A j \in 1 .. i : Signal(a[j]) = Signal(b[j])
      BY <3>1, Zenon
    <3>3. QED
      BY <3>2, Zenon DEF Upto
  <2>3. QED
    BY <2>1, <2>2, Zenon DEF MemoryAfter, RowAfter
<1> DEFINE Apart == {i \in 0 .. n : g[i] # h[i]}
<1>2. Apart = {}
  <2> SUFFICES ASSUME Apart # {} PROVE FALSE
    OBVIOUS
  <2>0. Apart \in SUBSET Nat
    OBVIOUS
  <2> HIDE DEF Apart
  <2>1. PICK k \in Apart : \A m \in Apart : k <= m
    BY <2>0, LeastNatural
  <2> USE DEF Apart
  <2>2. k # 0
    BY DEF Leads
  <2>3. k \in 1 .. n /\ k - 1 \in 0 .. n /\ k - 1 \notin Apart
    BY <2>1, <2>2
  <2>4. g[k - 1] = h[k - 1]
    BY <2>3
  <2>5. g[k] = MemoryAfter(g[k - 1], a, k) /\ h[k] = MemoryAfter(h[k - 1], b, k)
    BY <2>3 DEF Leads
  <2>6. MemoryAfter(g[k - 1], a, k) = MemoryAfter(h[k - 1], b, k)
    BY <1>1, <2>3, <2>4, Zenon
  <2>7. g[k] = h[k]
    BY <2>5, <2>6
  <2>8. QED
    BY <2>1, <2>7
<1>3. ASSUME NEW i \in 1 .. n
      PROVE  x[i] = y[i]
  <2>1. g[i] = h[i]
    BY <1>2
  <2>2. x[i] = RowAfter(g[i], a, i) /\ y[i] = RowAfter(h[i], b, i)
    BY DEF Leads
  <2>3. RowAfter(g[i], a, i) = RowAfter(h[i], b, i)
    BY <1>1, <2>1, Zenon
  <2>4. QED
    BY <2>2, <2>3
<1>4. QED
  BY <1>3

(* Every sample replayed is one more memory and its row.                   *)
LEMMA SampleIsFunction ==
  ASSUME WarmupSample \/ ReplaySample, Len(rows) \in Nat
  PROVE  LET i == Len(rows) + 1
         IN /\ Memory' = MemoryAfter(Memory, samples, i)
            /\ rows' = Append(rows, RowAfter(Memory', samples, i))
<1> DEFINE i == Len(rows) + 1
<1>0. PICK before, after : before = Memory /\ after = Memory'
  OBVIOUS
<1>1. /\ before.s = StructuralMemory /\ before.t = TimeoutMemory
      /\ after.s = StructuralMemory' /\ after.t = TimeoutMemory'
      /\ after = [s |-> after.s, t |-> after.t]
  BY <1>0 DEF Memory
<1>2. after.s.decision = s_decision' /\ after.t.decision = t_decision'
  BY <1>1 DEF StructuralMemory, TimeoutMemory
<1>3. after.t = TimeoutAfter(before.t, samples[i])
  BY <1>1, TimeoutIsFunction DEF WarmupSample, ReplaySample, Current
<1>4. CASE WarmupSample
  <2>1. i < window_points /\ UNCHANGED structuralVars
    BY <1>4 DEF WarmupSample
  <2>2. after.s = before.s
    BY <1>1, <2>1 DEF StructuralMemory, structuralVars
  <2>3. after = MemoryAfter(before, samples, i)
    BY <1>1, <1>3, <2>1, <2>2 DEF MemoryAfter
  <2>4. rows' = Append(rows, RowAfter(after, samples, i))
    BY <1>2, <1>4, <2>1, Zenon DEF WarmupSample, Row, Current, RowAfter
  <2>5. QED
    BY <1>0, <2>3, <2>4
<1>5. CASE ReplaySample
  <2>1. i >= window_points /\ Structural!evaluate(Encode(Prefix))
    BY <1>5 DEF ReplaySample
  <2>2. ~(i < window_points)
    BY <2>1, WindowAssumption
  <2>3. Prefix = Upto(samples, i)
    BY DEF Prefix, Upto
  <2>4. after.s = StructuralAfter(before.s, Encode(Upto(samples, i)))
    BY <1>1, <2>1, <2>3, StructuralIsFunction
  <2>5. after = MemoryAfter(before, samples, i)
    BY <1>1, <1>3, <2>2, <2>4, Zenon DEF MemoryAfter
  <2>6. rows' = Append(rows, RowAfter(after, samples, i))
    BY <1>2, <1>5, <2>2, Zenon DEF ReplaySample, Row, Current, RowAfter
  <2>7. QED
    BY <1>0, <2>5, <2>6
<1>6. QED
  BY <1>4, <1>5

(* No evaluation changes a configuration.                                  *)
LEMMA ConfigsStay ==
  ASSUME WarmupSample \/ ReplaySample
  PROVE  Fresh' = Fresh
<1>1. ASSUME NEW w, Structural!evaluate(w)
      PROVE  s_config' = s_config
  BY <1>1 DEF Structural!evaluate, Structural!HoldFallback, Structural!ReturnToPrimary,
     Structural!RouteToFallback, Structural!StayOnPrimary, Structural!Conclude
<1>2. ASSUME NEW x, Timeout!evaluate(x)
      PROVE  t_config' = t_config
  BY <1>2 DEF Timeout!evaluate, Timeout!HoldAfterTrigger, Timeout!HoldFallback,
     Timeout!ReturnToPrimary, Timeout!RouteToFallback, Timeout!StayOnPrimary, Timeout!Decide
<1>3. s_config' = s_config
  BY <1>1 DEF WarmupSample, ReplaySample, structuralVars
<1>4. t_config' = t_config
  BY <1>2 DEF WarmupSample, ReplaySample
<1>5. QED
  BY <1>3, <1>4 DEF Fresh, Structural!NoDecision, Timeout!NoDecision

(* At first there is nothing but the fresh policies.                       *)
LEMMA ComputedStarts == HistoryInit => ComputedInv
<1> SUFFICES ASSUME HistoryInit PROVE ComputedInv
  OBVIOUS
<1>1. samples = << >> /\ rows = << >> /\ past.samples = << >> /\ past.rows = << >>
  BY DEF HistoryInit, ReplayInit
<1>2. Fresh = Memory
  BY DEF HistoryInit, ReplayInit, Structural!Init, Timeout!Init, Fresh, Memory,
     StructuralMemory, TimeoutMemory
<1> DEFINE g == [i \in {0} |-> Fresh]
<1>3. g[0] = Fresh /\ Len(<< >>) = 0 /\ << >> \in Seq({}) /\ 1 .. 0 = {}
  OBVIOUS
<1> HIDE DEF g
<1>4. Leads(Fresh, << >>, << >>, g)
  BY <1>3 DEF Leads
<1>5. QED
  BY <1>1, <1>2, <1>3, <1>4 DEF ComputedInv, Fits

(* One row more is one memory more.                                        *)
LEMMA LeadsOn ==
  ASSUME NEW start, NEW series, NEW S, NEW table \in Seq(S), NEW g,
         Leads(start, series, table, g), NEW m, NEW row,
         m = MemoryAfter(g[Len(table)], series, Len(table) + 1),
         row = RowAfter(m, series, Len(table) + 1)
  PROVE  \E h : /\ Leads(start, series, Append(table, row), h)
                /\ h[Len(Append(table, row))] = m
<1>1. PICK n \in Nat : n = Len(table)
  OBVIOUS
<1>2. /\ Len(Append(table, row)) = n + 1 /\ Append(table, row)[n + 1] = row
      /\ \A i \in 1 .. n : Append(table, row)[i] = table[i]
  BY <1>1
<1> DEFINE h == [i \in 0 .. (n + 1) |-> IF i = n + 1 THEN m ELSE g[i]]
<1>3. h[n + 1] = m /\ \A i \in 0 .. n : h[i] = g[i]
  BY <1>1
<1> HIDE DEF h
<1>4. h[0] = start
  BY <1>1, <1>3 DEF Leads
<1>5. ASSUME NEW i \in 1 .. (n + 1)
      PROVE  /\ h[i] = MemoryAfter(h[i - 1], series, i)
             /\ Append(table, row)[i] = RowAfter(h[i], series, i)
  <2>1. CASE i = n + 1
    <3>1. i - 1 = n /\ n \in 0 .. n
      BY <2>1
    <3>2. h[i] = m /\ h[i - 1] = g[n]
      BY <1>3, <2>1, <3>1
    <3>3. QED
      BY <1>1, <1>2, <2>1, <3>2
  <2>2. CASE i # n + 1
    <3>1. i \in 1 .. n /\ i - 1 \in 0 .. n /\ i \in 0 .. n
      BY <2>2
    <3>2. g[i] = MemoryAfter(g[i - 1], series, i) /\ table[i] = RowAfter(g[i], series, i)
      BY <1>1, <3>1 DEF Leads
    <3>3. h[i] = g[i] /\ h[i - 1] = g[i - 1] /\ Append(table, row)[i] = table[i]
      BY <1>2, <1>3, <3>1
    <3>4. QED
      BY <3>2, <3>3
  <2>3. QED
    BY <2>1, <2>2
<1>6. Leads(start, series, Append(table, row), h)
  BY <1>2, <1>4, <1>5 DEF Leads
<1>7. QED
  BY <1>2, <1>3, <1>6

LEMMA ComputedSample ==
  ASSUME SummaryInv, ComputedInv, WarmupSample \/ ReplaySample, UNCHANGED past
  PROVE  ComputedInv'
<1>1. PICK S : rows \in Seq(S)
  BY DEF SummaryInv, RowsInv
<1>2. Len(rows) \in Nat
  BY <1>1
<1>3. PICK g : Leads(Fresh, samples, rows, g) /\ g[Len(rows)] = Memory
  BY DEF ComputedInv
<1>4. samples' = samples /\ Fresh' = Fresh
  BY ConfigsStay DEF WarmupSample, ReplaySample
<1>5. /\ Memory' = MemoryAfter(Memory, samples, Len(rows) + 1)
      /\ rows' = Append(rows, RowAfter(Memory', samples, Len(rows) + 1))
  BY <1>2, SampleIsFunction
<1>6. PICK m, row : /\ m = Memory' /\ row = RowAfter(m, samples, Len(rows) + 1)
                    /\ rows' = Append(rows, row)
  BY <1>5
<1>7. m = MemoryAfter(g[Len(rows)], samples, Len(rows) + 1)
  BY <1>3, <1>5, <1>6
<1>8. \E h : Leads(Fresh, samples, Append(rows, row), h) /\ h[Len(Append(rows, row))] = m
  BY <1>1, <1>3, <1>6, <1>7, LeadsOn
<1>9. \E h : Leads(Fresh', samples', rows', h) /\ h[Len(rows')] = Memory'
  BY <1>4, <1>6, <1>8
<1>10. QED
  BY <1>4, <1>9 DEF ComputedInv, Fits

(* Loading replaces the samples of which there are no rows yet.            *)
LEMMA ComputedLoad ==
  ASSUME SummaryInv, ComputedInv, Load, UNCHANGED past
  PROVE  ComputedInv'
<1>1. /\ rows = << >> /\ UNCHANGED <<rows, policyVars>>
  BY DEF Load, SummaryInv, ReportInv
<1>2. Fresh' = Fresh /\ Memory' = Memory
  BY <1>1 DEF Fresh, Memory, StructuralMemory, TimeoutMemory, policyVars, structuralVars,
     timeoutVars, Structural!NoDecision, Timeout!NoDecision
<1>3. PICK g : Leads(Fresh, samples, rows, g) /\ g[Len(rows)] = Memory
  BY DEF ComputedInv
<1>4. Len(<< >>) = 0 /\ 1 .. 0 = {}
  OBVIOUS
<1>5. Leads(Fresh, samples', rows, g)
  BY <1>1, <1>3, <1>4 DEF Leads
<1>6. \E h : Leads(Fresh', samples', rows', h) /\ h[Len(rows')] = Memory'
  BY <1>1, <1>2, <1>3, <1>5
<1>7. QED
  BY <1>2, <1>6 DEF ComputedInv, Fits

(* A new run starts with fresh policies of the same configuration, and the *)
(* run it follows is the last one.                                         *)
LEMMA ComputedRerun ==
  ASSUME SummaryInv, ComputedInv, Rerun, past' = [samples |-> samples, rows |-> rows]
  PROVE  ComputedInv'
<1>1. /\ samples' = << >> /\ rows' = << >>
      /\ past'.samples = samples /\ past'.rows = rows
  BY DEF Rerun
<1>2. Fresh' = Fresh
  BY DEF Rerun, RebuildPolicies, Fresh, Structural!NoDecision, Timeout!NoDecision
<1>3. Memory' = Fresh
  BY DEF Rerun, RebuildPolicies, Fresh, Memory, StructuralMemory, TimeoutMemory,
     Structural!NoDecision, Timeout!NoDecision
<1> DEFINE g == [i \in {0} |-> Fresh]
<1>4. g[0] = Fresh /\ Len(<< >>) = 0 /\ 1 .. 0 = {}
  OBVIOUS
<1> HIDE DEF g
<1>5. Leads(Fresh, << >>, << >>, g)
  BY <1>4 DEF Leads
<1>6. \E h : Leads(Fresh', samples', rows', h) /\ h[Len(rows')] = Memory'
  BY <1>1, <1>2, <1>3, <1>4, <1>5
<1>7. \E h : Leads(Fresh', past'.samples, past'.rows, h)
  BY <1>1, <1>2 DEF ComputedInv
<1>8. Fits(past'.samples, past'.rows)
  BY <1>1 DEF Fits, SummaryInv, RowsInv, Ordered
<1>9. QED
  BY <1>6, <1>7, <1>8 DEF ComputedInv

LEMMA ComputedAlways == HistorySpec => []ComputedInv
<1>1. SummaryInv /\ ComputedInv /\ [HistoryNext]_historyVars => ComputedInv'
  <2> SUFFICES ASSUME SummaryInv, ComputedInv, [HistoryNext]_historyVars
               PROVE  ComputedInv'
    OBVIOUS
  <2>1. ASSUME UNCHANGED <<samples, rows, policyVars, past>>
        PROVE  ComputedInv'
    <3>1. Fresh' = Fresh /\ Memory' = Memory
      BY <2>1 DEF Fresh, Memory, StructuralMemory, TimeoutMemory, policyVars, structuralVars,
         timeoutVars, Structural!NoDecision, Timeout!NoDecision
    <3>2. QED
      BY <2>1, <3>1 DEF ComputedInv, Fits
  <2>2. CASE UNCHANGED historyVars
    BY <2>1, <2>2 DEF historyVars, replayVars
  <2>3. CASE /\ LoadFails \/ OpenCsv \/ WriteRow \/ OpenSummary \/ WriteSummary \/ Crash
             /\ UNCHANGED past
    BY <2>1, <2>3 DEF LoadFails, OpenCsv, WriteRow, OpenSummary, WriteSummary, Crash
  <2>4. QED
    BY <2>2, <2>3, ComputedLoad, ComputedSample, ComputedRerun DEF HistoryNext, Replay
<1>2. QED
  BY <1>1, ComputedStarts, SummaryAlways, PTL DEF HistorySpec

(* For all probe files, however they grow and wherever runs die, the rows  *)
(* of a run over files that have only grown at the end repeat those of the *)
(* run before it: they are a function of the samples.                      *)
THEOREM RowsAreReproduced == HistorySpec => []RowsReproducible
<1>1. SummaryInv /\ ComputedInv => RowsReproducible
  <2> SUFFICES ASSUME SummaryInv, ComputedInv, IsPrefix(past.samples, samples),
                      NEW i \in DOMAIN rows \cap DOMAIN past.rows
               PROVE  rows[i] = past.rows[i]
    BY DEF RowsReproducible
  <2>1. /\ \E S : rows \in Seq(S)
        /\ \E S : samples \in Seq(S)
        /\ Len(rows) <= Len(samples)
    BY DEF SummaryInv, RowsInv, Ordered
  <2>2. /\ \E S : past.rows \in Seq(S)
        /\ \E S : past.samples \in Seq(S)
        /\ Len(past.rows) <= Len(past.samples)
    BY DEF ComputedInv, Fits
  <2>3. /\ Len(rows) \in Nat /\ Len(past.rows) \in Nat /\ Len(past.samples) \in Nat
        /\ Len(samples) \in Nat
        /\ i \in 1 .. Len(rows) /\ i \in 1 .. Len(past.rows)
    BY <2>1, <2>2
  <2>4. \A j \in 1 .. Len(past.samples) : samples[j] = past.samples[j]
    <3>1. PICK n \in Nat : n = Len(past.samples)
      BY <2>3
    <3>2. n <= Len(samples) /\ SubSeq(past.samples, 1, n) = SubSeq(samples, 1, n)
      BY <3>1 DEF IsPrefix
    <3>3. PICK S : past.samples \in Seq(S)
      BY <2>2
    <3>4. PICK R : samples \in Seq(R)
      BY <2>1
    <3>5. \A j \in 1 .. n : past.samples[j] \in S /\ samples[j] \in R
      BY <2>3, <3>1, <3>2, <3>3, <3>4
    <3>6. /\ \A j \in 1 .. n : SubSeq(past.samples, 1, n)[j] = past.samples[j]
          /\ \A j \in 1 .. n : SubSeq(samples, 1, n)[j] = samples[j]
      BY <3>5, SubSeqProperties
    <3>7. QED
      BY <3>1, <3>2, <3>6
  <2>5. PICK g : Leads(Fresh, samples, rows, g)
    BY DEF ComputedInv
  <2>6. PICK h : Leads(Fresh, past.samples, past.rows, h)
    BY DEF ComputedInv
  <2>7. i \in Nat /\ i \in 1 .. i /\ i <= Len(rows) /\ i <= Len(past.rows)
    BY <2>3
  <2>8. \A j \in 1 .. i : samples[j] = past.samples[j]
    BY <2>2, <2>3, <2>4, <2>7
  <2>9. \A j \in 1 .. i : rows[j] = past.rows[j]
    BY <2>3, <2>5, <2>6, <2>7, <2>8, RunsAgree
  <2>10. QED
    BY <2>7, <2>9
<1>2. QED
  BY <1>1, SummaryAlways, ComputedAlways, PTL
=============================================================================
