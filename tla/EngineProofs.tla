----------------------------- MODULE EngineProofs -----------------------------
(***************************************************************************)
(* Proofs about Engine and the modules it composes: for streams and words  *)
(* of any length, every configuration that satisfies the assumptions, any  *)
(* integer values and every order of the parallel iterations.              *)
(***************************************************************************)
EXTENDS Engine, FiniteSetTheorems, SequenceTheorems, NaturalsInduction, WellFoundedInduction,
        TLAPS

-----------------------------------------------------------------------------
(* Every non-empty set of naturals has a smallest element.                 *)
LEMMA LeastIndex ==
  ASSUME NEW T \in SUBSET Nat, T # {}
  PROVE  \E n \in T : \A m \in T : n <= m
<1>1. PICK n \in T : \A m \in T : ~(<<m, n>> \in OpToRel(<, Nat))
  BY NatLessThanWellFounded, WFMin
<1>2. \A m \in T : ~(m < n)
  BY <1>1 DEF OpToRel
<1>3. QED
  BY <1>2

-----------------------------------------------------------------------------
(* The labels.  Steps is how many there are to a stream of n words.        *)
Labels == {NULL_STATE, OSCILLATION, REGIME_SHIFT}

StepIsClean(i) == Events!IsBit(bits[i]) /\ Events!IsBit(bits[i + 1])

StepOf(i) == Events!StateOf(bits[i], bits[i + 1])

Steps == Events!StepCount(bits)

(* An iteration that has run has written its label, if its words are bits, *)
(* and has raised the flag otherwise; the flag is raised for nothing else. *)
LabelInv ==
  /\ bits \in Seq(Range(bits))
  /\ pending \subseteq 1 .. Steps
  /\ result \in [1 .. Steps -> Labels \cup {Unset}]
  /\ invalid = (\E i \in (1 .. Steps) \ pending : ~StepIsClean(i))
  /\ \A i \in (1 .. Steps) \ pending : StepIsClean(i) => result[i] = StepOf(i)

(* The processor that is fed a stream of bits has answered the steps       *)
(* between the bits it has been fed.                                       *)
Clean(n) == \A i \in 1 .. n : Events!IsBit(bits[i])

FeedInv ==
  /\ fed \in 0 .. Len(bits)
  /\ states \in Seq(Labels)
  /\ Clean(fed) =>
       /\ prev_bit = IF fed = 0 THEN -1 ELSE bits[fed]
       /\ Len(states) = IF fed = 0 THEN 0 ELSE fed - 1
       /\ \A i \in 1 .. Len(states) : states[i] = StepOf(i)

EventInv == LabelInv /\ FeedInv

(* The steps of a stream are those between one word and the next.          *)
LEMMA StepsOf ==
  ASSUME bits \in Seq(Range(bits))
  PROVE  /\ Len(bits) \in Nat /\ DOMAIN bits = 1 .. Len(bits)
         /\ Steps \in Nat
         /\ Len(bits) >= 2 => Steps = Len(bits) - 1
         /\ Len(bits) < 2 => Steps = 0
BY DEF Steps, Events!StepCount

LEMMA LabelOf ==
  ASSUME NEW a, NEW b
  PROVE  Events!StateOf(a, b) \in Labels
BY DEF Events!StateOf, Labels

(* A stream that is set out to be labelled, and nothing fed.               *)
LEMMA EventsStart ==
  ASSUME bits \in Seq(Range(bits)), pending = 1 .. Steps,
         result = [i \in 1 .. Steps |-> Unset], invalid = FALSE,
         fed = 0, prev_bit = -1, states = << >>
  PROVE  EventInv
<1>1. LabelInv
  BY DEF LabelInv
<1>2. Len(bits) \in Nat /\ Len(states) = 0 /\ states \in Seq(Labels)
  BY EmptySeq
<1>3. FeedInv
  BY <1>2 DEF FeedInv
<1>4. QED
  BY <1>1, <1>3 DEF EventInv

(* An iteration writes its own label and no other.                         *)
LEMMA LabelKeeps ==
  ASSUME EventInv, NEW i \in pending, Events!TransformAt(i)
  PROVE  EventInv'
<1>1. /\ pending' = pending \ {i} /\ UNCHANGED <<bits, fed, prev_bit, states>>
      /\ StepIsClean(i) => /\ result' = [result EXCEPT ![i] = StepOf(i)]
                           /\ invalid' = invalid
      /\ ~StepIsClean(i) => invalid' = TRUE /\ result' = result
  BY DEF Events!TransformAt, StepIsClean, StepOf
<1>2. /\ i \in 1 .. Steps
      /\ result \in [1 .. Steps -> Labels \cup {Unset}]
      /\ invalid = (\E j \in (1 .. Steps) \ pending : ~StepIsClean(j))
      /\ \A j \in (1 .. Steps) \ pending : StepIsClean(j) => result[j] = StepOf(j)
      /\ pending \subseteq 1 .. Steps
      /\ bits \in Seq(Range(bits))
  BY DEF EventInv, LabelInv
<1>3. Steps' = Steps /\ \A j : StepIsClean(j)' = StepIsClean(j) /\ StepOf(j)' = StepOf(j)
  BY <1>1 DEF Steps, StepIsClean, StepOf
<1>4. (1 .. Steps) \ pending' = ((1 .. Steps) \ pending) \cup {i}
  BY <1>1, <1>2
<1>5. result' \in [1 .. Steps -> Labels \cup {Unset}]
  <2>1. StepOf(i) \in Labels
    BY LabelOf DEF StepOf
  <2>2. QED
    BY <1>1, <1>2, <2>1
<1>6. invalid' = (\E j \in (1 .. Steps) \ pending' : ~StepIsClean(j))
  BY <1>1, <1>2, <1>4
<1>7. \A j \in (1 .. Steps) \ pending' : StepIsClean(j) => result'[j] = StepOf(j)
  BY <1>1, <1>2, <1>4
<1>8. bits' \in Seq(Range(bits'))
  BY <1>1, <1>2
<1>9. LabelInv'
  <2>1. pending' \subseteq 1 .. Steps
    BY <1>1, <1>2
  <2>2. QED
    BY <1>3, <1>5, <1>6, <1>7, <1>8, <2>1 DEF LabelInv
<1>10. FeedInv'
  BY <1>1 DEF EventInv, FeedInv, Clean, StepOf
<1>11. QED
  BY <1>9, <1>10 DEF EventInv

(* A word fed adds the label of the step that leads to it.                 *)
LEMMA ProcessKeeps ==
  ASSUME EventInv, Events!Process
  PROVE  EventInv'
<1> DEFINE word == bits[fed + 1]
<1>1. /\ fed < Len(bits) /\ fed' = fed + 1
      /\ UNCHANGED <<bits, pending, result, invalid>>
      /\ Events!IsBit(word) =>
           /\ prev_bit' = word
           /\ states' = IF prev_bit = -1 THEN states
                        ELSE Append(states, Events!StateOf(prev_bit, word))
      /\ ~Events!IsBit(word) => UNCHANGED <<prev_bit, states>>
  BY DEF Events!Process, Events!NoBit
<1>2. /\ fed \in Nat /\ Len(bits) \in Nat /\ states \in Seq(Labels)
      /\ fed + 1 \in 1 .. Len(bits)
  BY <1>1, StepsOf DEF EventInv, LabelInv, FeedInv
<1>3. LabelInv'
  BY <1>1 DEF EventInv, LabelInv, Steps, StepIsClean, StepOf
<1>4. states' \in Seq(Labels)
  BY <1>1, <1>2, LabelOf
<1>5. ASSUME Clean(fed + 1)
      PROVE  /\ prev_bit' = bits[fed + 1]
             /\ Len(states') = fed
             /\ \A i \in 1 .. Len(states') : states'[i] = StepOf(i)
  <2>1. Clean(fed) /\ Events!IsBit(word)
    BY <1>2, <1>5 DEF Clean
  <2>2. /\ prev_bit = IF fed = 0 THEN -1 ELSE bits[fed]
        /\ Len(states) = IF fed = 0 THEN 0 ELSE fed - 1
        /\ \A i \in 1 .. Len(states) : states[i] = StepOf(i)
    BY <2>1 DEF EventInv, FeedInv
  <2>3. CASE fed = 0
    BY <1>1, <2>1, <2>2, <2>3
  <2>4. CASE fed # 0
    <3>1. prev_bit # -1
      <4>1. Events!IsBit(bits[fed])
        BY <1>2, <2>1, <2>4 DEF Clean
      <4>2. QED
        BY <2>2, <2>4, <4>1 DEF Events!IsBit
    <3>2. states' = Append(states, StepOf(fed))
      BY <1>1, <2>1, <2>2, <2>4, <3>1 DEF StepOf
    <3>3. StepOf(fed) \in Labels
      BY LabelOf DEF StepOf
    <3>4. QED
      BY <1>1, <1>2, <2>1, <2>2, <2>4, <3>2, <3>3
  <2>5. QED
    BY <2>3, <2>4
<1>6. FeedInv'
  <2>1. fed' \in 0 .. Len(bits')
    BY <1>1, <1>2
  <2>2. fed' # 0 /\ fed' - 1 = fed
    BY <1>1, <1>2
  <2>3. (Clean(fed)' <=> Clean(fed + 1)) /\ \A i : StepOf(i)' = StepOf(i)
    BY <1>1 DEF Clean, StepOf
  <2>4. QED
    BY <1>1, <1>4, <1>5, <2>1, <2>2, <2>3 DEF FeedInv
<1>7. QED
  BY <1>3, <1>6 DEF EventInv

LEMMA ResetKeeps ==
  ASSUME EventInv, Events!Reset
  PROVE  EventInv'
<1>1. /\ fed' = 0 /\ prev_bit' = -1 /\ states' = << >>
      /\ UNCHANGED <<bits, pending, result, invalid>>
  BY DEF Events!Reset, Events!NoBit
<1>2. LabelInv'
  BY <1>1 DEF EventInv, LabelInv, Steps, StepIsClean, StepOf
<1>3. Len(bits) \in Nat /\ states' \in Seq(Labels) /\ Len(states') = 0
  BY <1>1, EmptySeq DEF EventInv, LabelInv
<1>4. FeedInv'
  BY <1>1, <1>3 DEF FeedInv
<1>5. QED
  BY <1>2, <1>4 DEF EventInv

(* When all the iterations have run the flag tells whether a word is no    *)
(* bit, unless there is only one word.                                     *)
LEMMA FlagIsHonest ==
  ASSUME EventInv, Events!Transformed
  PROVE  /\ Clean(Len(bits)) => ~invalid /\ \A i \in 1 .. Steps : result[i] = StepOf(i)
         /\ ~Clean(Len(bits)) => invalid \/ result = << >>
<1>1. /\ bits \in Seq(Range(bits))
      /\ invalid = (\E i \in 1 .. Steps : ~StepIsClean(i))
      /\ \A i \in 1 .. Steps : StepIsClean(i) => result[i] = StepOf(i)
      /\ result \in [1 .. Steps -> Labels \cup {Unset}]
  BY DEF EventInv, LabelInv, Events!Transformed
<1>2. ASSUME Clean(Len(bits)), NEW i \in 1 .. Steps
      PROVE  StepIsClean(i)
  <2>1. i \in 1 .. Len(bits) /\ i + 1 \in 1 .. Len(bits)
    BY <1>1, StepsOf
  <2>2. QED
    BY <1>2, <2>1 DEF Clean, StepIsClean
<1>3. ASSUME ~Clean(Len(bits)), Steps # 0
      PROVE  \E i \in 1 .. Steps : ~StepIsClean(i)
  <2>1. PICK k \in 1 .. Len(bits) : ~Events!IsBit(bits[k])
    BY <1>3 DEF Clean
  <2>2. Len(bits) >= 2 /\ Steps = Len(bits) - 1 /\ Len(bits) \in Nat
    BY <1>1, <1>3, StepsOf
  <2>3. CASE k = Len(bits)
    <3>1. k - 1 \in 1 .. Steps /\ (k - 1) + 1 = k
      BY <2>2, <2>3
    <3>2. ~StepIsClean(k - 1)
      BY <2>1, <3>1 DEF StepIsClean
    <3>3. QED
      BY <3>1, <3>2
  <2>4. CASE k # Len(bits)
    <3>1. k \in 1 .. Steps
      BY <2>2, <2>4
    <3>2. QED
      BY <2>1, <3>1 DEF StepIsClean
  <2>5. QED
    BY <2>3, <2>4
<1>4. Steps = 0 => result = << >>
  BY <1>1
<1>5. QED
  BY <1>1, <1>2, <1>3, <1>4

(* Then the parallel labelling and the processor have said the same.       *)
LEMMA LabellingsAgree ==
  ASSUME EventInv
  PROVE  Events!BatchEqualsStream
<1>1. SUFFICES ASSUME Events!Transformed, fed = Len(bits)
               PROVE  Events!events = IF Clean(Len(bits)) THEN states ELSE << >>
  BY DEF Events!BatchEqualsStream, Clean
<1>2. /\ bits \in Seq(Range(bits)) /\ states \in Seq(Labels)
      /\ result \in [1 .. Steps -> Labels \cup {Unset}]
  BY DEF EventInv, LabelInv, FeedInv
<1>3. CASE Clean(Len(bits))
  <2>1. /\ Len(states) = IF fed = 0 THEN 0 ELSE fed - 1
        /\ \A i \in 1 .. Len(states) : states[i] = StepOf(i)
    BY <1>1, <1>3 DEF EventInv, FeedInv
  <2>2. Len(states) = Steps
    BY <1>1, <1>2, <2>1, StepsOf
  <2>3. result = states
    <3>1. result = [i \in 1 .. Steps |-> result[i]] /\ states = [i \in 1 .. Steps |-> states[i]]
      BY <1>2, <2>2
    <3>2. \A i \in 1 .. Steps : result[i] = states[i]
      BY <1>1, <1>3, <2>1, <2>2, FlagIsHonest
    <3>3. QED
      BY <3>1, <3>2
  <2>4. QED
    BY <1>1, <1>3, <2>3, FlagIsHonest DEF Events!events
<1>4. CASE ~Clean(Len(bits))
  BY <1>1, <1>4, FlagIsHonest DEF Events!events
<1>5. QED
  BY <1>3, <1>4

-----------------------------------------------------------------------------
(* The bits of a byte stream.                                              *)
LEMMA QuotientBounds ==
  ASSUME NEW n \in Nat, NEW w \in Nat \ {0}, NEW k \in 1 .. n * w
  PROVE  /\ (k - 1) \div w \in 0 .. n - 1
         /\ (k - 1) % w \in 0 .. w - 1
<1> DEFINE q == (k - 1) \div w
           r == (k - 1) % w
<1>1. n * w \in Nat /\ k \in Nat \ {0} /\ k <= n * w
  OBVIOUS
<1>2. q \in Nat /\ r \in 0 .. w - 1 /\ k - 1 = w * q + r
  BY <1>1
<1> HIDE DEF q, r
<1>3. ASSUME q >= n
      PROVE  FALSE
  <2>1. w * q >= w * n
    BY <1>2, <1>3
  <2>2. w * n = n * w
    OBVIOUS
  <2>3. QED
    BY <1>1, <1>2, <2>1, <2>2
<1>4. QED
  BY <1>2, <1>3 DEF q, r

LEMMA BitsAreBits ==
  ASSUME NEW w \in Nat \ {0}, bytes \in Seq([1 .. w -> {0, 1}]), config.lsb_first \in BOOLEAN
  PROVE  /\ BitCount(bytes) = Len(bytes) * w /\ BitCount(bytes) \in Nat
         /\ \A k \in 1 .. BitCount(bytes) : bytes_to_bits[k] \in {0, 1}
<1>1. BitCount(bytes) = Len(bytes) * w /\ BitCount(bytes) \in Nat
  <2>1. bytes = << >> => Len(bytes) = 0
    OBVIOUS
  <2>2. bytes # << >> => Len(bytes[1]) = w
    OBVIOUS
  <2>3. Len(bytes) \in Nat /\ Len(bytes) * w \in Nat /\ 0 * w = 0
    OBVIOUS
  <2>4. CASE bytes = << >>
    BY <2>1, <2>3, <2>4 DEF BitCount
  <2>5. CASE bytes # << >>
    BY <2>2, <2>3, <2>5 DEF BitCount
  <2>6. QED
    BY <2>4, <2>5
<1>2. ASSUME NEW k \in 1 .. BitCount(bytes)
      PROVE  bytes_to_bits[k] \in {0, 1}
  <2> DEFINE q == (k - 1) \div w
             r == (k - 1) % w
  <2>1. q \in 0 .. Len(bytes) - 1 /\ r \in 0 .. w - 1 /\ Len(bytes) \in Nat
    BY <1>1, QuotientBounds
  <2>2. bytes # << >> /\ Len(bytes[1]) = w
    BY <2>1
  <2>3. bytes_to_bits[k] = IF config.lsb_first THEN bytes[q + 1][w - r] ELSE bytes[q + 1][r + 1]
    BY <1>2, <2>2 DEF bytes_to_bits
  <2> HIDE DEF q, r
  <2>4. bytes[q + 1] \in [1 .. w -> {0, 1}] /\ w - r \in 1 .. w /\ r + 1 \in 1 .. w
    BY <2>1
  <2>5. QED
    BY <2>3, <2>4
<1>3. QED
  BY <1>1, <1>2

-----------------------------------------------------------------------------
(* The scan of a byte stream: its windows follow one another by a step,    *)
(* every one of them inside the stream.                                    *)
ConfigTyped ==
  /\ config.window_bits \in Nat /\ config.step_bits \in Nat /\ config.max_windows \in Nat
  /\ config.lsb_first \in BOOLEAN /\ config.repetition_lookback \in Nat

BytesTyped == \E w \in Nat \ {0} : bytes \in Seq([1 .. w -> {0, 1}])

AnalysedWindow == [offset_bits : Nat, signature : Signatures, repetition_count : Nat]

ScanInv ==
  /\ ConfigTyped /\ BytesTyped
  /\ windows \in Seq(AnalysedWindow)
  /\ history \in [Signatures -> Seq(Nat)]
  /\ analysing \in BOOLEAN
  /\ \A i \in 1 .. Len(windows) : windows[i].offset_bits = (i - 1) * step_bits
  /\ windows # << >> => Last(windows).offset_bits + config.window_bits <= BitCount(bytes)
  /\ ~analysing => ~MoreWindows

LEMMA StepBits ==
  ASSUME ConfigTyped
  PROVE  step_bits \in Nat \ {0}
BY DEF ConfigTyped, step_bits

LEMMA BitCountNat ==
  ASSUME ConfigTyped, BytesTyped
  PROVE  BitCount(bytes) \in Nat
BY BitsAreBits DEF BytesTyped, ConfigTyped

(* The window about to be analysed is cut out of the stream.               *)
LEMMA WindowIsCut ==
  ASSUME ScanInv, MoreWindows
  PROVE  /\ WindowBits \in Seq({0, 1})
         /\ Len(WindowBits) = config.window_bits
         /\ start \in Nat
<1>1. PICK w \in Nat \ {0} : bytes \in Seq([1 .. w -> {0, 1}])
  BY DEF ScanInv, BytesTyped
<1>2. /\ BitCount(bytes) \in Nat
      /\ \A k \in 1 .. BitCount(bytes) : bytes_to_bits[k] \in {0, 1}
  BY <1>1, BitsAreBits DEF ScanInv, ConfigTyped
<1>3. step_bits \in Nat /\ window_index \in Nat /\ config.window_bits \in Nat
  BY StepBits DEF ScanInv, ConfigTyped, window_index
<1>4. start \in Nat
  BY <1>3 DEF start
<1>5. start + config.window_bits <= BitCount(bytes)
  BY DEF MoreWindows, Fits
<1>6. \A k \in start + 1 .. start + config.window_bits : bytes_to_bits[k] \in {0, 1}
  BY <1>2, <1>3, <1>4, <1>5
<1>7. /\ SubSeq(bytes_to_bits, start + 1, start + config.window_bits) \in Seq({0, 1})
      /\ Len(SubSeq(bytes_to_bits, start + 1, start + config.window_bits)) =
           IF start + 1 <= start + config.window_bits
           THEN (start + config.window_bits) - (start + 1) + 1 ELSE 0
  BY <1>3, <1>4, <1>6, SubSeqProperties
<1>8. QED
  BY <1>3, <1>4, <1>7 DEF WindowBits

(* The histories hold what they held, or its end.                          *)
LEMMA RecentTyped ==
  ASSUME NEW s \in Seq(Nat)
  PROVE  Recent(s) \in Seq(Nat)
<1> DEFINE stays == {k \in DOMAIN s : Recalled(s[k])}
<1>1. CASE stays = {}
  BY <1>1, EmptySeq DEF Recent
<1>2. CASE stays # {}
  <2>1. Min(stays) \in stays
    <3>1. stays \in SUBSET Nat /\ stays # {}
      BY <1>2
    <3>2. \E k \in stays : \A j \in stays : k <= j
      <4> HIDE DEF stays
      <4>1. QED
        BY <3>1, LeastIndex
    <3>3. QED
      BY <3>2 DEF Min
  <2>2. Min(stays) \in 1 .. Len(s)
    BY <2>1
  <2>3. SubSeq(s, Min(stays), Len(s)) \in Seq(Nat)
    <3> HIDE DEF stays
    <3>1. \A k \in Min(stays) .. Len(s) : s[k] \in Nat
      BY <2>2
    <3>2. QED
      BY <2>2, <3>1, SubSeqProperties
  <2>4. QED
    BY <1>2, <2>3 DEF Recent
<1>3. QED
  BY <1>1, <1>2

(* A turn of the loop adds the next window.                                *)
LEMMA AnalyseKeeps ==
  ASSUME ScanInv, NEW s \in Signatures, AnalyseWindow(s)
  PROVE  ScanInv'
<1> DEFINE indices == Append(Recent(history[s]), window_index)
           window == [offset_bits |-> start, signature |-> s, repetition_count |-> Len(indices)]
<1>1. /\ windows' = Append(windows, window)
      /\ history' = [history EXCEPT ![s] = indices]
      /\ UNCHANGED <<config, bytes, analysing>> /\ analysing
      /\ MoreWindows
  BY DEF AnalyseWindow, input
<1>2. /\ windows \in Seq(AnalysedWindow) /\ history \in [Signatures -> Seq(Nat)]
      /\ \A i \in 1 .. Len(windows) : windows[i].offset_bits = (i - 1) * step_bits
      /\ window_index = Len(windows) /\ window_index \in Nat
  BY DEF ScanInv, window_index
<1>3. Recent(history[s]) \in Seq(Nat)
  BY <1>2, RecentTyped
<1>4. indices \in Seq(Nat) /\ Len(indices) \in Nat
  BY <1>2, <1>3
<1> HIDE DEF indices
<1>5. start \in Nat
  BY <1>1, WindowIsCut
<1>6. window \in AnalysedWindow
  BY <1>4, <1>5 DEF AnalysedWindow
<1>7. /\ windows' \in Seq(AnalysedWindow) /\ Len(windows') = Len(windows) + 1
      /\ windows'[Len(windows) + 1] = window
      /\ \A i \in 1 .. Len(windows) : windows'[i] = windows[i]
  BY <1>1, <1>2, <1>6, AppendProperties
<1>8. step_bits' = step_bits /\ (ConfigTyped /\ BytesTyped)' /\ BitCount(bytes') = BitCount(bytes)
  BY <1>1 DEF step_bits, ConfigTyped, BytesTyped, ScanInv
<1>9. history' \in [Signatures -> Seq(Nat)]
  BY <1>1, <1>2, <1>4
<1>10. \A i \in 1 .. Len(windows') : windows'[i].offset_bits = (i - 1) * step_bits'
  <2>1. start = Len(windows) * step_bits /\ (Len(windows) + 1) - 1 = Len(windows)
    BY <1>2 DEF start
  <2>2. \A i \in 1 .. Len(windows') : i \in 1 .. Len(windows) \/ i = Len(windows) + 1
    BY <1>2, <1>7
  <2>3. QED
    BY <1>2, <1>7, <1>8, <2>1, <2>2
<1>11. Last(windows').offset_bits + config'.window_bits <= BitCount(bytes')
  <2>1. Last(windows') = window
    BY <1>2, <1>7 DEF Last
  <2>2. start + config.window_bits <= BitCount(bytes)
    BY <1>1 DEF MoreWindows, Fits
  <2>3. QED
    BY <1>1, <2>1, <2>2
<1>12. analysing' = TRUE
  BY <1>1 DEF ScanInv
<1>13. QED
  BY <1>7, <1>8, <1>9, <1>10, <1>11, <1>12 DEF ScanInv

LEMMA FinishKeeps ==
  ASSUME ScanInv, Finish
  PROVE  ScanInv'
BY DEF ScanInv, Finish, input, ConfigTyped, BytesTyped, step_bits, MoreWindows, Fits, start,
  window_index

(* A stream just taken up.                                                 *)
LEMMA ScanStarts ==
  ASSUME ConfigTyped, BytesTyped, windows = << >>,
         history = [s \in Signatures |-> << >>], analysing = TRUE
  PROVE  ScanInv
<1>1. Len(windows) = 0 /\ windows \in Seq(AnalysedWindow) /\ << >> \in Seq(Nat)
  BY EmptySeq
<1>2. history \in [Signatures -> Seq(Nat)]
  BY <1>1
<1>3. QED
  BY <1>1, <1>2 DEF ScanInv

(* A scan that has ended without a cap has left fewer bits than a step.    *)
LEMMA ScanCovers ==
  ASSUME ScanInv
  PROVE  BitsAreCovered
<1> DEFINE length == BitCount(bytes)
           n == Len(windows)
<1>1. SUFFICES ASSUME ~analysing, config.window_bits > 0, config.max_windows = 0
               PROVE  /\ windows # << >> =>
                           length - (Last(windows).offset_bits + config.window_bits) < step_bits
                      /\ windows = << >> <=> length < config.window_bits
                      /\ length = config.window_bits => Len(windows) = 1
  BY DEF BitsAreCovered
<1>2. /\ n \in Nat /\ length \in Nat /\ config.window_bits \in Nat \ {0}
      /\ step_bits \in Nat \ {0} /\ start = n * step_bits
      /\ windows \in Seq(AnalysedWindow) /\ (windows = << >> <=> n = 0)
  BY <1>1, BitCountNat, StepBits DEF ScanInv, ConfigTyped, start, window_index
<1>3. bytes = << >> \/ start + config.window_bits > length
  <2>1. ~Fits \/ bytes = << >>
    BY <1>1, <1>2 DEF ScanInv, MoreWindows
  <2>2. QED
    BY <1>2, <2>1 DEF Fits
<1>4. bytes = << >> => length = 0
  BY DEF BitCount
<1>5. windows # << >> => /\ Last(windows).offset_bits = (n - 1) * step_bits
                         /\ Last(windows).offset_bits + config.window_bits <= length
  BY <1>2 DEF ScanInv, Last
<1> HIDE DEF n, length
<1>6. CASE windows = << >>
  <2>1. n * step_bits = 0
    BY <1>2, <1>6
  <2>2. QED
    BY <1>2, <1>3, <1>4, <1>6, <2>1
<1>7. CASE windows # << >>
  <2>1. n * step_bits = (n - 1) * step_bits + step_bits /\ (n - 1) * step_bits \in Nat
    BY <1>2, <1>7
  <2>2. length >= config.window_bits /\ start + config.window_bits > length
    BY <1>2, <1>3, <1>4, <1>5, <1>7, <2>1
  <2>3. ASSUME length = config.window_bits
        PROVE  n = 1
    <3>1. (n - 1) * step_bits = 0
      BY <1>2, <1>5, <1>7, <2>1, <2>3
    <3>2. n - 1 = 0
      BY <1>2, <1>7, <3>1
    <3>3. QED
      BY <1>2, <3>2
  <2>4. QED
    BY <1>2, <1>5, <1>7, <2>1, <2>2, <2>3 DEF n
<1>8. QED
  BY <1>6, <1>7 DEF length, n

-----------------------------------------------------------------------------
(* The byte of a point.  What round() returns is the nearest integer.      *)
LEMMA RoundedNearest ==
  ASSUME NEW n \in Nat, NEW d \in Nat \ {0}
  PROVE  LET r == Codec!Rounded(n, d)
         IN /\ r \in Nat
            /\ 2 * (r * d) <= 2 * n + d
            /\ 2 * n <= 2 * (r * d) + d
<1> DEFINE below == n \div d
           rest == n % d
<1>1. below \in Nat /\ rest \in 0 .. d - 1 /\ n = d * below + rest
  OBVIOUS
<1>2. Codec!Rounded(n, d) =
        IF 2 * rest > d \/ (2 * rest = d /\ below % 2 = 1) THEN below + 1 ELSE below
  BY DEF Codec!Rounded
<1> HIDE DEF below, rest
<1>3. below * d = d * below /\ (below + 1) * d = d * below + d /\ d * below \in Nat
  BY <1>1
<1>4. CASE 2 * rest >= d /\ Codec!Rounded(n, d) = below + 1
  BY <1>1, <1>3, <1>4
<1>5. CASE 2 * rest <= d /\ Codec!Rounded(n, d) = below
  BY <1>1, <1>3, <1>5
<1>6. QED
  BY <1>1, <1>2, <1>4, <1>5

(* Products are ordered like their factors.                                *)
LEMMA ProductOrder ==
  ASSUME NEW a \in Nat, NEW b \in Nat, NEW d \in Nat \ {0}
  PROVE  /\ a * d \in Nat /\ b * d \in Nat
         /\ a >= b + 1 => a * d >= b * d + d
<1>1. ASSUME a >= b + 1
      PROVE  a * d >= b * d + d
  <2>1. (a - (b + 1)) * d >= 0
    BY <1>1
  <2>2. (a - (b + 1)) * d = a * d - (b * d + d)
    BY <1>1
  <2>3. QED
    BY <2>1, <2>2
<1>2. QED
  BY <1>1

(* A quotient of k at most rounds to at most k, one of k to k, and of two  *)
(* quotients the larger does not round to less.                            *)
LEMMA RoundedBound ==
  ASSUME NEW n \in Nat, NEW d \in Nat \ {0}, NEW k \in Nat, n <= k * d
  PROVE  Codec!Rounded(n, d) <= k
<1> DEFINE r == Codec!Rounded(n, d)
<1>1. r \in Nat /\ 2 * (r * d) <= 2 * n + d
  BY RoundedNearest
<1> HIDE DEF r
<1>2. ASSUME r >= k + 1
      PROVE  FALSE
  BY <1>1, <1>2, ProductOrder
<1>3. QED
  BY <1>1, <1>2 DEF r

LEMMA RoundedOrder ==
  ASSUME NEW m \in Nat, NEW n \in Nat, NEW d \in Nat \ {0}, m <= n
  PROVE  Codec!Rounded(m, d) <= Codec!Rounded(n, d)
<1> DEFINE q == Codec!Rounded(m, d)
           r == Codec!Rounded(n, d)
<1>1. /\ q \in Nat /\ 2 * (q * d) <= 2 * m + d
      /\ r \in Nat /\ 2 * n <= 2 * (r * d) + d
  BY RoundedNearest
<1> HIDE DEF q, r
<1>2. CASE m = n
  BY <1>1, <1>2 DEF q, r
<1>3. CASE m < n
  <2>1. ASSUME q >= r + 1
        PROVE  FALSE
    BY <1>1, <1>3, <2>1, ProductOrder
  <2>2. QED
    BY <1>1, <2>1 DEF q, r
<1>4. QED
  BY <1>2, <1>3

LEMMA RoundedExact ==
  ASSUME NEW d \in Nat \ {0}, NEW k \in Nat
  PROVE  Codec!Rounded(k * d, d) = k
<1> DEFINE r == Codec!Rounded(k * d, d)
<1>1. k * d \in Nat
  OBVIOUS
<1>2. /\ r \in Nat /\ r <= k
      /\ 2 * (k * d) <= 2 * (r * d) + d
  BY <1>1, RoundedNearest, RoundedBound
<1> HIDE DEF r
<1>3. ASSUME k >= r + 1
      PROVE  FALSE
  BY <1>2, <1>3, ProductOrder
<1>4. QED
  BY <1>2, <1>3 DEF r

(* The deviation a bucket is measured in.                                  *)
Deviation == Codec!std_safe

LEMMA DeviationPositive ==
  ASSUME baseline.baseline_std \in Nat
  PROVE  Deviation \in Nat \ {0}
BY DEF Deviation, Codec!std_safe

LEMMA MagnitudeNat ==
  ASSUME NEW n \in Int
  PROVE  Codec!Magnitude(n) \in Nat
BY DEF Codec!Magnitude

(* The velocity bucket: one of eight, to within half a bucket of the       *)
(* velocity, the last from two deviations on.                              *)
LEMMA VelocityBucketBounds ==
  ASSUME Deviation \in Nat \ {0}, NEW v \in Int
  PROVE  LET b == Codec!VelocityBucket(v)
             m == Codec!Magnitude(v)
             s == Deviation
         IN /\ b \in 0 .. 7
            /\ m <= 2 * s => 2 * (b * s) <= 7 * m + s /\ 7 * m <= 2 * (b * s) + s
            /\ m > 2 * s => b = 7
<1> DEFINE s == Deviation
           m == Codec!Magnitude(v)
           c == Codec!AtMost(m, 2 * s)
           b == Codec!VelocityBucket(v)
<1>1. m \in Nat
  BY MagnitudeNat
<1>2. b = Codec!Rounded(7 * c, 2 * s)
  BY DEF Codec!VelocityBucket, Codec!MAX_VEL_BUCKET, Deviation
<1>3. c = IF m > 2 * s THEN 2 * s ELSE m
  BY DEF Codec!AtMost
<1> HIDE DEF s, m, b, c
<1>4. s \in Nat \ {0} /\ 2 * s \in Nat \ {0}
  BY DEF s
<1>5. c \in Nat /\ c <= 2 * s /\ 7 * c \in Nat
  BY <1>1, <1>3, <1>4
<1>6. /\ b \in Nat
      /\ 2 * (b * (2 * s)) <= 2 * (7 * c) + 2 * s
      /\ 2 * (7 * c) <= 2 * (b * (2 * s)) + 2 * s
  BY <1>2, <1>4, <1>5, RoundedNearest
<1>7. b <= 7
  <2>1. 7 * c <= 7 * (2 * s)
    BY <1>4, <1>5
  <2>2. QED
    BY <1>2, <1>4, <1>5, <2>1, RoundedBound
<1>8. b * (2 * s) = 2 * (b * s) /\ b * s \in Nat
  BY <1>4, <1>6
<1>9. ASSUME m > 2 * s
      PROVE  b = 7
  BY <1>1, <1>2, <1>3, <1>4, <1>9, RoundedExact
<1>10. ASSUME m <= 2 * s
       PROVE  2 * (b * s) <= 7 * m + s /\ 7 * m <= 2 * (b * s) + s
  <2>1. c = m
    BY <1>1, <1>3, <1>4, <1>10
  <2>2. QED
    BY <1>1, <1>4, <1>6, <1>8, <2>1
<1>11. /\ b \in 0 .. 7
       /\ m <= 2 * s => 2 * (b * s) <= 7 * m + s /\ 7 * m <= 2 * (b * s) + s
       /\ m > 2 * s => b = 7
  BY <1>6, <1>7, <1>9, <1>10
<1>12. QED
  BY <1>11, Zenon DEF s, m, b

(* And the larger of two velocities has not the smaller bucket.            *)
LEMMA VelocityBucketOrder ==
  ASSUME Deviation \in Nat \ {0}, NEW u \in Int, NEW v \in Int,
         Codec!Magnitude(u) <= Codec!Magnitude(v)
  PROVE  Codec!VelocityBucket(u) <= Codec!VelocityBucket(v)
<1> DEFINE s == Deviation
           c == Codec!AtMost(Codec!Magnitude(u), 2 * s)
           d == Codec!AtMost(Codec!Magnitude(v), 2 * s)
<1>1. Codec!Magnitude(u) \in Nat /\ Codec!Magnitude(v) \in Nat /\ s \in Nat \ {0}
  BY MagnitudeNat
<1>2. c \in Nat /\ d \in Nat /\ c <= d
  BY <1>1 DEF Codec!AtMost
<1>3. Codec!VelocityBucket(u) = Codec!Rounded(7 * c, 2 * s)
      /\ Codec!VelocityBucket(v) = Codec!Rounded(7 * d, 2 * s)
  BY DEF Codec!VelocityBucket, Codec!MAX_VEL_BUCKET, Deviation
<1> HIDE DEF c, d, s
<1>4. 7 * c \in Nat /\ 7 * d \in Nat /\ 7 * c <= 7 * d /\ 2 * s \in Nat \ {0}
  BY <1>1, <1>2
<1>5. QED
  BY <1>3, <1>4, RoundedOrder

(* The zscore bucket: one of four, to within half a deviation of the       *)
(* distance to the baseline, up to three.                                  *)
LEMMA ZScoreBucketBounds ==
  ASSUME Deviation \in Nat \ {0}, NEW value \in Int, baseline.baseline_mean \in Int
  PROVE  LET b == Codec!ZScoreBucket(value)
             c == Codec!AtMost(Codec!Magnitude(value - baseline.baseline_mean), 3 * Deviation)
         IN /\ b \in 0 .. 3 /\ c \in Nat
            /\ 2 * (b * Deviation) <= 2 * c + Deviation
            /\ 2 * c <= 2 * (b * Deviation) + Deviation
<1> DEFINE s == Deviation
           m == Codec!Magnitude(value - baseline.baseline_mean)
           c == Codec!AtMost(m, 3 * s)
           b == Codec!ZScoreBucket(value)
<1>1. value - baseline.baseline_mean \in Int
  OBVIOUS
<1>2. m \in Nat
  BY <1>1, MagnitudeNat
<1>3. b = Codec!Rounded(c, s)
  BY DEF Codec!ZScoreBucket, Deviation
<1>4. c \in Nat /\ c <= 3 * s
  BY <1>2 DEF Codec!AtMost
<1> HIDE DEF b, c, m
<1>5. /\ b \in Nat /\ b <= 3
      /\ 2 * (b * s) <= 2 * c + s /\ 2 * c <= 2 * (b * s) + s
  BY <1>3, <1>4, RoundedNearest, RoundedBound
<1>6. /\ b \in 0 .. 3 /\ c \in Nat
      /\ 2 * (b * s) <= 2 * c + s /\ 2 * c <= 2 * (b * s) + s
  BY <1>4, <1>5
<1>7. QED
  BY <1>6, Zenon DEF b, c, m

(* The fields of a byte can be told apart.                                 *)
LEMMA FieldsUnpacked ==
  ASSUME NEW a \in {0, 1}, NEW v \in 0 .. 7, NEW z \in 0 .. 3, NEW e \in {0, 1}, NEW t \in {0, 1}
  PROVE  LET byte == 128 * a + 16 * v + 4 * z + 2 * e + t
         IN /\ byte \in Nat
            /\ byte \div 128 = a
            /\ (byte \div 16) % 8 = v
            /\ (byte \div 4) % 4 = z
            /\ (byte \div 2) % 2 = e
            /\ byte % 2 = t
<1> DEFINE byte == 128 * a + 16 * v + 4 * z + 2 * e + t
<1>1. byte \div 128 = a
  OBVIOUS
<1>2. byte \div 16 = 8 * a + v
  OBVIOUS
<1>3. byte \div 4 = 32 * a + 4 * v + z
  OBVIOUS
<1>4. byte \div 2 = 64 * a + 8 * v + 2 * z + e
  OBVIOUS
<1>5. byte % 2 = t
  OBVIOUS
<1>6. byte \in Nat
  OBVIOUS
<1>7. (8 * a + v) % 8 = v /\ (32 * a + 4 * v + z) % 4 = z
      /\ (64 * a + 8 * v + 2 * z + e) % 2 = e
  OBVIOUS
<1>8. QED
  BY <1>1, <1>2, <1>3, <1>4, <1>5, <1>6, <1>7

(* What the decoder reads in the byte of a point.                          *)
LEMMA PointDecoded ==
  ASSUME Deviation \in Nat \ {0}, baseline.baseline_mean \in Int,
         NEW value \in Int, NEW v \in Int
  PROVE  LET point == Codec!Decoded(Codec!Byte(value, v))
         IN /\ Codec!Byte(value, v) \in Nat
            /\ point.velocity_est = IF v = 0 THEN 0
                                    ELSE IF v > 0 THEN 2 * (Codec!VelocityBucket(v) * Deviation)
                                    ELSE -(2 * (Codec!VelocityBucket(v) * Deviation))
            /\ point.zscore_est = Codec!ZScoreBucket(value)
            /\ point.is_extreme <=> Codec!IsExtreme(value)
            /\ point.is_static <=> v = 0
<1> DEFINE a == Codec!Bit(v >= 0)
           b == Codec!VelocityBucket(v)
           z == Codec!ZScoreBucket(value)
           e == Codec!Bit(Codec!IsExtreme(value))
           t == Codec!Bit(v = 0)
           byte == Codec!Byte(value, v)
           s == Deviation
           sign == IF byte \div 128 = 0 THEN -1 ELSE 1
<1>1. a \in {0, 1} /\ e \in {0, 1} /\ t \in {0, 1}
  BY DEF Codec!Bit
<1>2. b \in 0 .. 7 /\ z \in 0 .. 3
  BY VelocityBucketBounds, ZScoreBucketBounds
<1>3. byte = 128 * a + 16 * b + 4 * z + 2 * e + t
  BY DEF Codec!Byte
<1>4. (a = 1 <=> v >= 0) /\ (e = 1 <=> Codec!IsExtreme(value)) /\ (t = 1 <=> v = 0)
  BY DEF Codec!Bit
<1>5. Codec!Decoded(byte) =
        [velocity_est |-> IF byte % 2 = 1 THEN 0 ELSE sign * ((byte \div 16) % 8) * 2 * s,
         zscore_est   |-> (byte \div 4) % 4,
         is_extreme   |-> (byte \div 2) % 2 = 1,
         is_static    |-> byte % 2 = 1]
  BY DEF Codec!Decoded, Deviation
<1> HIDE DEF a, b, z, e, t, byte, s
<1>6. /\ byte \in Nat
      /\ byte \div 128 = a /\ (byte \div 16) % 8 = b /\ (byte \div 4) % 4 = z
      /\ (byte \div 2) % 2 = e /\ byte % 2 = t
  BY <1>1, <1>2, <1>3, FieldsUnpacked
<1>7. s \in Nat \ {0}
  BY DEF s
<1>8. /\ Codec!Decoded(byte).zscore_est = z
      /\ Codec!Decoded(byte).is_extreme <=> Codec!IsExtreme(value)
      /\ Codec!Decoded(byte).is_static <=> v = 0
  <2>1. Codec!Decoded(byte).zscore_est = z
    BY <1>5, <1>6
  <2>2. /\ Codec!Decoded(byte).is_extreme = ((byte \div 2) % 2 = 1)
        /\ Codec!Decoded(byte).is_static = (byte % 2 = 1)
    <3> DEFINE est == IF byte % 2 = 1 THEN 0 ELSE sign * ((byte \div 16) % 8) * 2 * s
               far == (byte \div 2) % 2 = 1
               still == byte % 2 = 1
               near == (byte \div 4) % 4
    <3>1. Codec!Decoded(byte) = [velocity_est |-> est, zscore_est |-> near,
                                 is_extreme |-> far, is_static |-> still]
      BY <1>5, Zenon
    <3> HIDE DEF est, far, still, near
    <3>2. Codec!Decoded(byte).is_extreme = far /\ Codec!Decoded(byte).is_static = still
      BY <3>1
    <3>3. QED
      BY <3>2, Zenon DEF far, still
  <2>3. Codec!Decoded(byte).is_extreme = (e = 1) /\ Codec!Decoded(byte).is_static = (t = 1)
    BY <1>6, <2>2, Zenon
  <2>4. QED
    BY <1>4, <2>1, <2>3, Zenon
<1>9. Codec!Decoded(byte).velocity_est =
        IF v = 0 THEN 0 ELSE IF v > 0 THEN 2 * (b * s) ELSE -(2 * (b * s))
  <2>1. 1 * b * 2 * s = 2 * (b * s) /\ (-1) * b * 2 * s = -(2 * (b * s))
    BY <1>2, <1>7
  <2>2. Codec!Decoded(byte).velocity_est =
          IF t = 1 THEN 0 ELSE (IF a = 0 THEN -1 ELSE 1) * b * 2 * s
    BY <1>5, <1>6
  <2>3. CASE v = 0
    BY <1>4, <2>2, <2>3
  <2>4. CASE v > 0
    <3>1. t # 1 /\ a # 0
      BY <1>1, <1>4, <2>4
    <3>2. Codec!Decoded(byte).velocity_est = 1 * b * 2 * s
      BY <2>2, <3>1
    <3>3. QED
      BY <2>1, <2>4, <3>2
  <2>5. CASE v < 0
    <3>1. t # 1 /\ a = 0
      BY <1>1, <1>4, <2>5
    <3>2. Codec!Decoded(byte).velocity_est = (-1) * b * 2 * s
      BY <2>2, <3>1
    <3>3. QED
      BY <2>1, <2>5, <3>2
  <2>6. QED
    BY <2>3, <2>4, <2>5
<1>10. /\ byte \in Nat
       /\ Codec!Decoded(byte).velocity_est =
            IF v = 0 THEN 0 ELSE IF v > 0 THEN 2 * (b * s) ELSE -(2 * (b * s))
       /\ Codec!Decoded(byte).zscore_est = z
       /\ Codec!Decoded(byte).is_extreme <=> Codec!IsExtreme(value)
       /\ Codec!Decoded(byte).is_static <=> v = 0
  BY <1>6, <1>8, <1>9
<1>11. QED
  BY <1>10, Zenon DEF byte, b, s, z

-----------------------------------------------------------------------------
(* The bytes are those of the points, each with its move from the point    *)
(* before.                                                                 *)
Encoded ==
  /\ baseline \in Baselines /\ prev_value \in Values
  /\ values \in Seq(Values) /\ encoded \in Seq(Nat)
  /\ Len(encoded) = Len(values)
  /\ last_value = IF values = << >> THEN prev_value ELSE values[Len(values)]
  /\ \A i \in 1 .. Len(values) : encoded[i] = Codec!Byte(values[i], Codec!VelocityAt(i))

CodecInv == Encoded \/ NotEncoding

LEMMA BaselineTyped ==
  ASSUME Encoded
  PROVE  /\ baseline.baseline_mean \in Int /\ baseline.baseline_std \in Nat
         /\ Deviation \in Nat \ {0}
<1>1. baseline.baseline_mean \in Int /\ baseline.baseline_std \in Nat
  BY BaselinesAssumption DEF Encoded
<1>2. QED
  BY <1>1, DeviationPositive

LEMMA VelocityInt ==
  ASSUME Encoded, NEW i \in 1 .. Len(values)
  PROVE  values[i] \in Int /\ Codec!VelocityAt(i) \in Int
<1>1. /\ values \in Seq(Values) /\ prev_value \in Int /\ \A v \in Values : v \in Int
      /\ Len(values) \in Nat
  BY ValuesAssumption DEF Encoded
<1>2. values[i] \in Int /\ (i # 1 => values[i - 1] \in Int)
  BY <1>1
<1>3. QED
  BY <1>1, <1>2 DEF Codec!VelocityAt

(* A point encoded adds its byte.                                          *)
LEMMA EncodeKeeps ==
  ASSUME Encoded, NEW value \in Values, Codec!EncodePoint(value)
  PROVE  Encoded'
<1> DEFINE byte == Codec!Byte(value, value - last_value)
<1>0. PICK n \in Nat : n = Len(values)
  BY DEF Encoded
<1>1. /\ encoded' = Append(encoded, byte) /\ values' = Append(values, value)
      /\ last_value' = value /\ UNCHANGED <<baseline, prev_value>>
  BY DEF Codec!EncodePoint
<1>2. /\ values \in Seq(Values) /\ encoded \in Seq(Nat) /\ Len(encoded) = n /\ n \in Nat
      /\ Len(values) = n
      /\ value \in Int /\ last_value = IF n = 0 THEN prev_value ELSE values[n]
  BY <1>0, ValuesAssumption DEF Encoded
<1>3. last_value \in Int
  <2>1. prev_value \in Int /\ (n # 0 => values[n] \in Values)
    BY <1>2, ValuesAssumption DEF Encoded
  <2>2. QED
    BY <1>2, <2>1, ValuesAssumption
<1>4. byte \in Nat
  <2>1. value - last_value \in Int
    BY <1>2, <1>3
  <2>2. QED
    BY <1>2, <2>1, BaselineTyped, PointDecoded
<1> HIDE DEF byte
<1>5. /\ encoded' \in Seq(Nat) /\ Len(encoded') = n + 1
      /\ encoded'[n + 1] = byte
      /\ \A i \in 1 .. n : encoded'[i] = encoded[i]
      /\ values' \in Seq(Values) /\ Len(values') = n + 1
      /\ values'[n + 1] = value
      /\ \A i \in 1 .. n : values'[i] = values[i]
  BY <1>1, <1>2, <1>4, AppendProperties
<1>6. /\ \A i \in 1 .. n : Codec!VelocityAt(i)' = Codec!VelocityAt(i)
      /\ Codec!VelocityAt(n + 1)' = value - last_value
  <2>1. ASSUME NEW i \in 1 .. n
        PROVE  Codec!VelocityAt(i)' = Codec!VelocityAt(i)
    <3>1. i # 1 => i - 1 \in 1 .. n
      BY <1>2
    <3>2. QED
      BY <1>1, <1>5, <3>1 DEF Codec!VelocityAt
  <2>2. Codec!VelocityAt(n + 1)' = value - last_value
    <3>1. CASE n = 0
      BY <1>1, <1>2, <1>5, <3>1 DEF Codec!VelocityAt
    <3>2. CASE n # 0
      <4>1. n \in 1 .. n /\ n + 1 # 1 /\ (n + 1) - 1 = n
        BY <1>2, <3>2
      <4>2. QED
        BY <1>1, <1>2, <1>5, <3>2, <4>1 DEF Codec!VelocityAt
    <3>3. QED
      BY <3>1, <3>2
  <2>3. QED
    BY <2>1, <2>2
<1>7. \A a, b : Codec!Byte(a, b)' = Codec!Byte(a, b)
  BY <1>1 DEF Codec!Byte, Codec!VelocityBucket, Codec!ZScoreBucket, Codec!IsExtreme,
    Codec!std_safe
<1>8. \A i \in 1 .. n + 1 : encoded'[i] = Codec!Byte(values'[i], Codec!VelocityAt(i)')
  <2>1. \A i \in 1 .. n + 1 : i \in 1 .. n \/ i = n + 1
    BY <1>2
  <2>2. \A i \in 1 .. n : encoded'[i] = Codec!Byte(values'[i], Codec!VelocityAt(i)')
    BY <1>2, <1>5, <1>6 DEF Encoded
  <2>3. encoded'[n + 1] = Codec!Byte(values'[n + 1], Codec!VelocityAt(n + 1)')
    BY <1>5, <1>6 DEF byte
  <2>4. QED
    BY <2>1, <2>2, <2>3
<1>9. values' # << >>
  BY <1>2, <1>5
<1>10. QED
  BY <1>1, <1>5, <1>7, <1>8, <1>9 DEF Encoded

(* What is read back of one point.                                         *)
LEMMA PointRecovered ==
  ASSUME Encoded, NEW i \in 1 .. Len(values)
  PROVE  LET point == Codec!Decoded(encoded[i])
             v == Codec!VelocityAt(i)
             m == Codec!Magnitude(v)
             s == Deviation
             distance == Codec!Magnitude(values[i] - baseline.baseline_mean)
         IN /\ m <= 2 * s => Codec!Magnitude(7 * v - point.velocity_est) <= s
            /\ m > 2 * s => Codec!Magnitude(point.velocity_est) = 7 * 2 * s
            /\ point.velocity_est * v >= 0
            /\ point.is_static <=> v = 0
            /\ point.is_extreme <=> distance >= 3 * s
            /\ 2 * Codec!Magnitude(Codec!AtMost(distance, 3 * s) - point.zscore_est * s) <= s
<1> DEFINE v == Codec!VelocityAt(i)
           m == Codec!Magnitude(v)
           s == Deviation
           b == Codec!VelocityBucket(v)
           z == Codec!ZScoreBucket(values[i])
           distance == Codec!Magnitude(values[i] - baseline.baseline_mean)
           c == Codec!AtMost(distance, 3 * s)
           point == Codec!Decoded(encoded[i])
<1>1. v \in Int /\ values[i] \in Int /\ s \in Nat \ {0} /\ baseline.baseline_mean \in Int
  BY VelocityInt, BaselineTyped
<1>2. encoded[i] = Codec!Byte(values[i], v)
  BY DEF Encoded
<1>3. /\ point.velocity_est = IF v = 0 THEN 0 ELSE IF v > 0 THEN 2 * (b * s) ELSE -(2 * (b * s))
      /\ point.zscore_est = z
      /\ point.is_extreme <=> Codec!IsExtreme(values[i])
      /\ point.is_static <=> v = 0
  <2> DEFINE read == Codec!Decoded(Codec!Byte(values[i], v))
  <2>1. /\ read.velocity_est = IF v = 0 THEN 0 ELSE IF v > 0 THEN 2 * (b * s) ELSE -(2 * (b * s))
        /\ read.zscore_est = z
        /\ read.is_extreme <=> Codec!IsExtreme(values[i])
        /\ read.is_static <=> v = 0
    <3> HIDE DEF v
    <3>1. QED
      BY <1>1, PointDecoded
  <2>2. point = read
    BY <1>2, Zenon
  <2> HIDE DEF v, b, z, s, point, read
  <2>3. QED
    BY <2>1, <2>2, Zenon
<1>4. /\ b \in 0 .. 7
      /\ m <= 2 * s => 2 * (b * s) <= 7 * m + s /\ 7 * m <= 2 * (b * s) + s
      /\ m > 2 * s => b = 7
  BY <1>1, VelocityBucketBounds
<1>5. /\ z \in 0 .. 3 /\ c \in Nat
      /\ 2 * (z * s) <= 2 * c + s /\ 2 * c <= 2 * (z * s) + s
  BY <1>1, ZScoreBucketBounds
<1>6. Codec!IsExtreme(values[i]) <=> distance >= 3 * s
  BY DEF Codec!IsExtreme, Deviation
<1>7. m = IF v < 0 THEN -v ELSE v
  BY DEF Codec!Magnitude
<1> DEFINE est == point.velocity_est
<1>8. \A k \in Int : Codec!Magnitude(k) = IF k < 0 THEN -k ELSE k
  BY DEF Codec!Magnitude
<1> HIDE DEF v, m, s, b, z, c, est
<1>9. b * s \in Nat /\ z * s \in Nat /\ est \in Int
  BY <1>1, <1>3, <1>4, <1>5 DEF est
<1>10. est = IF v = 0 THEN 0 ELSE IF v > 0 THEN 2 * (b * s) ELSE -(2 * (b * s))
  BY <1>3 DEF est
<1>11. ASSUME m <= 2 * s PROVE Codec!Magnitude(7 * v - est) <= s
  BY <1>1, <1>4, <1>7, <1>8, <1>9, <1>10, <1>11
<1>12. ASSUME m > 2 * s PROVE Codec!Magnitude(est) = 7 * 2 * s
  BY <1>1, <1>4, <1>7, <1>8, <1>9, <1>10, <1>12
<1>13. est * v >= 0
  <2>1. CASE v = 0
    BY <1>9, <2>1
  <2>2. CASE v > 0
    BY <1>1, <1>9, <1>10, <2>2
  <2>3. CASE v < 0
    <3>1. est * v = (2 * (b * s)) * (-v)
      BY <1>1, <1>9, <1>10, <2>3
    <3>2. QED
      BY <1>1, <1>9, <2>3, <3>1
  <2>4. QED
    BY <1>1, <2>1, <2>2, <2>3
<1>14. 2 * Codec!Magnitude(c - z * s) <= s
  BY <1>1, <1>5, <1>8, <1>9
<1>15. point.is_static <=> v = 0
  BY <1>3
<1>16. point.is_extreme <=> distance >= 3 * s
  BY <1>3, <1>6
<1>17. point.zscore_est = z
  BY <1>3
<1>18. QED
  BY <1>11, <1>12, <1>13, <1>14, <1>15, <1>16, <1>17, Zenon DEF est, v, m, s, c, z

LEMMA EstimateOf ==
  ASSUME Encoded, NEW i \in 1 .. Len(values)
  PROVE  LET v == Codec!VelocityAt(i)
             e == Codec!VelocityBucket(v) * Deviation
         IN /\ e \in Nat
            /\ Codec!Decoded(encoded[i]).velocity_est =
                 IF v = 0 THEN 0 ELSE IF v > 0 THEN 2 * e ELSE -(2 * e)
<1> DEFINE v == Codec!VelocityAt(i)
           b == Codec!VelocityBucket(v)
<1>1. v \in Int /\ values[i] \in Int /\ Deviation \in Nat \ {0} /\ baseline.baseline_mean \in Int
  BY VelocityInt, BaselineTyped
<1>2. encoded[i] = Codec!Byte(values[i], v)
  BY DEF Encoded
<1>3. b \in 0 .. 7
  BY <1>1, VelocityBucketBounds
<1>4. Codec!Decoded(Codec!Byte(values[i], v)).velocity_est =
        IF v = 0 THEN 0 ELSE IF v > 0 THEN 2 * (b * Deviation) ELSE -(2 * (b * Deviation))
  <2> HIDE DEF v
  <2>1. QED
    BY <1>1, PointDecoded
<1> HIDE DEF b
<1>5. b * Deviation \in Nat
  BY <1>1, <1>3
<1>6. QED
  BY <1>2, <1>4, <1>5 DEF b

(* Of two moves the larger is not read back as the smaller.                *)
LEMMA EstimatesInOrder ==
  ASSUME Encoded, NEW i \in 1 .. Len(values), NEW j \in 1 .. Len(values),
         Codec!VelocityAt(i) < Codec!VelocityAt(j)
  PROVE  Codec!Decoded(encoded[i]).velocity_est <= Codec!Decoded(encoded[j]).velocity_est
<1> DEFINE u == Codec!VelocityAt(i)
           v == Codec!VelocityAt(j)
           a == Codec!VelocityBucket(u)
           b == Codec!VelocityBucket(v)
           s == Deviation
<1>1. u \in Int /\ v \in Int /\ s \in Nat \ {0} /\ u < v
  BY VelocityInt, BaselineTyped
<1>2. a \in 0 .. 7 /\ b \in 0 .. 7
  BY <1>1, VelocityBucketBounds
<1>3. /\ a * s \in Nat /\ b * s \in Nat
      /\ Codec!Decoded(encoded[i]).velocity_est =
           IF u = 0 THEN 0 ELSE IF u > 0 THEN 2 * (a * s) ELSE -(2 * (a * s))
      /\ Codec!Decoded(encoded[j]).velocity_est =
           IF v = 0 THEN 0 ELSE IF v > 0 THEN 2 * (b * s) ELSE -(2 * (b * s))
  BY EstimateOf
<1>4. /\ u >= 0 => a <= b
      /\ v <= 0 => b <= a
  <2>1. \A n \in Int : Codec!Magnitude(n) = IF n < 0 THEN -n ELSE n
    BY DEF Codec!Magnitude
  <2> HIDE DEF u, v
  <2>2. u >= 0 => Codec!Magnitude(u) <= Codec!Magnitude(v)
    BY <1>1, <2>1
  <2>3. v <= 0 => Codec!Magnitude(v) <= Codec!Magnitude(u)
    BY <1>1, <2>1
  <2>4. QED
    BY <1>1, <2>2, <2>3, VelocityBucketOrder
<1> HIDE DEF u, v, a, b, s
<1>5. /\ a <= b => a * s <= b * s
      /\ b <= a => b * s <= a * s
  <2>1. a = b \/ b >= a + 1 \/ a >= b + 1
    BY <1>2
  <2>2. QED
    BY <1>1, <1>2, <1>3, <2>1, ProductOrder
<1>6. QED
  BY <1>1, <1>3, <1>4, <1>5

LEMMA PointsRecovered ==
  ASSUME CodecInv
  PROVE  Codec!ValuesRecovered
<1>1. CASE NotEncoding
  <2>1. Len(encoded) = 0
    BY <1>1 DEF NotEncoding
  <2>2. QED
    BY <2>1 DEF Codec!ValuesRecovered, Codec!VelocityRecovered, Codec!DeviationRecovered,
      Codec!OrderRecovered
<1>2. CASE Encoded
  <2>1. Len(encoded) = Len(values)
    BY <1>2 DEF Encoded
  <2>2. \A i \in 1 .. Len(encoded) : Codec!decode_window_bits[i] = Codec!Decoded(encoded[i])
    BY DEF Codec!decode_window_bits
  <2>3. Codec!VelocityRecovered
    <3>1. SUFFICES ASSUME NEW i \in 1 .. Len(encoded)
                   PROVE  LET point == Codec!Decoded(encoded[i])
                              v == Codec!VelocityAt(i)
                              within == Codec!Magnitude(v) <= 2 * Codec!std_safe
                          IN /\ within => Codec!Magnitude(7 * v - point.velocity_est) <= Codec!std_safe
                             /\ ~within => Codec!Magnitude(point.velocity_est) = 7 * 2 * Codec!std_safe
                             /\ point.velocity_est * v >= 0
                             /\ point.is_static <=> v = 0
      BY <2>2, Zenon DEF Codec!VelocityRecovered
    <3>2. Codec!Magnitude(Codec!VelocityAt(i)) \in Int /\ Deviation \in Int
      BY <1>2, <2>1, VelocityInt, MagnitudeNat, BaselineTyped
    <3>3. ~(Codec!Magnitude(Codec!VelocityAt(i)) <= 2 * Deviation) <=>
            Codec!Magnitude(Codec!VelocityAt(i)) > 2 * Deviation
      BY <3>2
    <3>4. QED
      BY <1>2, <2>1, <3>3, PointRecovered, Zenon DEF Deviation
  <2>4. Codec!DeviationRecovered
    <3>1. SUFFICES ASSUME NEW i \in 1 .. Len(encoded)
                   PROVE  LET distance == Codec!Magnitude(values[i] - baseline.baseline_mean)
                              point == Codec!Decoded(encoded[i])
                          IN /\ point.is_extreme <=> distance >= 3 * Codec!std_safe
                             /\ 2 * Codec!Magnitude(Codec!AtMost(distance, 3 * Codec!std_safe)
                                                      - point.zscore_est * Codec!std_safe)
                                  <= Codec!std_safe
      BY <2>2, Zenon DEF Codec!DeviationRecovered
    <3>2. QED
      BY <1>2, <2>1, PointRecovered, Zenon DEF Deviation
  <2>5. Codec!OrderRecovered
    BY <1>2, <2>1, <2>2, EstimatesInOrder DEF Codec!OrderRecovered
  <2>6. QED
    BY <2>3, <2>4, <2>5 DEF Codec!ValuesRecovered
<1>3. QED
  BY <1>1, <1>2 DEF CodecInv

-----------------------------------------------------------------------------
(* Who is at work, and what it has handed to whom.                         *)
CallerInv ==
  /\ caller \in {"encoder", "library", "scan", "window"}
  /\ caller # "library" => fed = 0 /\ prev_bit = -1 /\ states = << >>
  /\ caller = "encoder" =>
       Encoded /\ windows = << >> /\ history = [s \in Signatures |-> << >>] /\ analysing = TRUE
  /\ caller = "window" => analysing /\ MoreWindows /\ bits = WindowBits

(* The stream of a window of points is as long as that window.             *)
HandedInv ==
  /\ caller = "library" => encoded = << >>
  /\ caller \in {"scan", "window"} /\ encoded # << >> =>
       /\ config.window_bits = 8 * Len(values) /\ config.max_windows = 0
       /\ BitCount(bytes) = 8 * Len(values) /\ Len(values) \in Nat \ {0}
       /\ windows # << >> => Len(bits) = 8 * Len(values)

EngineInv == CallerInv /\ HandedInv /\ ScanInv /\ CodecInv /\ EventInv

LEMMA EngineStarts == EngineInit => EngineInv
<1> SUFFICES ASSUME EngineInit PROVE EngineInv
  OBVIOUS
<1>1. PICK stream, words :
        /\ StartOf(stream) /\ Events!StartOf(words)
        /\ words \in Seq(Words)
        /\ stream = << >> \/ stream \in Seq([1 .. ByteBits -> {0, 1}])
        /\ caller \in {"scan", "library", "encoder"}
        /\ caller = "encoder" => Codec!Init /\ words = << >>
        /\ caller # "encoder" => NotEncoding
        /\ caller # "library" => words = << >>
  <2>1. << >> \in Seq(Words)
    BY EmptySeq
  <2>2. CASE \E stream \in Seq([1 .. ByteBits -> {0, 1}]) : CallOf(stream)
    <3>1. PICK stream \in Seq([1 .. ByteBits -> {0, 1}]) : CallOf(stream)
      BY <2>2
    <3>2. StartOf(stream) /\ Events!StartOf(<< >>) /\ NotEncoding /\ caller = "scan"
      BY <3>1 DEF CallOf
    <3>3. QED
      BY <2>1, <3>2
  <2>3. CASE \E words \in Seq(Words) : CallWith(words)
    <3>1. PICK words \in Seq(Words) : CallWith(words)
      BY <2>3
    <3>2. StartOf(<< >>) /\ Events!StartOf(words) /\ NotEncoding /\ caller = "library"
      BY <3>1 DEF CallWith
    <3>3. QED
      BY <3>2
  <2>4. CASE Encoding
    <3>1. StartOf(<< >>) /\ Events!StartOf(<< >>) /\ Codec!Init /\ caller = "encoder"
      BY <2>4 DEF Encoding
    <3>2. QED
      BY <2>1, <3>1
  <2>5. QED
    BY <2>2, <2>3, <2>4 DEF EngineInit
<1>2. config \in Configs
  BY DEF EngineInit
<1>3. /\ bytes = stream /\ windows = << >> /\ history = [s \in Signatures |-> << >>]
      /\ analysing = TRUE
  BY <1>1 DEF StartOf
<1>4. /\ bits = words /\ pending = 1 .. Steps /\ result = [i \in 1 .. Steps |-> Unset]
      /\ invalid = FALSE /\ fed = 0 /\ prev_bit = -1 /\ states = << >>
  BY <1>1 DEF Events!StartOf, Steps, Events!NoBit
<1>5. ScanInv
  <2>1. ConfigTyped
    BY <1>2, ByteStreamAssumption DEF ConfigTyped
  <2>2. BytesTyped
    <3>1. CASE stream = << >>
      <4>1. bytes \in Seq([1 .. 1 -> {0, 1}]) /\ 1 \in Nat \ {0}
        BY <1>3, <3>1, EmptySeq
      <4>2. \E w \in Nat \ {0} : bytes \in Seq([1 .. w -> {0, 1}])
        BY <4>1, Zenon
      <4>3. QED
        BY <4>2, Zenon DEF BytesTyped
    <3>2. CASE stream \in Seq([1 .. ByteBits -> {0, 1}])
      BY <1>3, <3>2, ByteStreamAssumption DEF BytesTyped
    <3>3. QED
      BY <1>1, <3>1, <3>2
  <2>3. QED
    BY <1>3, <2>1, <2>2, ScanStarts
<1>6. EventInv
  <2>1. bits \in Seq(Range(bits))
    <3>1. bits \in Seq(Words)
      BY <1>1, <1>4
    <3>2. \A i \in 1 .. Len(bits) : bits[i] \in Range(bits)
      BY <3>1 DEF Range
    <3>3. bits = [i \in 1 .. Len(bits) |-> bits[i]] /\ Len(bits) \in Nat
      BY <3>1
    <3>4. QED
      BY <3>2, <3>3, SeqDef
  <2>2. QED
    BY <1>4, <2>1, EventsStart
<1>7. caller = "encoder" => Encoded
  <2>1. SUFFICES ASSUME Codec!Init PROVE Encoded
    BY <1>1
  <2>2. /\ baseline \in Baselines /\ prev_value \in Values /\ values = << >>
        /\ last_value = prev_value /\ encoded = << >>
    BY <2>1 DEF Codec!Init
  <2>3. Len(values) = 0 /\ values \in Seq(Values) /\ encoded \in Seq(Nat)
    BY <2>2, EmptySeq
  <2>4. QED
    BY <2>2, <2>3 DEF Encoded
<1>8. CodecInv
  BY <1>1, <1>7 DEF CodecInv
<1>9. CallerInv
  BY <1>1, <1>3, <1>4, <1>7 DEF CallerInv
<1>10. HandedInv
  BY <1>1 DEF HandedInv, NotEncoding
<1>11. QED
  BY <1>5, <1>6, <1>8, <1>9, <1>10 DEF EngineInv

(* What a step that leaves a part alone leaves true of it.                 *)
LEMMA CodecStays ==
  ASSUME UNCHANGED codecVars
  PROVE  /\ CodecInv => CodecInv'
         /\ Encoded => Encoded'
<1>1. UNCHANGED <<baseline, prev_value, values, last_value, encoded>>
  BY DEF codecVars
<1>2. Encoded => Encoded'
  BY <1>1 DEF Encoded, Codec!Byte, Codec!VelocityBucket, Codec!ZScoreBucket, Codec!IsExtreme,
    Codec!std_safe, Codec!VelocityAt
<1>3. NotEncoding => NotEncoding'
  BY <1>1 DEF NotEncoding
<1>4. QED
  BY <1>2, <1>3 DEF CodecInv

LEMMA EventsStay ==
  ASSUME EventInv, UNCHANGED eventVars
  PROVE  EventInv'
<1>1. UNCHANGED <<bits, pending, result, invalid, fed, prev_bit, states>>
  BY DEF eventVars
<1>2. QED
  BY <1>1 DEF EventInv, LabelInv, FeedInv, Clean, Steps, StepIsClean, StepOf

LEMMA ScanStays ==
  ASSUME UNCHANGED vars
  PROVE  /\ ScanInv => ScanInv'
         /\ MoreWindows' = MoreWindows /\ WindowBits' = WindowBits
         /\ BitCount(bytes') = BitCount(bytes)
<1>1. UNCHANGED <<config, bytes, signature_of, windows, history, histogram, max_repetition,
                  analysing>>
  BY DEF vars, input
<1>2. MoreWindows' = MoreWindows /\ WindowBits' = WindowBits
  BY <1>1 DEF MoreWindows, WindowBits, Fits, start, step_bits, window_index, bytes_to_bits
<1>3. QED
  BY <1>1, <1>2 DEF ScanInv, ConfigTyped, BytesTyped, step_bits

(* A point encoded.                                                        *)
LEMMA PointKeeps ==
  ASSUME EngineInv, EncodePoint
  PROVE  EngineInv'
<1>1. caller = "encoder" /\ Codec!Next /\ UNCHANGED <<vars, caller, eventVars>>
  BY DEF EncodePoint
<1>2. UNCHANGED vars /\ UNCHANGED eventVars /\ caller' = caller
  BY <1>1
<1>3. PICK value \in Values : Codec!EncodePoint(value)
  BY <1>1 DEF Codec!Next
<1>4. Encoded
  BY <1>1 DEF EngineInv, CallerInv
<1>5. Encoded'
  BY <1>3, <1>4, EncodeKeeps
<1>6. ScanInv' /\ EventInv'
  BY <1>2, ScanStays, EventsStay DEF EngineInv
<1>7. CallerInv'
  BY <1>1, <1>2, <1>5 DEF EngineInv, CallerInv, vars, eventVars
<1>8. HandedInv'
  BY <1>1, <1>2 DEF HandedInv
<1>9. QED
  BY <1>5, <1>6, <1>7, <1>8 DEF EngineInv, CodecInv

(* The bytes of a window of points handed over as a stream.                *)
LEMMA BytesHandedOver ==
  ASSUME EngineInv, HandOver
  PROVE  \E n \in Nat \ {0} :
           /\ n = Len(encoded) /\ n = Len(values)
           /\ bytes' \in Seq([1 .. 8 -> {0, 1}]) /\ BitCount(bytes') = 8 * n
<1>0. PICK n \in Nat : n = Len(encoded)
  BY DEF HandOver, EngineInv, CallerInv, Encoded
<1>1. encoded # << >> /\ Encoded /\ bytes' = [i \in 1 .. n |-> Octet(encoded[i])]
  BY <1>0 DEF HandOver, EngineInv, CallerInv
<1>3. encoded \in Seq(Nat) /\ Len(values) = n /\ n \in Nat \ {0}
  BY <1>0, <1>1 DEF Encoded
<1>4. \A i \in 1 .. n : Octet(encoded[i]) \in [1 .. 8 -> {0, 1}]
  <2>1. SUFFICES ASSUME NEW i \in 1 .. n PROVE Octet(encoded[i]) \in [1 .. 8 -> {0, 1}]
    OBVIOUS
  <2>2. encoded[i] \in Nat
    BY <1>0, <1>3
  <2>3. \A k \in 1 .. 8 : PlaceValue[k] \in Nat \ {0}
    BY DEF PlaceValue
  <2>4. \A k \in 1 .. 8 : encoded[i] \div PlaceValue[k] \in Int
    BY <2>2, <2>3
  <2>5. \A q \in Int : q % 2 \in {0, 1}
    OBVIOUS
  <2>6. QED
    BY <2>4, <2>5 DEF Octet
<1>5. bytes' \in Seq([1 .. 8 -> {0, 1}]) /\ Len(bytes') = n /\ bytes'[1] \in [1 .. 8 -> {0, 1}]
  <2>1. bytes' \in [1 .. n -> [1 .. 8 -> {0, 1}]]
    BY <1>1, <1>4
  <2>2. bytes' \in Seq([1 .. 8 -> {0, 1}])
    BY <1>3, <2>1, SeqDef
  <2>3. Len(bytes') = n
    BY <1>3, <2>1
  <2>4. QED
    BY <1>3, <2>1, <2>2, <2>3
<1>6. bytes' # << >> /\ Len(bytes'[1]) = 8
  BY <1>3, <1>5
<1>7. BitCount(bytes)' = 8 * n
  <2>1. BitCount(bytes)' = Len(bytes') * Len(bytes'[1])
    BY <1>6 DEF BitCount
  <2>2. QED
    BY <1>3, <1>5, <1>6, <2>1
<1>8. QED
  BY <1>0, <1>3, <1>5, <1>7

LEMMA HandOverKeeps ==
  ASSUME EngineInv, HandOver
  PROVE  EngineInv'
<1>0. PICK n \in Nat \ {0} :
        /\ n = Len(encoded) /\ n = Len(values)
        /\ bytes' \in Seq([1 .. 8 -> {0, 1}]) /\ BitCount(bytes') = 8 * n
  BY BytesHandedOver
<1>1. /\ caller = "encoder" /\ encoded # << >> /\ caller' = "scan"
      /\ config' = [window_bits |-> 8 * n, step_bits |-> 8 * n, max_windows |-> 0,
                    lsb_first |-> TRUE, repetition_lookback |-> 0]
      /\ UNCHANGED <<windows, history, analysing>>
      /\ UNCHANGED codecVars /\ UNCHANGED eventVars
  BY <1>0 DEF HandOver
<1>2. /\ Encoded /\ windows = << >> /\ history = [s \in Signatures |-> << >>]
      /\ analysing = TRUE /\ EventInv
      /\ fed = 0 /\ prev_bit = -1 /\ states = << >>
  BY <1>1 DEF EngineInv, CallerInv
<1>3. ScanInv'
  <2>1. ConfigTyped'
    BY <1>0, <1>1 DEF ConfigTyped
  <2>2. BytesTyped'
    <3>1. \E w \in Nat \ {0} : bytes' \in Seq([1 .. w -> {0, 1}])
      <4>1. 8 \in Nat \ {0}
        OBVIOUS
      <4>2. QED
        BY <1>0, <4>1, Zenon
    <3>2. QED
      BY <3>1, Zenon DEF BytesTyped
  <2>3. /\ windows' = << >> /\ history' = [s \in Signatures |-> << >>] /\ analysing' = TRUE
        /\ Len(windows') = 0 /\ windows' \in Seq(AnalysedWindow) /\ << >> \in Seq(Nat)
    BY <1>1, <1>2, EmptySeq
  <2>4. history' \in [Signatures -> Seq(Nat)]
    BY <2>3
  <2>5. QED
    BY <2>1, <2>2, <2>3, <2>4 DEF ScanInv
<1>4. Encoded' /\ EventInv'
  BY <1>1, <1>2, CodecStays, EventsStay
<1>5. CallerInv'
  BY <1>1, <1>2 DEF CallerInv, eventVars
<1>6. HandedInv'
  BY <1>0, <1>1, <1>2 DEF HandedInv, codecVars
<1>7. QED
  BY <1>3, <1>4, <1>5, <1>6 DEF EngineInv, CodecInv

(* A window set out to be labelled.                                        *)
LEMMA BeginKeeps ==
  ASSUME EngineInv, BeginWindow
  PROVE  EngineInv'
<1>1. /\ caller = "scan" /\ analysing /\ MoreWindows /\ caller' = "window"
      /\ bits' = WindowBits /\ pending' = 1 .. Events!StepCount(WindowBits)
      /\ result' = [i \in 1 .. Events!StepCount(WindowBits) |-> Unset] /\ invalid' = FALSE
      /\ UNCHANGED vars /\ UNCHANGED codecVars /\ UNCHANGED <<fed, prev_bit, states>>
  BY DEF BeginWindow
<1>2. /\ CallerInv /\ HandedInv /\ ScanInv /\ CodecInv
      /\ fed = 0 /\ prev_bit = -1 /\ states = << >>
  BY <1>1 DEF EngineInv, CallerInv
<1>3. WindowBits \in Seq({0, 1}) /\ Len(WindowBits) = config.window_bits
  BY <1>1, <1>2, WindowIsCut
<1>4. /\ UNCHANGED config /\ UNCHANGED analysing /\ UNCHANGED windows
      /\ UNCHANGED encoded /\ UNCHANGED values
  BY <1>1 DEF vars, input, codecVars
<1>5. ScanInv' /\ MoreWindows' /\ WindowBits' = WindowBits /\ BitCount(bytes') = BitCount(bytes)
  BY <1>1, <1>2, ScanStays
<1>6. CodecInv'
  BY <1>1, <1>2, CodecStays
<1>7. EventInv'
  <2>1. bits' \in Seq(Range(bits'))
    <3>1. Len(bits') \in Nat /\ bits' = [i \in 1 .. Len(bits') |-> bits'[i]]
      BY <1>1, <1>3
    <3>2. \A i \in 1 .. Len(bits') : bits'[i] \in Range(bits')
      BY <1>1, <1>3 DEF Range
    <3>3. QED
      BY <3>1, <3>2, SeqDef
  <2>2. LabelInv'
    <3>1. Steps' = Events!StepCount(WindowBits)
      BY <1>1 DEF Steps, Events!StepCount
    <3>2. QED
      BY <1>1, <2>1, <3>1 DEF LabelInv
  <2>3. FeedInv'
    <3>1. Len(bits') \in Nat /\ states' = << >> /\ Len(states') = 0 /\ states' \in Seq(Labels)
      BY <1>1, <1>2, <1>3, EmptySeq
    <3>2. QED
      BY <1>1, <1>2, <3>1 DEF FeedInv
  <2>4. QED
    BY <2>2, <2>3 DEF EventInv
<1>8. CallerInv'
  BY <1>1, <1>2, <1>4, <1>5 DEF CallerInv
<1>9. HandedInv'
  BY <1>1, <1>2, <1>3, <1>4, <1>5 DEF HandedInv
<1>10. QED
  BY <1>5, <1>6, <1>7, <1>8, <1>9 DEF EngineInv

(* A window labelled, and analysed.                                        *)
LEMMA EndKeeps ==
  ASSUME EngineInv, EndWindow
  PROVE  EngineInv'
<1>1. /\ caller = "window" /\ caller' = "scan" /\ UNCHANGED codecVars /\ UNCHANGED eventVars
  BY DEF EndWindow
<1>2. PICK s \in Signatures : AnalyseWindow(s)
  BY DEF EndWindow
<1>3. /\ CallerInv /\ HandedInv /\ ScanInv /\ CodecInv /\ EventInv
      /\ MoreWindows /\ bits = WindowBits /\ fed = 0 /\ prev_bit = -1 /\ states = << >>
  BY <1>1 DEF EngineInv, CallerInv
<1>4. Len(bits) = config.window_bits
  BY <1>3, WindowIsCut
<1>5. /\ UNCHANGED config /\ UNCHANGED bytes
      /\ UNCHANGED encoded /\ UNCHANGED values /\ UNCHANGED bits
      /\ UNCHANGED <<fed, prev_bit, states>>
  BY <1>1, <1>2 DEF AnalyseWindow, input, codecVars, eventVars
<1>6. BitCount(bytes') = BitCount(bytes)
  BY <1>5
<1>7. ScanInv' /\ CodecInv' /\ EventInv'
  BY <1>1, <1>2, <1>3, AnalyseKeeps, CodecStays, EventsStay
<1>8. CallerInv'
  BY <1>1, <1>3, <1>5 DEF CallerInv
<1>9. HandedInv'
  BY <1>1, <1>3, <1>4, <1>5, <1>6 DEF HandedInv
<1>10. QED
  BY <1>7, <1>8, <1>9 DEF EngineInv

LEMMA FinishStreamKeeps ==
  ASSUME EngineInv, FinishStream
  PROVE  EngineInv'
<1>1. /\ caller = "scan" /\ caller' = "scan" /\ Finish
      /\ UNCHANGED codecVars /\ UNCHANGED eventVars
  BY DEF FinishStream
<1>2. UNCHANGED <<config, bytes, windows, encoded, values, bits, fed, prev_bit, states>>
  BY <1>1 DEF Finish, input, codecVars, eventVars
<1>3. ScanInv' /\ CodecInv' /\ EventInv'
  BY <1>1, FinishKeeps, CodecStays, EventsStay DEF EngineInv
<1>4. CallerInv'
  BY <1>1, <1>2 DEF EngineInv, CallerInv
<1>5. HandedInv'
  BY <1>1, <1>2 DEF EngineInv, HandedInv, BitCount
<1>6. QED
  BY <1>3, <1>4, <1>5 DEF EngineInv

(* An iteration run, for whichever caller.                                 *)
LEMMA LabelStepKeeps ==
  ASSUME EngineInv, Label
  PROVE  EngineInv'
<1>1. PICK i \in pending : Events!TransformAt(i)
  BY DEF Label
<1>2. UNCHANGED vars /\ UNCHANGED caller /\ UNCHANGED codecVars
  BY DEF Label
<1>3. UNCHANGED <<bits, fed, prev_bit, states>>
  BY <1>1 DEF Events!TransformAt
<1>4. CallerInv /\ HandedInv /\ ScanInv /\ CodecInv /\ EventInv
  BY DEF EngineInv
<1>5. ScanInv' /\ CodecInv' /\ EventInv'
  BY <1>1, <1>2, <1>4, LabelKeeps, CodecStays, ScanStays
<1>6. /\ MoreWindows' = MoreWindows /\ WindowBits' = WindowBits
      /\ BitCount(bytes') = BitCount(bytes)
  BY <1>2, ScanStays
<1>7. UNCHANGED <<config, windows, history, analysing, encoded, values>>
  BY <1>2 DEF vars, input, codecVars
<1>8. Encoded => Encoded'
  BY <1>2, CodecStays
<1>9. CallerInv'
  BY <1>2, <1>3, <1>4, <1>6, <1>7, <1>8 DEF CallerInv
<1>10. HandedInv'
  BY <1>2, <1>3, <1>4, <1>6, <1>7 DEF HandedInv
<1>11. QED
  BY <1>5, <1>9, <1>10 DEF EngineInv

(* A word fed to the processor, or its memory cleared.                     *)
LEMMA FeedKeeps ==
  ASSUME EngineInv, FeedProcessor
  PROVE  EngineInv'
<1>1. /\ caller = "library" /\ caller' = "library"
      /\ Events!Process \/ Events!Reset
      /\ UNCHANGED vars /\ UNCHANGED codecVars
  BY DEF FeedProcessor
<1>2. CallerInv /\ HandedInv /\ ScanInv /\ CodecInv /\ EventInv
  BY DEF EngineInv
<1>3. EventInv'
  BY <1>1, <1>2, ProcessKeeps, ResetKeeps
<1>4. ScanInv' /\ CodecInv'
  BY <1>1, <1>2, ScanStays, CodecStays
<1>5. UNCHANGED encoded
  BY <1>1 DEF codecVars
<1>6. CallerInv'
  BY <1>1 DEF CallerInv
<1>7. HandedInv'
  BY <1>1, <1>2, <1>5 DEF HandedInv
<1>8. QED
  BY <1>3, <1>4, <1>6, <1>7 DEF EngineInv

LEMMA EngineSteps == EngineInv /\ [EngineNext]_engineVars => EngineInv'
<1> SUFFICES ASSUME EngineInv, [EngineNext]_engineVars PROVE EngineInv'
  OBVIOUS
<1>1. CASE EncodePoint
  BY <1>1, PointKeeps
<1>2. CASE HandOver
  BY <1>2, HandOverKeeps
<1>3. CASE BeginWindow
  BY <1>3, BeginKeeps
<1>4. CASE EndWindow
  BY <1>4, EndKeeps
<1>5. CASE FinishStream
  BY <1>5, FinishStreamKeeps
<1>6. CASE Label
  BY <1>6, LabelStepKeeps
<1>7. CASE FeedProcessor
  BY <1>7, FeedKeeps
<1>8. CASE UNCHANGED engineVars
  <2>1. UNCHANGED vars /\ UNCHANGED caller /\ UNCHANGED codecVars /\ UNCHANGED eventVars
    BY <1>8 DEF engineVars
  <2>2. ScanInv' /\ CodecInv' /\ EventInv' /\ (Encoded => Encoded')
    BY <2>1, ScanStays, CodecStays, EventsStay DEF EngineInv
  <2>3. /\ MoreWindows' = MoreWindows /\ WindowBits' = WindowBits
        /\ BitCount(bytes') = BitCount(bytes)
    BY <2>1, ScanStays
  <2>4. /\ UNCHANGED <<config, windows, history, analysing, encoded, values>>
        /\ UNCHANGED <<bits, fed, prev_bit, states>>
    BY <2>1 DEF vars, input, codecVars, eventVars
  <2>5. CallerInv' /\ HandedInv'
    BY <2>1, <2>2, <2>3, <2>4 DEF EngineInv, CallerInv, HandedInv
  <2>6. QED
    BY <2>2, <2>5 DEF EngineInv
<1>9. QED
  BY <1>1, <1>2, <1>3, <1>4, <1>5, <1>6, <1>7, <1>8 DEF EngineNext

LEMMA EngineInvHolds == EngineSpec => []EngineInv
BY EngineStarts, EngineSteps, PTL DEF EngineSpec

-----------------------------------------------------------------------------
(* However the iterations of transform_rich interleave, and whatever words *)
(* a caller of the library hands over: the parallel labelling agrees with  *)
(* the processor, and a window of a byte stream gets its signature with    *)
(* the label of every step of its own bits.                                *)
THEOREM LabellingsAreEqual == EngineSpec => []BatchEqualsStream
<1>1. EngineInv => BatchEqualsStream
  <2> SUFFICES ASSUME EngineInv PROVE BatchEqualsStream
    OBVIOUS
  <2>1. CallerInv /\ ScanInv /\ EventInv
    BY DEF EngineInv
  <2>2. Events!BatchEqualsStream
    BY <2>1, LabellingsAgree
  <2>3. WindowsAreLabelled
    <3>1. SUFFICES ASSUME caller = "window", Events!Transformed
                   PROVE  /\ bits = WindowBits
                          /\ Len(Events!events) = Steps
                          /\ \A i \in DOMAIN Events!events : Events!events[i] = StepOf(i)
      BY DEF WindowsAreLabelled, Steps, StepOf
    <3>2. bits = WindowBits /\ bits \in Seq({0, 1})
      BY <2>1, <3>1, WindowIsCut DEF CallerInv
    <3>3. Clean(Len(bits))
      BY <3>2 DEF Clean, Events!IsBit
    <3>4. Events!events = result /\ \A i \in 1 .. Steps : result[i] = StepOf(i)
      BY <2>1, <3>1, <3>3, FlagIsHonest DEF Events!events
    <3>5. result \in [1 .. Steps -> Labels \cup {Unset}] /\ Steps \in Nat
      BY <2>1, StepsOf DEF EventInv, LabelInv
    <3>6. DOMAIN result = 1 .. Steps /\ Len(result) = Steps
      BY <3>5
    <3>7. QED
      BY <3>2, <3>4, <3>6
  <2>4. QED
    BY <2>2, <2>3 DEF BatchEqualsStream
<1>2. QED
  BY <1>1, EngineInvHolds, PTL

(* The decoder of the dashboard, which sees only the bytes, reads back the *)
(* sign and the bounded size of every move and the distance of every point *)
(* from its baseline, to half a bucket, and keeps the order of the moves.  *)
THEOREM PointsAreRecovered == EngineSpec => []ValuesRecovered
<1>1. EngineInv => ValuesRecovered
  BY PointsRecovered DEF EngineInv, ValuesRecovered
<1>2. QED
  BY <1>1, EngineInvHolds, PTL

(* An uncapped scan leaves fewer bits than a step, and the encoder, which  *)
(* reads the first window of the answer, gets exactly one, of all points.  *)
THEOREM StreamsAreCovered == EngineSpec => []StreamIsCovered
<1>1. EngineInv => StreamIsCovered
  <2> SUFFICES ASSUME EngineInv PROVE StreamIsCovered
    OBVIOUS
  <2>1. CallerInv /\ HandedInv /\ ScanInv /\ BitsAreCovered
    BY ScanCovers DEF EngineInv
  <2>2. ASSUME encoded # << >>, ~analysing
        PROVE  Len(windows) = 1 /\ Len(bits) = 8 * Len(values)
    <3>1. caller = "scan"
      BY <2>1, <2>2 DEF CallerInv, HandedInv
    <3>2. /\ config.window_bits = 8 * Len(values) /\ config.max_windows = 0
          /\ BitCount(bytes) = config.window_bits /\ config.window_bits > 0
          /\ windows # << >> => Len(bits) = 8 * Len(values)
      BY <2>1, <2>2, <3>1 DEF HandedInv
    <3>3. Len(windows) = 1
      BY <2>1, <2>2, <3>2 DEF BitsAreCovered
    <3>4. windows # << >>
      BY <3>3
    <3>5. QED
      BY <3>2, <3>3, <3>4
  <2>3. QED
    BY <2>1, <2>2 DEF StreamIsCovered
<1>2. QED
  BY <1>1, EngineInvHolds, PTL

-----------------------------------------------------------------------------
(* Repetitions: the windows that count for window i, and those whose       *)
(* count is k.                                                             *)
Repeats(i) ==
  {j \in 1 .. i :
    /\ windows[j].signature = windows[i].signature
    /\ config.repetition_lookback = 0 \/ i - j < config.repetition_lookback}

Counted(k) == {i \in Analysed : windows[i].repetition_count = k}

(* The history of a signature is the end of the list of its windows; those *)
(* left out are too old for the window analysed last, and so for any later *)
(* one.  Without a lookback a window's place in it is its count.           *)
IsHistory(indices, list, n, s, lookback) ==
  /\ \A k \in 1 .. Len(indices) :
       /\ indices[k] \in 0 .. n - 1
       /\ list[indices[k] + 1].signature = s
       /\ lookback = 0 => list[indices[k] + 1].repetition_count = k
  /\ \A k, l \in 1 .. Len(indices) : k < l => indices[k] < indices[l]
  /\ \A j \in 1 .. n :
       list[j].signature = s =>
         \/ \E k \in 1 .. Len(indices) : indices[k] = j - 1
         \/ lookback # 0 /\ n - j >= lookback

HistoryOf(s) ==
  IsHistory(history[s], windows, Len(windows), s, config.repetition_lookback)

CountInv ==
  /\ \A i \in Analysed : windows[i].repetition_count = Cardinality(Repeats(i))
  /\ \A i \in Analysed : windows[i].repetition_count \in 1 .. max_repetition
  /\ max_repetition \in 0 .. Len(windows)
  /\ windows # << >> => \E i \in Analysed : windows[i].repetition_count = max_repetition

HistogramInv ==
  /\ Len(windows) <= BitCount(bytes)
  /\ histogram \in [1 .. BitCount(bytes) -> Nat]
  /\ \A k \in 1 .. BitCount(bytes) : histogram[k] = Cardinality(Counted(k))

RepetitionInv == (\A s \in Signatures : HistoryOf(s)) /\ CountInv /\ HistogramInv

(* Popping the old indices off the front of a sorted history leaves those  *)
(* that are recalled, and without a lookback all.                          *)
LEMMA RecentIs ==
  ASSUME ScanInv, NEW s \in Signatures, HistoryOf(s)
  PROVE  LET h == history[s]
             r == Recent(h)
         IN /\ r \in Seq(Nat)
            /\ \A k \in 1 .. Len(r) :
                 \E l \in 1 .. Len(h) :
                   r[k] = h[l] /\ (config.repetition_lookback = 0 => l = k)
            /\ \A k, l \in 1 .. Len(r) : k < l => r[k] < r[l]
            /\ \A k \in 1 .. Len(r) : Recalled(r[k])
            /\ \A l \in 1 .. Len(h) : Recalled(h[l]) => \E k \in 1 .. Len(r) : r[k] = h[l]
<1> DEFINE h == history[s]
           r == Recent(h)
           stays == {k \in DOMAIN h : Recalled(h[k])}
<1>1. /\ h \in Seq(Nat) /\ Len(h) \in Nat /\ DOMAIN h = 1 .. Len(h)
      /\ \A k, l \in 1 .. Len(h) : k < l => h[k] < h[l]
      /\ \A k \in 1 .. Len(h) : h[k] \in Nat
  <2>1. h \in Seq(Nat) /\ \A k, l \in 1 .. Len(h) : k < l => h[k] < h[l]
    BY DEF ScanInv, HistoryOf, IsHistory
  <2> HIDE DEF h
  <2>2. QED
    BY <2>1
<1>2. window_index \in Nat /\ config.repetition_lookback \in Nat
  BY DEF ScanInv, ConfigTyped, window_index
<1>3. CASE stays = {}
  <2>1. r = << >> /\ Len(r) = 0 /\ r \in Seq(Nat)
    BY <1>3, EmptySeq DEF Recent
  <2>2. \A l \in 1 .. Len(h) : ~Recalled(h[l])
    BY <1>1, <1>3
  <2> HIDE DEF h, r
  <2>3. QED
    BY <2>1, <2>2 DEF h, r
<1>4. CASE stays # {}
  <2>1. PICK m \in stays : m = Min(stays) /\ \A k \in stays : m <= k
    <3>1. stays \in SUBSET Nat /\ stays # {}
      BY <1>1, <1>4
    <3>2. \E k \in stays : \A j \in stays : k <= j
      <4> HIDE DEF stays
      <4>1. QED
        BY <3>1, LeastIndex
    <3>3. QED
      BY <3>2 DEF Min
  <2>2. m \in 1 .. Len(h) /\ Recalled(h[m])
    BY <1>1, <2>1
  <2>3. r = SubSeq(h, m, Len(h))
    BY <1>4, <2>1 DEF Recent
  <2>4. /\ r \in Seq(Nat) /\ Len(r) = Len(h) - m + 1
        /\ \A k \in 1 .. Len(h) - m + 1 : r[k] = h[m + k - 1]
    <3>1. \A k \in m .. Len(h) : h[k] \in Nat
      BY <1>1, <2>2
    <3> HIDE DEF h, r, stays
    <3>2. QED
      BY <1>1, <2>2, <2>3, <3>1, SubSeqProperties
  <2>5. config.repetition_lookback = 0 => m = 1
    <3>1. config.repetition_lookback = 0 => 1 \in stays
      BY <1>1, <2>2 DEF Recalled
    <3> HIDE DEF stays
    <3>2. config.repetition_lookback = 0 => m <= 1
      BY <2>1, <3>1
    <3> HIDE DEF h
    <3>3. QED
      BY <1>1, <2>2, <3>2
  <2>6. \A k \in m .. Len(h) : Recalled(h[k])
    <3>1. SUFFICES ASSUME NEW k \in m .. Len(h) PROVE Recalled(h[k])
      OBVIOUS
    <3>2. h[m] <= h[k] /\ h[m] \in Nat /\ h[k] \in Nat
      BY <1>1, <2>2
    <3> HIDE DEF h
    <3>3. QED
      BY <1>2, <2>2, <3>2 DEF Recalled
  <2>7. \A l \in 1 .. Len(h) : Recalled(h[l]) => l >= m
    BY <1>1, <2>1
  <2> HIDE DEF h, r, stays
  <2>8. \A k \in 1 .. Len(r) : m + k - 1 \in m .. Len(h) /\ r[k] = h[m + k - 1]
    BY <1>1, <2>2, <2>4
  <2>9. \A k \in 1 .. Len(r) : Recalled(r[k])
    BY <2>6, <2>8
  <2>10. \A k, l \in 1 .. Len(r) : k < l => r[k] < r[l]
    <3>1. SUFFICES ASSUME NEW k \in 1 .. Len(r), NEW l \in 1 .. Len(r), k < l
                   PROVE  r[k] < r[l]
      OBVIOUS
    <3>2. /\ m + k - 1 \in 1 .. Len(h) /\ m + l - 1 \in 1 .. Len(h)
          /\ m + k - 1 < m + l - 1
      BY <1>1, <2>2, <2>8, <3>1
    <3>3. h[m + k - 1] < h[m + l - 1]
      BY <1>1, <3>2
    <3>4. QED
      BY <2>8, <3>3
  <2>11. \A l \in 1 .. Len(h) : Recalled(h[l]) => \E k \in 1 .. Len(r) : r[k] = h[l]
    <3>1. SUFFICES ASSUME NEW l \in 1 .. Len(h), Recalled(h[l])
                   PROVE  \E k \in 1 .. Len(r) : r[k] = h[l]
      OBVIOUS
    <3>2. l - m + 1 \in 1 .. Len(r) /\ m + (l - m + 1) - 1 = l
      BY <1>1, <2>2, <2>4, <2>7, <3>1
    <3>3. QED
      BY <2>8, <3>2
  <2>12. \A k \in 1 .. Len(r) :
           \E l \in 1 .. Len(h) : r[k] = h[l] /\ (config.repetition_lookback = 0 => l = k)
    <3>1. SUFFICES ASSUME NEW k \in 1 .. Len(r)
                   PROVE  \E l \in 1 .. Len(h) :
                            r[k] = h[l] /\ (config.repetition_lookback = 0 => l = k)
      OBVIOUS
    <3>2. m + k - 1 \in 1 .. Len(h) /\ (m = 1 => m + k - 1 = k)
      BY <1>1, <2>2, <2>8
    <3>3. QED
      BY <2>5, <2>8, <3>2
  <2>13. QED
    BY <2>4, <2>9, <2>10, <2>11, <2>12 DEF h, r
<1>5. QED
  BY <1>3, <1>4

(* What a turn of the loop adds.                                           *)
LEMMA WindowAdded ==
  ASSUME ScanInv, NEW s \in Signatures, AnalyseWindow(s)
  PROVE  \E n \in Nat, indices \in Seq(Nat) :
           /\ n = Len(windows) /\ indices = Append(Recent(history[s]), n)
           /\ Len(windows') = n + 1
           /\ \A i \in 1 .. n : windows'[i] = windows[i]
           /\ windows'[n + 1].signature = s
           /\ windows'[n + 1].repetition_count = Len(indices)
           /\ history' = [history EXCEPT ![s] = indices]
           /\ histogram' = [histogram EXCEPT ![Len(indices)] = @ + 1]
           /\ max_repetition' = MaxRepetition(Len(indices))
           /\ UNCHANGED <<config, bytes>>
<1> DEFINE n == Len(windows)
           indices == Append(Recent(history[s]), n)
           window == [offset_bits |-> start, signature |-> s, repetition_count |-> Len(indices)]
<1>1. /\ windows' = Append(windows, window)
      /\ history' = [history EXCEPT ![s] = indices]
      /\ histogram' = [histogram EXCEPT ![Len(indices)] = @ + 1]
      /\ max_repetition' = MaxRepetition(Len(indices))
      /\ UNCHANGED <<config, bytes>>
      /\ MoreWindows
  BY DEF AnalyseWindow, input, window_index
<1>2. windows \in Seq(AnalysedWindow) /\ n \in Nat /\ history \in [Signatures -> Seq(Nat)]
  BY DEF ScanInv
<1>3. indices \in Seq(Nat) /\ Len(indices) \in Nat
  BY <1>2, RecentTyped
<1>4. start \in Nat
  BY <1>1, WindowIsCut
<1>5. window \in AnalysedWindow
  <2> HIDE DEF indices
  <2>1. QED
    BY <1>3, <1>4 DEF AnalysedWindow
<1>6. window.signature = s /\ window.repetition_count = Len(indices)
  OBVIOUS
<1> HIDE DEF window, indices
<1>7. PICK m \in Nat : m = n
  BY <1>2
<1>8. /\ Len(windows') = m + 1 /\ windows'[m + 1] = window
      /\ \A i \in 1 .. m : windows'[i] = windows[i]
  BY <1>1, <1>2, <1>5, <1>7, AppendProperties
<1>9. /\ windows'[m + 1].signature = s
      /\ windows'[m + 1].repetition_count = Len(indices)
  BY <1>6, <1>8
<1>10. indices = Append(Recent(history[s]), m)
  BY <1>7 DEF indices
<1>11. QED
  BY <1>1, <1>3, <1>7, <1>8, <1>9, <1>10

(* The history of the signature of the new window, n, lists, in their      *)
(* order, the windows that count for it.                                   *)
Lists(indices, list, n, s) ==
  /\ \A k \in 1 .. Len(indices) :
       /\ indices[k] \in 0 .. n /\ Recalled(indices[k])
       /\ list[indices[k] + 1].signature = s
       /\ config.repetition_lookback = 0 => list[indices[k] + 1].repetition_count = k
  /\ \A k, l \in 1 .. Len(indices) : k < l => indices[k] < indices[l]
  /\ \A j \in 1 .. n + 1 :
       list[j].signature = s =>
         ~Recalled(j - 1) \/ \E k \in 1 .. Len(indices) : indices[k] = j - 1

LEMMA IndicesOf ==
  ASSUME ScanInv, RepetitionInv, NEW s \in Signatures, AnalyseWindow(s),
         NEW n \in Nat, n = Len(windows),
         NEW indices \in Seq(Nat), indices = Append(Recent(history[s]), n),
         \A i \in 1 .. n : windows'[i] = windows[i],
         windows'[n + 1].signature = s,
         windows'[n + 1].repetition_count = Len(indices)
  PROVE  Len(indices) \in Nat \ {0} /\ Lists(indices, windows', n, s)
<1>1. PICK h \in Seq(Nat), r \in Seq(Nat) :
        /\ h = history[s] /\ r = Recent(h)
        /\ \A k \in 1 .. Len(r) :
             \E l \in 1 .. Len(h) :
               r[k] = h[l] /\ (config.repetition_lookback = 0 => l = k)
        /\ \A k, l \in 1 .. Len(r) : k < l => r[k] < r[l]
        /\ \A k \in 1 .. Len(r) : Recalled(r[k])
        /\ \A l \in 1 .. Len(h) : Recalled(h[l]) => \E k \in 1 .. Len(r) : r[k] = h[l]
  <2>1. history[s] \in Seq(Nat) /\ HistoryOf(s)
    BY DEF ScanInv, RepetitionInv
  <2>2. QED
    BY <2>1, RecentIs
<1>2. PICK m \in Nat : m = Len(r)
  BY <1>1
<1>3. /\ Len(indices) = m + 1 /\ indices[m + 1] = n
      /\ \A k \in 1 .. m : indices[k] = r[k]
  BY <1>1, <1>2, AppendProperties
<1>4. \A k \in 1 .. Len(indices) : k \in 1 .. m \/ k = m + 1
  BY <1>2, <1>3
<1>5. window_index = n /\ config.repetition_lookback \in Nat
  BY DEF window_index, ScanInv, ConfigTyped
<1>6. \A l \in 1 .. Len(h) :
        /\ h[l] \in 0 .. n - 1 /\ windows[h[l] + 1].signature = s
        /\ config.repetition_lookback = 0 => windows[h[l] + 1].repetition_count = l
  BY <1>1 DEF RepetitionInv, HistoryOf, IsHistory
<1>7. \A k \in 1 .. m :
        /\ indices[k] \in 0 .. n - 1 /\ Recalled(indices[k])
        /\ windows'[indices[k] + 1].signature = s
        /\ config.repetition_lookback = 0 => windows'[indices[k] + 1].repetition_count = k
  <2>1. SUFFICES ASSUME NEW k \in 1 .. m
                 PROVE  /\ indices[k] \in 0 .. n - 1 /\ Recalled(indices[k])
                        /\ windows'[indices[k] + 1].signature = s
                        /\ config.repetition_lookback = 0 =>
                             windows'[indices[k] + 1].repetition_count = k
    OBVIOUS
  <2>2. PICK l \in 1 .. Len(h) : r[k] = h[l] /\ (config.repetition_lookback = 0 => l = k)
    BY <1>1, <1>2
  <2>3. indices[k] = h[l] /\ Recalled(indices[k])
    BY <1>1, <1>2, <1>3, <2>2
  <2>4. h[l] \in 0 .. n - 1 /\ h[l] + 1 \in 1 .. n
    BY <1>6
  <2>5. windows'[h[l] + 1] = windows[h[l] + 1]
    BY <2>4
  <2>6. QED
    BY <1>6, <2>2, <2>3, <2>4, <2>5
<1>8. /\ indices[m + 1] \in 0 .. n /\ Recalled(indices[m + 1])
      /\ windows'[indices[m + 1] + 1].signature = s
  BY <1>3, <1>5 DEF Recalled
<1>9. windows'[indices[m + 1] + 1].repetition_count = m + 1
  BY <1>3
<1>10. \A k \in 1 .. Len(indices) :
         /\ indices[k] \in 0 .. n /\ Recalled(indices[k])
         /\ windows'[indices[k] + 1].signature = s
         /\ config.repetition_lookback = 0 => windows'[indices[k] + 1].repetition_count = k
  <2>1. SUFFICES ASSUME NEW k \in 1 .. Len(indices)
                 PROVE  /\ indices[k] \in 0 .. n /\ Recalled(indices[k])
                        /\ windows'[indices[k] + 1].signature = s
                        /\ config.repetition_lookback = 0 =>
                             windows'[indices[k] + 1].repetition_count = k
    OBVIOUS
  <2>2. CASE k \in 1 .. m
    BY <1>7, <2>2
  <2>3. CASE k = m + 1
    BY <1>8, <1>9, <2>3
  <2>4. QED
    BY <1>4, <2>2, <2>3
<1>11. \A k, l \in 1 .. Len(indices) : k < l => indices[k] < indices[l]
  <2>1. SUFFICES ASSUME NEW k \in 1 .. Len(indices), NEW l \in 1 .. Len(indices), k < l
                 PROVE  indices[k] < indices[l]
    OBVIOUS
  <2>2. k \in 1 .. m
    BY <1>2, <1>3, <2>1
  <2>3. CASE l = m + 1
    BY <1>3, <1>7, <2>2, <2>3
  <2>4. CASE l \in 1 .. m
    <3>1. r[k] < r[l]
      BY <1>1, <1>2, <2>1, <2>2, <2>4
    <3>2. indices[k] = r[k] /\ indices[l] = r[l]
      BY <1>3, <2>2, <2>4
    <3>3. QED
      BY <3>1, <3>2
  <2>5. QED
    BY <1>4, <2>3, <2>4
<1>12. \A j \in 1 .. n + 1 :
         windows'[j].signature = s =>
           ~Recalled(j - 1) \/ \E k \in 1 .. Len(indices) : indices[k] = j - 1
  <2>1. SUFFICES ASSUME NEW j \in 1 .. n + 1, windows'[j].signature = s, Recalled(j - 1)
                 PROVE  \E k \in 1 .. Len(indices) : indices[k] = j - 1
    OBVIOUS
  <2>2. CASE j = n + 1
    <3>1. m + 1 \in 1 .. Len(indices) /\ indices[m + 1] = j - 1
      BY <1>2, <1>3, <2>2
    <3>2. QED
      BY <3>1
  <2>3. CASE j \in 1 .. n
    <3>1. windows[j].signature = s
      BY <2>1, <2>3
    <3>2. \/ \E l \in 1 .. Len(h) : h[l] = j - 1
          \/ config.repetition_lookback # 0 /\ n - j >= config.repetition_lookback
      BY <1>1, <2>3, <3>1 DEF RepetitionInv, HistoryOf, IsHistory
    <3>3. config.repetition_lookback = 0 \/ n - (j - 1) < config.repetition_lookback
      BY <1>5, <2>1 DEF Recalled
    <3>4. PICK l \in 1 .. Len(h) : h[l] = j - 1
      BY <1>5, <2>3, <3>2, <3>3
    <3>5. PICK k \in 1 .. Len(r) : r[k] = j - 1
      BY <1>1, <2>1, <3>4
    <3>6. k \in 1 .. Len(indices) /\ indices[k] = j - 1
      BY <1>2, <1>3, <3>5
    <3>7. QED
      BY <3>6
  <2>4. j = n + 1 \/ j \in 1 .. n
    OBVIOUS
  <2>5. QED
    BY <2>2, <2>3, <2>4
<1>13. Len(indices) \in Nat \ {0}
  BY <1>2, <1>3
<1>14. QED
  BY <1>10, <1>11, <1>12, <1>13, Zenon DEF Lists

(* As many windows count for the new one as its history lists.             *)
LEMMA NewCount ==
  ASSUME ScanInv, RepetitionInv, NEW s \in Signatures, AnalyseWindow(s),
         NEW n \in Nat, n = Len(windows),
         NEW indices \in Seq(Nat), indices = Append(Recent(history[s]), n),
         \A i \in 1 .. n : windows'[i] = windows[i],
         windows'[n + 1].signature = s,
         windows'[n + 1].repetition_count = Len(indices),
         config' = config
  PROVE  Len(indices) = Cardinality(Repeats(n + 1)') /\ Len(indices) \in 1 .. n + 1
<1> DEFINE S == {j \in 1 .. n + 1 :
                  /\ windows'[j].signature = s
                  /\ config.repetition_lookback = 0
                     \/ (n + 1) - j < config.repetition_lookback}
           f == [k \in 1 .. Len(indices) |-> indices[k] + 1]
<1>1. Repeats(n + 1)' = S
  BY DEF Repeats
<1>2. window_index = n /\ config.repetition_lookback \in Nat
  BY DEF window_index, ScanInv, ConfigTyped
<1>3. \A j \in 1 .. n + 1 :
        Recalled(j - 1) <=> config.repetition_lookback = 0
                            \/ (n + 1) - j < config.repetition_lookback
  BY <1>2 DEF Recalled
<1>4. /\ Len(indices) \in Nat \ {0}
      /\ \A k \in 1 .. Len(indices) :
           /\ indices[k] \in 0 .. n /\ Recalled(indices[k])
           /\ windows'[indices[k] + 1].signature = s
      /\ \A k, l \in 1 .. Len(indices) : k < l => indices[k] < indices[l]
      /\ \A j \in 1 .. n + 1 :
           windows'[j].signature = s =>
             ~Recalled(j - 1) \/ \E k \in 1 .. Len(indices) : indices[k] = j - 1
  <2>1. Len(indices) \in Nat \ {0} /\ Lists(indices, windows', n, s)
    BY IndicesOf
  <2>2. QED
    BY <2>1 DEF Lists
<1>5. \A k \in 1 .. Len(indices) : f[k] \in S
  <2>1. SUFFICES ASSUME NEW k \in 1 .. Len(indices) PROVE f[k] \in S
    OBVIOUS
  <2>2. indices[k] + 1 \in 1 .. n + 1 /\ (indices[k] + 1) - 1 = indices[k]
    BY <1>4
  <2>3. Recalled((indices[k] + 1) - 1)
    BY <1>4, <2>2
  <2>4. config.repetition_lookback = 0 \/ (n + 1) - (indices[k] + 1) < config.repetition_lookback
    BY <1>3, <2>2, <2>3
  <2>5. QED
    BY <1>4, <2>2, <2>4
<1>6. \A k, l \in 1 .. Len(indices) : f[k] = f[l] => k = l
  <2>1. SUFFICES ASSUME NEW k \in 1 .. Len(indices), NEW l \in 1 .. Len(indices), f[k] = f[l]
                 PROVE  k = l
    OBVIOUS
  <2>2. /\ indices[k] \in Nat /\ indices[l] \in Nat /\ indices[k] + 1 = indices[l] + 1
        /\ k \in Nat /\ l \in Nat
    BY <1>4, <2>1
  <2>3. (k < l => indices[k] < indices[l]) /\ (l < k => indices[l] < indices[k])
    BY <1>4
  <2>4. QED
    BY <2>2, <2>3
<1>7. \A j \in S : \E k \in 1 .. Len(indices) : f[k] = j
  <2>1. SUFFICES ASSUME NEW j \in S PROVE \E k \in 1 .. Len(indices) : f[k] = j
    OBVIOUS
  <2>2. j \in 1 .. n + 1 /\ windows'[j].signature = s /\ Recalled(j - 1)
    BY <1>3
  <2>3. PICK k \in 1 .. Len(indices) : indices[k] = j - 1
    BY <1>4, <2>2
  <2>4. f[k] = j
    BY <2>2, <2>3
  <2>5. QED
    BY <2>4
<1>8. IsFiniteSet(S) /\ Cardinality(S) = Len(indices)
  <2> HIDE DEF S, f
  <2>1. PICK T, g, m : m \in Nat /\ T = S /\ g = f /\ m = Len(indices)
    BY <1>4
  <2>2. /\ g \in [1 .. m -> T]
        /\ \A k, l \in 1 .. m : g[k] = g[l] => k = l
        /\ \A x \in T : \E k \in 1 .. m : g[k] = x
    <3>1. f \in [1 .. Len(indices) -> S]
      BY <1>5 DEF f
    <3>2. QED
      BY <1>6, <1>7, <2>1, <3>1
  <2>3. IsFiniteSet(T) /\ Cardinality(T) = m
    <3>1. m \in Nat
      BY <2>1
    <3>2. g \in Bijection(1 .. m, T)
      BY <2>2 DEF Bijection, Injection, IsInjective, Surjection
    <3>3. ExistsBijection(1 .. m, T)
      BY <3>2 DEF ExistsBijection
    <3>4. QED
      BY <3>1, <3>3, FS_NatBijection, FS_CountingElements
  <2>4. QED
    BY <2>1, <2>3
<1>9. Cardinality(S) <= n + 1
  <2>1. IsFiniteSet(1 .. n + 1) /\ Cardinality(1 .. n + 1) = n + 1
    BY FS_Interval
  <2>2. PICK T : T = S
    OBVIOUS
  <2>3. T \in SUBSET (1 .. n + 1)
    BY <2>2
  <2>4. Cardinality(T) <= Cardinality(1 .. n + 1)
    BY <2>1, <2>3, FS_Subset, Zenon
  <2> HIDE DEF S
  <2>5. QED
    BY <2>1, <2>2, <2>4
<1> HIDE DEF S
<1>10. QED
  BY <1>1, <1>4, <1>8, <1>9

(* There are no more windows than bits.                                    *)
LEMMA RoomForAWindow ==
  ASSUME ScanInv, MoreWindows
  PROVE  Len(windows) + 1 <= BitCount(bytes)
<1>1. PICK n \in Nat : n = Len(windows)
  BY DEF ScanInv
<1>2. /\ step_bits \in Nat \ {0} /\ config.window_bits \in Nat \ {0}
      /\ BitCount(bytes) \in Nat
      /\ n * step_bits + config.window_bits <= BitCount(bytes)
  BY <1>1, StepBits, BitCountNat DEF ScanInv, ConfigTyped, MoreWindows, Fits, start,
    window_index
<1>3. n * step_bits >= n
  <2>1. PICK p \in Nat : step_bits = p + 1
    BY <1>2
  <2>2. n * step_bits = n * p + n /\ n * p \in Nat
    BY <2>1
  <2>3. QED
    BY <2>2
<1>4. n * step_bits \in Nat
  BY <1>2
<1>5. QED
  BY <1>1, <1>2, <1>3, <1>4

LEMMA RepetitionKeeps ==
  ASSUME ScanInv, RepetitionInv, NEW s \in Signatures, AnalyseWindow(s)
  PROVE  RepetitionInv'
<1>1. PICK n \in Nat, indices \in Seq(Nat) :
        /\ n = Len(windows) /\ indices = Append(Recent(history[s]), n)
        /\ Len(windows') = n + 1
        /\ \A i \in 1 .. n : windows'[i] = windows[i]
        /\ windows'[n + 1].signature = s
        /\ windows'[n + 1].repetition_count = Len(indices)
        /\ history' = [history EXCEPT ![s] = indices]
        /\ histogram' = [histogram EXCEPT ![Len(indices)] = @ + 1]
        /\ max_repetition' = MaxRepetition(Len(indices))
        /\ UNCHANGED <<config, bytes>>
  BY WindowAdded
<1>2. Lists(indices, windows', n, s)
  BY <1>1, IndicesOf
<1>3. Len(indices) = Cardinality(Repeats(n + 1)') /\ Len(indices) \in 1 .. n + 1
  BY <1>1, NewCount
<1>4. PICK c \in 1 .. n + 1 : c = Len(indices)
  BY <1>3
<1>5. history \in [Signatures -> Seq(Nat)] /\ config.repetition_lookback \in Nat
  BY DEF ScanInv, ConfigTyped
<1>6. window_index = n
  BY <1>1 DEF window_index
<1>7. \A i \in 1 .. n + 1 : i \in 1 .. n \/ i = n + 1
  OBVIOUS
<1>8. ASSUME NEW t \in Signatures
      PROVE  HistoryOf(t)'
  <2>1. CASE t = s
    <3>1. history'[t] = indices
      BY <1>1, <1>5, <2>1
    <3>2. \A j \in 1 .. n + 1 :
            ~Recalled(j - 1) => /\ config.repetition_lookback # 0
                                /\ (n + 1) - j >= config.repetition_lookback
      BY <1>5, <1>6 DEF Recalled
    <3>3. (n + 1) - 1 = n
      OBVIOUS
    <3>4. \A k \in 1 .. Len(indices) :
            /\ indices[k] \in 0 .. (n + 1) - 1
            /\ windows'[indices[k] + 1].signature = s
            /\ config.repetition_lookback = 0 => windows'[indices[k] + 1].repetition_count = k
      BY <1>2, <3>3 DEF Lists
    <3>5. \A k, l \in 1 .. Len(indices) : k < l => indices[k] < indices[l]
      BY <1>2 DEF Lists
    <3>6. \A j \in 1 .. n + 1 :
            windows'[j].signature = s =>
              \/ \E k \in 1 .. Len(indices) : indices[k] = j - 1
              \/ config.repetition_lookback # 0 /\ (n + 1) - j >= config.repetition_lookback
      BY <1>2, <3>2, Zenon DEF Lists
    <3>7. IsHistory(indices, windows', n + 1, s, config.repetition_lookback)
      BY <3>4, <3>5, <3>6, Zenon DEF IsHistory
    <3>8. QED
      BY <1>1, <2>1, <3>1, <3>7, Zenon DEF HistoryOf
  <2>2. CASE t # s
    <3>1. PICK h \in Seq(Nat) : h = history[t] /\ h = history'[t]
      BY <1>1, <1>5, <2>2
    <3>2. /\ \A k \in 1 .. Len(h) :
               /\ h[k] \in 0 .. n - 1 /\ windows[h[k] + 1].signature = t
               /\ config.repetition_lookback = 0 => windows[h[k] + 1].repetition_count = k
          /\ \A k, l \in 1 .. Len(h) : k < l => h[k] < h[l]
          /\ \A j \in 1 .. n :
               windows[j].signature = t =>
                 \/ \E k \in 1 .. Len(h) : h[k] = j - 1
                 \/ config.repetition_lookback # 0 /\ n - j >= config.repetition_lookback
      <4>1. IsHistory(h, windows, n, t, config.repetition_lookback)
        BY <1>1, <3>1, Zenon DEF RepetitionInv, HistoryOf
      <4>2. QED
        BY <4>1, Zenon DEF IsHistory
    <3>3. \A k \in 1 .. Len(h) :
            /\ h[k] \in 0 .. (n + 1) - 1 /\ windows'[h[k] + 1].signature = t
            /\ config.repetition_lookback = 0 => windows'[h[k] + 1].repetition_count = k
      <4>1. SUFFICES ASSUME NEW k \in 1 .. Len(h)
                     PROVE  /\ h[k] \in 0 .. (n + 1) - 1 /\ windows'[h[k] + 1].signature = t
                            /\ config.repetition_lookback = 0 =>
                                 windows'[h[k] + 1].repetition_count = k
        OBVIOUS
      <4>2. h[k] \in 0 .. (n + 1) - 1 - 1 /\ h[k] + 1 \in 1 .. n
        BY <3>2
      <4>3. windows'[h[k] + 1] = windows[h[k] + 1]
        BY <1>1, <4>2
      <4>4. QED
        BY <3>2, <4>2, <4>3
    <3>4. \A j \in 1 .. n + 1 :
            windows'[j].signature = t =>
              \/ \E k \in 1 .. Len(h) : h[k] = j - 1
              \/ config.repetition_lookback # 0 /\ (n + 1) - j >= config.repetition_lookback
      <4>1. SUFFICES ASSUME NEW j \in 1 .. n + 1, windows'[j].signature = t,
                            ~(\E k \in 1 .. Len(h) : h[k] = j - 1)
                     PROVE  /\ config.repetition_lookback # 0
                            /\ (n + 1) - j >= config.repetition_lookback
        OBVIOUS
      <4>2. j \in 1 .. n /\ windows[j].signature = t
        BY <1>1, <1>7, <2>2, <4>1
      <4>3. config.repetition_lookback # 0 /\ n - j >= config.repetition_lookback
        BY <3>2, <4>1, <4>2
      <4>4. QED
        BY <1>5, <4>2, <4>3
    <3>5. IsHistory(h, windows', n + 1, t, config.repetition_lookback)
      BY <3>2, <3>3, <3>4, Zenon DEF IsHistory
    <3>6. QED
      BY <1>1, <3>1, <3>5, Zenon DEF HistoryOf
  <2>3. QED
    BY <2>1, <2>2
<1>9. \A i \in 1 .. n : Repeats(i)' = Repeats(i)
  <2>1. SUFFICES ASSUME NEW i \in 1 .. n PROVE Repeats(i)' = Repeats(i)
    OBVIOUS
  <2>2. \A j \in 1 .. i : windows'[j] = windows[j]
    BY <1>1
  <2>3. QED
    BY <1>1, <2>2 DEF Repeats
<1>10. PICK m \in 0 .. n : m = max_repetition
  BY <1>1 DEF RepetitionInv, CountInv
<1>11. max_repetition' = IF c > m THEN c ELSE m
  BY <1>1, <1>4, <1>10 DEF MaxRepetition
<1>12. CountInv'
  <2>1. \A i \in 1 .. n : /\ windows[i].repetition_count = Cardinality(Repeats(i))
                          /\ windows[i].repetition_count \in 1 .. m
    BY <1>1, <1>10 DEF RepetitionInv, CountInv, Analysed
  <2>2. \A i \in 1 .. n + 1 : windows'[i].repetition_count = Cardinality(Repeats(i)')
    BY <1>1, <1>3, <1>7, <1>9, <2>1
  <2>3. \A i \in 1 .. n + 1 : windows'[i].repetition_count \in 1 .. max_repetition'
    <3>1. \A i \in 1 .. n : windows'[i].repetition_count \in 1 .. max_repetition'
      BY <1>1, <1>11, <2>1
    <3>2. windows'[n + 1].repetition_count \in 1 .. max_repetition'
      BY <1>1, <1>4, <1>11
    <3>3. QED
      BY <1>7, <3>1, <3>2
  <2>4. \E i \in 1 .. n + 1 : windows'[i].repetition_count = max_repetition'
    <3>1. CASE c > m
      <4>1. n + 1 \in 1 .. n + 1 /\ windows'[n + 1].repetition_count = max_repetition'
        BY <1>1, <1>4, <1>11, <3>1
      <4>2. QED
        BY <4>1
    <3>2. CASE ~(c > m)
      <4>1. m = max_repetition' /\ n > 0
        BY <1>4, <1>11, <3>2
      <4>2. windows # << >>
        BY <1>1, <4>1
      <4>3. PICK i \in 1 .. n : windows[i].repetition_count = m
        BY <1>1, <1>10, <4>2 DEF RepetitionInv, CountInv, Analysed
      <4>4. i \in 1 .. n + 1 /\ windows'[i].repetition_count = max_repetition'
        BY <1>1, <4>1, <4>3
      <4>5. QED
        BY <4>4
    <3>3. QED
      BY <3>1, <3>2
  <2>5. max_repetition' \in 0 .. n + 1
    BY <1>11
  <2>6. Analysed' = 1 .. n + 1
    BY <1>1 DEF Analysed
  <2>7. QED
    BY <1>1, <2>2, <2>3, <2>4, <2>5, <2>6 DEF CountInv
<1>13. HistogramInv'
  <2>1. /\ BitCount(bytes') = BitCount(bytes) /\ BitCount(bytes) \in Nat
        /\ n + 1 <= BitCount(bytes)
        /\ histogram \in [1 .. BitCount(bytes) -> Nat]
    <3>1. MoreWindows
      BY DEF AnalyseWindow
    <3>2. QED
      BY <1>1, <3>1, RoomForAWindow, BitCountNat DEF RepetitionInv, HistogramInv, ScanInv
  <2>2. c \in 1 .. BitCount(bytes)
    BY <2>1
  <2>3. /\ histogram'[c] = histogram[c] + 1
        /\ \A k \in 1 .. BitCount(bytes) : k # c => histogram'[k] = histogram[k]
        /\ histogram' \in [1 .. BitCount(bytes) -> Nat]
    BY <1>1, <1>4, <2>1, <2>2
  <2>4. \A k : Counted(k)' = IF k = c THEN Counted(k) \cup {n + 1} ELSE Counted(k)
    <3>1. SUFFICES ASSUME NEW k
                   PROVE  Counted(k)' = IF k = c THEN Counted(k) \cup {n + 1} ELSE Counted(k)
      OBVIOUS
    <3>2. Counted(k)' = {i \in 1 .. n + 1 : windows'[i].repetition_count = k}
      BY <1>1 DEF Counted, Analysed
    <3>3. Counted(k) = {i \in 1 .. n : windows[i].repetition_count = k}
      BY <1>1 DEF Counted, Analysed
    <3>4. \A i \in 1 .. n + 1 :
            i \in Counted(k)' <=> i \in Counted(k) \/ (i = n + 1 /\ k = c)
      BY <1>1, <1>4, <1>7, <3>2, <3>3
    <3>5. \A i \in Counted(k) \cup {n + 1} : i \in 1 .. n + 1
      BY <3>3
    <3>6. QED
      BY <3>2, <3>4, <3>5
  <2>5. \A k : n + 1 \notin Counted(k) /\ Counted(k) \in SUBSET (1 .. n)
    BY <1>1 DEF Counted, Analysed
  <2>6. \A k : IsFiniteSet(Counted(k)) /\ Cardinality(Counted(k)) \in Nat
    <3>1. IsFiniteSet(1 .. n)
      BY FS_Interval
    <3>2. QED
      BY <2>5, <3>1, FS_Subset, FS_CardinalityType
  <2>7. ASSUME NEW k \in 1 .. BitCount(bytes)
        PROVE  histogram'[k] = Cardinality(Counted(k)')
    <3>1. histogram[k] = Cardinality(Counted(k))
      BY DEF RepetitionInv, HistogramInv
    <3>2. CASE k = c
      <4>1. PICK T : T = Counted(k)
        OBVIOUS
      <4>2. Cardinality(T \cup {n + 1}) = Cardinality(T) + 1
        BY <2>5, <2>6, <4>1, FS_AddElement
      <4>3. QED
        BY <2>3, <2>4, <3>1, <3>2, <4>1, <4>2
    <3>3. CASE k # c
      BY <2>3, <2>4, <3>1, <3>3
    <3>4. QED
      BY <3>2, <3>3
  <2>8. QED
    BY <1>1, <2>1, <2>3, <2>7 DEF HistogramInv
<1>14. \A t \in Signatures : HistoryOf(t)'
  BY <1>8
<1>15. QED
  BY <1>12, <1>13, <1>14 DEF RepetitionInv

(* Without a lookback every window with a count above one has, with the    *)
(* same signature, a window before it with the next smaller count: for     *)
(* every count there are at least as many windows as for the next.         *)
LEMMA CountsGoDown ==
  ASSUME ScanInv, RepetitionInv, config.repetition_lookback = 0, NEW k \in Nat \ {0}
  PROVE  /\ IsFiniteSet(Counted(k)) /\ Cardinality(Counted(k)) \in Nat
         /\ Cardinality(Counted(k + 1)) \in Nat
         /\ Cardinality(Counted(k + 1)) <= Cardinality(Counted(k))
<1>0. PICK n \in Nat : n = Len(windows)
  BY DEF ScanInv
<1> DEFINE before(i) == history[windows[i].signature][k] + 1
<1>1. ASSUME NEW i \in Counted(k + 1)
      PROVE  /\ before(i) \in Counted(k) /\ windows[i].signature \in Signatures
             /\ windows[before(i)].signature = windows[i].signature
             /\ history[windows[i].signature][k + 1] = i - 1 /\ i \in Nat
  <2>1. PICK s : s = windows[i].signature
    OBVIOUS
  <2>2. i \in 1 .. n /\ windows[i].repetition_count = k + 1
    BY <1>0 DEF Counted, Analysed
  <2>3. s \in Signatures /\ history[s] \in Seq(Nat)
    <3>1. windows \in Seq(AnalysedWindow) /\ history \in [Signatures -> Seq(Nat)]
      BY DEF ScanInv
    <3>2. windows[i] \in AnalysedWindow
      BY <1>0, <2>2, <3>1
    <3>3. QED
      BY <2>1, <3>1, <3>2 DEF AnalysedWindow
  <2>4. PICK h \in Seq(Nat) : h = history[s]
    BY <2>3
  <2>5. IsHistory(h, windows, n, s, 0)
    BY <1>0, <2>3, <2>4, Zenon DEF RepetitionInv, HistoryOf
  <2>6. PICK p \in 1 .. Len(h) : h[p] = i - 1
    BY <2>1, <2>2, <2>5 DEF IsHistory
  <2>7. windows[h[p] + 1].repetition_count = p /\ h[p] + 1 = i
    BY <2>2, <2>5, <2>6 DEF IsHistory
  <2>8. p = k + 1 /\ k \in 1 .. Len(h)
    BY <2>2, <2>6, <2>7
  <2>9. /\ h[k] \in 0 .. n - 1 /\ windows[h[k] + 1].signature = s
        /\ windows[h[k] + 1].repetition_count = k
    BY <2>5, <2>8 DEF IsHistory
  <2>10. h[k] + 1 \in Counted(k)
    BY <1>0, <2>9 DEF Counted, Analysed
  <2>11. before(i) = h[k] + 1
    BY <2>1, <2>4
  <2> HIDE DEF before
  <2>12. QED
    BY <2>1, <2>2, <2>3, <2>4, <2>6, <2>8, <2>9, <2>10, <2>11
<1>2. \A i, j \in Counted(k + 1) : before(i) = before(j) => i = j
  <2>1. SUFFICES ASSUME NEW i \in Counted(k + 1), NEW j \in Counted(k + 1), before(i) = before(j)
                 PROVE  i = j
    OBVIOUS
  <2> HIDE DEF before
  <2>2. windows[i].signature = windows[j].signature
    BY <1>1, <2>1
  <2>3. i - 1 = j - 1 /\ i \in Nat /\ j \in Nat
    BY <1>1, <2>2
  <2>4. QED
    BY <2>3
<1> HIDE DEF before
<1>3. PICK S, T, g :
        S = Counted(k + 1) /\ T = Counted(k) /\ g = [i \in Counted(k + 1) |-> before(i)]
  OBVIOUS
<1>4. g \in Injection(S, T)
  BY <1>1, <1>2, <1>3 DEF Injection, IsInjective
<1>5. \A m : IsFiniteSet(Counted(m)) /\ Cardinality(Counted(m)) \in Nat
  <2>1. IsFiniteSet(1 .. n)
    BY FS_Interval
  <2>2. \A m : Counted(m) \in SUBSET (1 .. n)
    BY <1>0 DEF Counted, Analysed
  <2>3. QED
    BY <2>1, <2>2, FS_Subset, FS_CardinalityType
<1>6. IsFiniteSet(T)
  BY <1>3, <1>5
<1>7. Cardinality(S) <= Cardinality(T)
  BY <1>4, <1>6, FS_Injection
<1>8. QED
  BY <1>3, <1>5, <1>7

LEMMA RepetitionsFollow ==
  ASSUME ScanInv, RepetitionInv
  PROVE  RepetitionsCounted
<1>0. PICK n \in Nat : n = Len(windows)
  BY DEF ScanInv
<1>1. /\ config.repetition_lookback \in Nat /\ windows \in Seq(AnalysedWindow)
      /\ max_repetition \in 0 .. n /\ n <= BitCount(bytes) /\ BitCount(bytes) \in Nat
      /\ histogram \in [1 .. BitCount(bytes) -> Nat]
      /\ \A k \in 1 .. BitCount(bytes) : histogram[k] = Cardinality(Counted(k))
      /\ \A i \in 1 .. n : windows[i].repetition_count \in 1 .. max_repetition
  BY <1>0, BitCountNat DEF ScanInv, ConfigTyped, RepetitionInv, CountInv, HistogramInv, Analysed
<1>2. CountsAreOfTheLookback
  BY Zenon DEF CountsAreOfTheLookback, RepetitionInv, CountInv, Repeats
<1>3. \A k \in DOMAIN histogram :
        histogram[k] = Cardinality({i \in Analysed : windows[i].repetition_count = k})
  <2>1. DOMAIN histogram = 1 .. BitCount(bytes)
    BY <1>1
  <2>2. QED
    BY <1>1, <2>1, Zenon DEF Counted
<1>4. \A i \in Analysed : windows[i].repetition_count <= max_repetition
  BY <1>0, <1>1 DEF Analysed
<1>5. ASSUME windows # << >>
      PROVE  histogram[max_repetition] > 0
  <2>1. PICK i \in 1 .. n : windows[i].repetition_count = max_repetition
    BY <1>0, <1>5 DEF RepetitionInv, CountInv, Analysed
  <2>2. max_repetition \in 1 .. BitCount(bytes)
    BY <1>1, <2>1
  <2>3. PICK T : T = Counted(max_repetition)
    OBVIOUS
  <2>4. i \in T /\ T \in SUBSET (1 .. n)
    BY <1>0, <2>1, <2>3 DEF Counted, Analysed
  <2>5. IsFiniteSet(T)
    <3>1. IsFiniteSet(1 .. n)
      BY FS_Interval
    <3>2. QED
      BY <2>4, <3>1, FS_Subset
  <2>6. Cardinality(T) \in Nat /\ Cardinality(T) # 0
    BY <2>4, <2>5, FS_CardinalityType, FS_EmptySet
  <2>7. histogram[max_repetition] = Cardinality(T)
    BY <1>1, <2>2, <2>3
  <2>8. QED
    BY <2>6, <2>7
<1>6. ASSUME config.repetition_lookback = 0, NEW k \in 1 .. max_repetition - 1
      PROVE  histogram[k] >= histogram[k + 1]
  <2>1. k \in Nat \ {0} /\ k \in 1 .. BitCount(bytes) /\ k + 1 \in 1 .. BitCount(bytes)
    BY <1>1
  <2>2. histogram[k] = Cardinality(Counted(k)) /\ histogram[k + 1] = Cardinality(Counted(k + 1))
    BY <1>1, <2>1
  <2>3. /\ Cardinality(Counted(k)) \in Nat /\ Cardinality(Counted(k + 1)) \in Nat
        /\ Cardinality(Counted(k + 1)) <= Cardinality(Counted(k))
    BY <1>6, <2>1, CountsGoDown
  <2>4. QED
    BY <2>2, <2>3
<1>7. HistogramIsComplete
  BY <1>3, <1>4, <1>5, <1>6 DEF HistogramIsComplete
<1>8. QED
  BY <1>2, <1>7 DEF RepetitionsCounted

(* A stream just taken up has no windows, and an empty histogram.          *)
LEMMA RepetitionStarts ==
  ASSUME BitCount(bytes) \in Nat, windows = << >>, history = [s \in Signatures |-> << >>],
         histogram = [k \in 1 .. BitCount(bytes) |-> 0], max_repetition = 0
  PROVE  RepetitionInv
<1>1. Len(windows) = 0 /\ Analysed = {}
  BY DEF Analysed
<1>2. \A s \in Signatures : HistoryOf(s)
  BY <1>1 DEF HistoryOf, IsHistory
<1>3. CountInv
  BY <1>1 DEF CountInv
<1>4. \A k : Counted(k) = {}
  BY <1>1 DEF Counted
<1>5. HistogramInv
  BY <1>1, <1>4, FS_EmptySet DEF HistogramInv
<1>6. QED
  BY <1>2, <1>3, <1>5 DEF RepetitionInv

(* The encoder has no windows when it hands its bytes over.                *)
RecordInv ==
  /\ RepetitionInv
  /\ caller = "encoder" => max_repetition = 0

LEMMA RecordStarts == EngineInit => RecordInv
<1> SUFFICES ASSUME EngineInit PROVE RecordInv
  OBVIOUS
<1>1. EngineInv
  BY EngineStarts
<1>2. PICK stream : StartOf(stream)
  BY EmptySeq DEF EngineInit, CallOf, CallWith, Encoding
<1>3. /\ windows = << >> /\ history = [s \in Signatures |-> << >>] /\ max_repetition = 0
      /\ histogram = [k \in 1 .. BitCount(bytes) |-> 0]
  BY <1>2 DEF StartOf
<1>4. BitCount(bytes) \in Nat
  BY <1>1, BitCountNat DEF EngineInv, ScanInv
<1>5. QED
  BY <1>3, <1>4, RepetitionStarts DEF RecordInv

LEMMA RecordSteps == EngineInv /\ RecordInv /\ [EngineNext]_engineVars => RecordInv'
<1> SUFFICES ASSUME EngineInv, RecordInv, [EngineNext]_engineVars PROVE RecordInv'
  OBVIOUS
<1>0. ASSUME UNCHANGED <<config, bytes, windows, history, histogram, max_repetition>>,
             caller' = "encoder" => caller = "encoder"
      PROVE  RecordInv'
  <2>1. \A s : HistoryOf(s)' = HistoryOf(s)
    BY <1>0 DEF HistoryOf
  <2>2. CountInv' = CountInv
    BY <1>0 DEF CountInv, Repeats, Analysed
  <2>3. HistogramInv' = HistogramInv
    BY <1>0 DEF HistogramInv, Counted, Analysed
  <2>4. QED
    BY <1>0, <2>1, <2>2, <2>3 DEF RecordInv, RepetitionInv
<1>1. CASE UNCHANGED vars /\ (caller' = "encoder" => caller = "encoder")
  BY <1>0, <1>1 DEF vars, input
<1>2. CASE HandOver
  <2>1. PICK n \in Nat \ {0} : n = Len(encoded) /\ BitCount(bytes') = 8 * n
    BY <1>2, BytesHandedOver
  <2>2. /\ windows' = << >> /\ history' = [s \in Signatures |-> << >>]
        /\ max_repetition' = 0 /\ histogram' = [k \in 1 .. BitCount(bytes') |-> 0]
        /\ caller' = "scan"
    BY <1>2, <2>1 DEF HandOver, EngineInv, CallerInv, RecordInv
  <2>3. Len(windows') = 0 /\ Analysed' = {} /\ BitCount(bytes') \in Nat
    BY <2>1, <2>2 DEF Analysed
  <2>4. \A s \in Signatures : HistoryOf(s)'
    BY <2>2, <2>3 DEF HistoryOf, IsHistory
  <2>5. CountInv'
    BY <2>2, <2>3 DEF CountInv
  <2>6. \A k : Counted(k)' = {}
    BY <2>3 DEF Counted
  <2>7. HistogramInv'
    BY <2>2, <2>3, <2>6, FS_EmptySet DEF HistogramInv
  <2>8. QED
    BY <2>2, <2>4, <2>5, <2>7 DEF RecordInv, RepetitionInv
<1>3. CASE EndWindow
  <2>1. PICK s \in Signatures : AnalyseWindow(s)
    BY <1>3 DEF EndWindow
  <2>2. RepetitionInv'
    BY <2>1, RepetitionKeeps DEF EngineInv, RecordInv
  <2>3. QED
    BY <1>3, <2>2 DEF EndWindow, RecordInv
<1>4. CASE FinishStream
  BY <1>0, <1>4 DEF FinishStream, Finish, input
<1>5. CASE EncodePoint
  BY <1>1, <1>5 DEF EncodePoint
<1>6. CASE BeginWindow
  BY <1>1, <1>6 DEF BeginWindow
<1>7. CASE Label
  BY <1>1, <1>7 DEF Label
<1>8. CASE FeedProcessor
  BY <1>1, <1>8 DEF FeedProcessor
<1>9. CASE UNCHANGED engineVars
  BY <1>1, <1>9 DEF engineVars
<1>10. QED
  BY <1>2, <1>3, <1>4, <1>5, <1>6, <1>7, <1>8, <1>9 DEF EngineNext

(* The repetition count the native engine reports of a window is the       *)
(* number of windows within the lookback that have its signature, and its  *)
(* summary adds up: for streams, windows, steps and lookbacks of any       *)
(* length, and any signatures.                                             *)
THEOREM RepetitionsAreCounted == EngineSpec => []RepetitionsCounted
<1>1. EngineInv /\ RecordInv => RepetitionsCounted
  BY RepetitionsFollow DEF EngineInv, RecordInv
<1>2. EngineSpec => []RecordInv
  BY RecordStarts, RecordSteps, EngineInvHolds, PTL DEF EngineSpec
<1>3. QED
  BY <1>1, <1>2, EngineInvHolds, PTL

-----------------------------------------------------------------------------
(* The counts.  The events e of the first n steps of a stream b.           *)
LEMMA UpTo ==
  ASSUME NEW n \in Nat, NEW G, \A m \in 0 .. n : (\A k \in 0 .. m - 1 : k \in G) => m \in G
  PROVE  n \in G
<1> DEFINE bad == {m \in 0 .. n : m \notin G}
<1>1. bad \in SUBSET Nat
  OBVIOUS
<1>2. CASE bad = {}
  BY <1>2
<1>3. CASE bad # {}
  <2>1. PICK m \in bad : \A k \in bad : m <= k
    <3> HIDE DEF bad
    <3>1. QED
      BY <1>1, <1>3, LeastIndex
  <2>2. \A k \in 0 .. m - 1 : k \in G
    BY <2>1
  <2>3. QED
    BY <2>1, <2>2
<1>4. QED
  BY <1>2, <1>3

Labelling(b, e, n) ==
  /\ \A i \in 1 .. n + 1 : b[i] \in {0, 1}
  /\ \A i \in 1 .. n : e[i] = Events!StateOf(b[i], b[i + 1])

Of(e, state, n) == {i \in 1 .. n : e[i] = state}

Ones(b, n) == {i \in 1 .. n : b[i] = 1}

Firsts(b, n) == {i \in Ones(b, n) : i - 1 \notin Ones(b, n)}

CountsFit(b, e, n) ==
  /\ Cardinality(Of(e, NULL_STATE, n)) + Cardinality(Of(e, OSCILLATION, n))
       + Cardinality(Of(e, REGIME_SHIFT, n)) = n
  /\ Cardinality(Of(e, OSCILLATION, n)) % 2 = (IF b[1] = b[n + 1] THEN 0 ELSE 1)
  /\ Cardinality(Ones(b, n + 1))
       = Cardinality(Of(e, REGIME_SHIFT, n)) + Cardinality(Firsts(b, n + 1))

LEMMA OneMore ==
  ASSUME NEW n \in Nat, NEW S \in SUBSET (1 .. n)
  PROVE  /\ IsFiniteSet(S) /\ Cardinality(S) \in Nat
         /\ Cardinality(S \cup {n + 1}) = Cardinality(S) + 1
<1>1. IsFiniteSet(1 .. n)
  BY FS_Interval
<1>2. IsFiniteSet(S)
  BY <1>1, FS_Subset
<1>3. n + 1 \notin S
  OBVIOUS
<1>4. QED
  BY <1>2, <1>3, FS_CardinalityType, FS_AddElement

(* A step adds to the count of its label, and of no other.                 *)
LEMMA CountsGrow ==
  ASSUME NEW e, NEW state, NEW n \in Nat
  PROVE  /\ Cardinality(Of(e, state, n)) \in Nat
         /\ Cardinality(Of(e, state, n + 1))
              = Cardinality(Of(e, state, n)) + (IF e[n + 1] = state THEN 1 ELSE 0)
<1>1. PICK S : S = Of(e, state, n)
  OBVIOUS
<1>2. S \in SUBSET (1 .. n)
  BY <1>1 DEF Of
<1>3. Cardinality(S) \in Nat /\ Cardinality(S \cup {n + 1}) = Cardinality(S) + 1
  BY <1>2, OneMore
<1>4. e[n + 1] = state => Of(e, state, n + 1) = S \cup {n + 1}
  BY <1>1 DEF Of
<1>5. e[n + 1] # state => Of(e, state, n + 1) = S
  BY <1>1 DEF Of
<1>6. QED
  BY <1>1, <1>3, <1>4, <1>5

(* A one more is a first one, unless it follows another.                   *)
LEMMA OnesGrow ==
  ASSUME NEW b, NEW n \in Nat \ {0}
  PROVE  /\ Cardinality(Ones(b, n)) \in Nat /\ Cardinality(Firsts(b, n)) \in Nat
         /\ Cardinality(Ones(b, n + 1))
              = Cardinality(Ones(b, n)) + (IF b[n + 1] = 1 THEN 1 ELSE 0)
         /\ Cardinality(Firsts(b, n + 1))
              = Cardinality(Firsts(b, n)) + (IF b[n + 1] = 1 /\ b[n] # 1 THEN 1 ELSE 0)
<1>1. PICK O : O = Ones(b, n)
  OBVIOUS
<1>2. PICK F : F = Firsts(b, n)
  OBVIOUS
<1>3. O \in SUBSET (1 .. n) /\ F \in SUBSET (1 .. n)
  BY <1>1, <1>2 DEF Ones, Firsts
<1>4. /\ Cardinality(O) \in Nat /\ Cardinality(O \cup {n + 1}) = Cardinality(O) + 1
      /\ Cardinality(F) \in Nat /\ Cardinality(F \cup {n + 1}) = Cardinality(F) + 1
  BY <1>3, OneMore
<1>5. Ones(b, n + 1) = IF b[n + 1] = 1 THEN O \cup {n + 1} ELSE O
  <2>1. \A i : i \in Ones(b, n + 1) <=> i \in O \/ (i = n + 1 /\ b[n + 1] = 1)
    BY <1>1 DEF Ones
  <2>2. QED
    BY <2>1
<1>6. Firsts(b, n + 1) = IF b[n + 1] = 1 /\ b[n] # 1 THEN F \cup {n + 1} ELSE F
  <2>1. n \in Ones(b, n + 1) <=> b[n] = 1
    BY DEF Ones
  <2>2. \A i \in 1 .. n : i \in Firsts(b, n + 1) <=> i \in F
    BY <1>2 DEF Ones, Firsts
  <2>3. n + 1 \in Firsts(b, n + 1) <=> b[n + 1] = 1 /\ b[n] # 1
    <3>1. n + 1 - 1 = n /\ n + 1 \in 1 .. n + 1
      OBVIOUS
    <3>2. QED
      BY <2>1, <3>1 DEF Firsts, Ones
  <2>4. \A i \in Firsts(b, n + 1) : i \in 1 .. n \/ i = n + 1
    BY DEF Ones, Firsts
  <2>5. \A i : i \in Firsts(b, n + 1) <=> i \in F \/ (i = n + 1 /\ b[n + 1] = 1 /\ b[n] # 1)
    BY <1>3, <2>2, <2>3, <2>4
  <2>6. CASE b[n + 1] = 1 /\ b[n] # 1
    BY <2>5, <2>6
  <2>7. CASE ~(b[n + 1] = 1 /\ b[n] # 1)
    BY <2>5, <2>7
  <2>8. QED
    BY <2>6, <2>7
<1>7. QED
  BY <1>1, <1>2, <1>4, <1>5, <1>6

LEMMA Parity ==
  ASSUME NEW c \in Nat
  PROVE  /\ c % 2 \in {0, 1}
         /\ (c + 1) % 2 = 1 - (c % 2)
OBVIOUS

LEMMA CountsFitOn ==
  ASSUME NEW b, NEW e, NEW n \in Nat, Labelling(b, e, n + 1), CountsFit(b, e, n)
  PROVE  CountsFit(b, e, n + 1)
<1>0. n + 1 \in 1 .. n + 1 /\ n + 1 \in 1 .. n + 2 /\ n + 2 \in 1 .. n + 2 /\ 1 \in 1 .. n + 2
      /\ n + 1 + 1 = n + 2
  OBVIOUS
<1>1. /\ b[n + 1] \in {0, 1} /\ b[n + 2] \in {0, 1} /\ b[1] \in {0, 1}
      /\ e[n + 1] = Events!StateOf(b[n + 1], b[n + 2])
  BY <1>0 DEF Labelling
<1>2. PICK nulls, flips, shifts :
        /\ nulls = Cardinality(Of(e, NULL_STATE, n))
        /\ flips = Cardinality(Of(e, OSCILLATION, n))
        /\ shifts = Cardinality(Of(e, REGIME_SHIFT, n))
  OBVIOUS
<1>3. PICK ones, firsts :
        ones = Cardinality(Ones(b, n + 1)) /\ firsts = Cardinality(Firsts(b, n + 1))
  OBVIOUS
<1>4. /\ nulls \in Nat /\ flips \in Nat /\ shifts \in Nat
      /\ Cardinality(Of(e, NULL_STATE, n + 1)) = nulls + (IF e[n + 1] = NULL_STATE THEN 1 ELSE 0)
      /\ Cardinality(Of(e, OSCILLATION, n + 1)) = flips + (IF e[n + 1] = OSCILLATION THEN 1 ELSE 0)
      /\ Cardinality(Of(e, REGIME_SHIFT, n + 1))
           = shifts + (IF e[n + 1] = REGIME_SHIFT THEN 1 ELSE 0)
  BY <1>2, CountsGrow
<1>5. /\ ones \in Nat /\ firsts \in Nat
      /\ Cardinality(Ones(b, n + 2)) = ones + (IF b[n + 2] = 1 THEN 1 ELSE 0)
      /\ Cardinality(Firsts(b, n + 2))
           = firsts + (IF b[n + 2] = 1 /\ b[n + 1] # 1 THEN 1 ELSE 0)
  <2>1. n + 1 \in Nat \ {0}
    OBVIOUS
  <2>2. QED
    BY <1>0, <1>3, <2>1, OnesGrow
<1>6. /\ nulls + flips + shifts = n
      /\ flips % 2 = (IF b[1] = b[n + 1] THEN 0 ELSE 1)
      /\ ones = shifts + firsts
  BY <1>2, <1>3 DEF CountsFit
<1>7. /\ e[n + 1] = OSCILLATION <=> b[n + 1] # b[n + 2]
      /\ e[n + 1] = REGIME_SHIFT <=> b[n + 1] = 1 /\ b[n + 2] = 1
      /\ e[n + 1] = NULL_STATE <=> b[n + 1] = 0 /\ b[n + 2] = 0
  BY <1>1, LabelsAssumption DEF Events!StateOf
<1>8. Cardinality(Of(e, NULL_STATE, n + 1)) + Cardinality(Of(e, OSCILLATION, n + 1))
        + Cardinality(Of(e, REGIME_SHIFT, n + 1)) = n + 1
  BY <1>1, <1>4, <1>6, <1>7
<1>9. Cardinality(Of(e, OSCILLATION, n + 1)) % 2 = (IF b[1] = b[n + 2] THEN 0 ELSE 1)
  <2>1. CASE b[n + 1] = b[n + 2]
    BY <1>4, <1>6, <1>7, <2>1
  <2>2. CASE b[n + 1] # b[n + 2]
    <3>1. Cardinality(Of(e, OSCILLATION, n + 1)) = flips + 1
      BY <1>4, <1>7, <2>2
    <3>2. (flips + 1) % 2 = 1 - (flips % 2)
      BY <1>4, Parity
    <3>3. b[1] = b[n + 2] <=> b[1] # b[n + 1]
      BY <1>1, <2>2
    <3>4. b[1] = b[n + 1] => flips % 2 = 0
      BY <1>6
    <3>5. b[1] # b[n + 1] => flips % 2 = 1
      BY <1>6
    <3>6. CASE b[1] = b[n + 1]
      <4>1. (flips + 1) % 2 = 1
        BY <1>4, <3>2, <3>4, <3>6
      <4>2. QED
        BY <3>1, <3>3, <3>6, <4>1
    <3>7. CASE b[1] # b[n + 1]
      <4>1. (flips + 1) % 2 = 0
        BY <1>4, <3>2, <3>5, <3>7
      <4>2. QED
        BY <3>1, <3>3, <3>7, <4>1
    <3>8. QED
      BY <3>6, <3>7
  <2>3. QED
    BY <2>1, <2>2
<1>10. Cardinality(Ones(b, n + 2))
         = Cardinality(Of(e, REGIME_SHIFT, n + 1)) + Cardinality(Firsts(b, n + 2))
  BY <1>1, <1>4, <1>5, <1>6, <1>7
<1>11. QED
  BY <1>0, <1>8, <1>9, <1>10 DEF CountsFit

LEMMA CountsFitAll ==
  ASSUME NEW b, NEW e, NEW n \in Nat, Labelling(b, e, n)
  PROVE  CountsFit(b, e, n)
<1> DEFINE Good == {m \in 0 .. n : CountsFit(b, e, m)}
<1>1. ASSUME NEW m \in 0 .. n, \A k \in 0 .. m - 1 : k \in Good
      PROVE  m \in Good
  <2>1. CASE m = 0
    <3>1. \A state : Of(e, state, 0) = {}
      BY DEF Of
    <3>2. Firsts(b, 1) = Ones(b, 1)
      BY DEF Firsts, Ones
    <3>3. Ones(b, 1) \in SUBSET (1 .. 1)
      BY DEF Ones
    <3>4. Cardinality(Ones(b, 1)) \in Nat
      BY <3>3, OneMore
    <3>5. \A state : Cardinality(Of(e, state, 0)) = 0
      BY <3>1, FS_EmptySet
    <3>6. 0 + 0 + 0 = 0 /\ 0 % 2 = 0 /\ 0 + 1 = 1
      OBVIOUS
    <3>7. Cardinality(Ones(b, 1)) = 0 + Cardinality(Firsts(b, 1))
      BY <3>2, <3>4
    <3>8. CountsFit(b, e, 0)
      BY <3>5, <3>6, <3>7 DEF CountsFit
    <3>9. QED
      BY <2>1, <3>8
  <2>2. CASE m # 0
    <3>1. m - 1 \in 0 .. m - 1 /\ m - 1 \in Nat /\ m - 1 + 1 = m /\ m + 1 <= n + 1
      BY <2>2
    <3>2. CountsFit(b, e, m - 1)
      BY <1>1, <3>1
    <3>3. Labelling(b, e, m)
      BY <3>1 DEF Labelling
    <3>4. CountsFit(b, e, m)
      BY <3>1, <3>2, <3>3, CountsFitOn
    <3>5. QED
      BY <3>4
  <2>3. QED
    BY <2>1, <2>2
<1>2. n \in Good
  <2> HIDE DEF Good
  <2>1. QED
    BY <1>1, UpTo
<1>3. QED
  BY <1>2

-----------------------------------------------------------------------------
(* The runs.  What aggregate has made of the first events of e.            *)
RunsUpTo(e, n, f) ==
  f = [i \in 0 .. n |-> IF i = 0 THEN << >> ELSE Events!Joined(f[i - 1], i, e[i])]

LEMMA RunsExist ==
  ASSUME NEW e, NEW n \in Nat
  PROVE  \E f : RunsUpTo(e, n, f)
<1> DEFINE Good == {m \in 0 .. n : \E f : RunsUpTo(e, m, f)}
<1>1. ASSUME NEW m \in 0 .. n, \A k \in 0 .. m - 1 : k \in Good
      PROVE  m \in Good
  <2>1. CASE m = 0
    <3>1. RunsUpTo(e, m, [i \in 0 .. 0 |-> << >>])
      BY <2>1 DEF RunsUpTo
    <3>2. QED
      BY <3>1
  <2>2. CASE m # 0
    <3>1. m - 1 \in 0 .. m - 1 /\ m \in Nat
      BY <2>2
    <3>2. PICK g : RunsUpTo(e, m - 1, g)
      BY <1>1, <3>1
    <3> DEFINE h == [i \in 0 .. m |-> IF i = m THEN Events!Joined(g[m - 1], m, e[m]) ELSE g[i]]
    <3>3. ASSUME NEW i \in 0 .. m
          PROVE  h[i] = IF i = 0 THEN << >> ELSE Events!Joined(h[i - 1], i, e[i])
      <4>1. CASE i = m
        <5>1. h[i - 1] = g[m - 1] /\ h[i] = Events!Joined(g[m - 1], m, e[m])
          BY <4>1, <3>1
        <5>2. QED
          BY <5>1, <4>1, <2>2
      <4>2. CASE i # m
        <5>1. i \in 0 .. m - 1
          BY <4>2, <3>1
        <5>2. g[i] = IF i = 0 THEN << >> ELSE Events!Joined(g[i - 1], i, e[i])
          BY <5>1, <3>2 DEF RunsUpTo
        <5>3. h[i] = g[i] /\ (i # 0 => h[i - 1] = g[i - 1])
          BY <5>1, <4>2, <3>1
        <5>4. QED
          BY <5>2, <5>3
      <4>3. QED
        BY <4>1, <4>2
    <3>4. RunsUpTo(e, m, h)
      <4>1. h = [i \in 0 .. m |-> h[i]]
        OBVIOUS
      <4> HIDE DEF h
      <4>2. [i \in 0 .. m |-> h[i]]
              = [i \in 0 .. m |-> IF i = 0 THEN << >> ELSE Events!Joined(h[i - 1], i, e[i])]
        BY <3>3
      <4>3. QED
        BY <4>1, <4>2 DEF RunsUpTo
    <3>5. QED
      BY <3>4
  <2>3. QED
    BY <2>1, <2>2
<1>2. n \in Good
  <2> HIDE DEF Good
  <2>1. QED
    BY <1>1, UpTo
<1>3. QED
  BY <1>2

LEMMA AggregateIs ==
  ASSUME NEW e, Len(e) \in Nat
  PROVE  \E f : RunsUpTo(e, Len(e), f) /\ Events!aggregate(e) = f[Len(e)]
<1> DEFINE F == CHOOSE f : RunsUpTo(e, Len(e), f)
<1>1. RunsUpTo(e, Len(e), F)
  BY RunsExist
<1>2. Events!aggregate(e) = F[Len(e)]
  BY DEF Events!aggregate, RunsUpTo
<1>3. QED
  BY <1>1, <1>2

(* The runs of the first n events follow one another without a gap.        *)
Run == [index : Nat, state : Labels, count : Nat \ {0}]

Behind(run) == run.index + run.count

RunsFit(e, n, runs) ==
  /\ runs \in Seq(Run)
  /\ runs = << >> <=> n = 0
  /\ runs # << >> => runs[1].index = 1 /\ Behind(runs[Len(runs)]) = n + 1
  /\ \A k \in 1 .. Len(runs) :
       \A i \in runs[k].index .. Behind(runs[k]) - 1 : e[i] = runs[k].state
  /\ \A k \in 1 .. Len(runs) - 1 :
       Behind(runs[k]) = runs[k + 1].index /\ runs[k].state # runs[k + 1].state

LEMMA OneRunMore ==
  ASSUME NEW run \in Run
  PROVE  [run EXCEPT !.count = @ + 1]
           = [index |-> run.index, state |-> run.state, count |-> run.count + 1]
BY DEF Run

LEMMA LastRunMore ==
  ASSUME NEW runs, NEW r, runs[r] \in Run
  PROVE  [runs EXCEPT ![r].count = @ + 1]
           = [runs EXCEPT ![r] = [index |-> runs[r].index, state |-> runs[r].state,
                                  count |-> runs[r].count + 1]]
<1>1. PICK run \in Run : run = runs[r]
  OBVIOUS
<1>2. [run EXCEPT !.count = run.count + 1]
        = [index |-> run.index, state |-> run.state, count |-> run.count + 1]
  BY OneRunMore
<1>3. QED
  BY <1>1, <1>2, Zenon

LEMMA RunsFitOn ==
  ASSUME NEW e, NEW n \in Nat, NEW runs, RunsFit(e, n, runs), e[n + 1] \in Labels
  PROVE  RunsFit(e, n + 1, Events!Joined(runs, n + 1, e[n + 1]))
<1> DEFINE more == Events!Joined(runs, n + 1, e[n + 1])
<1>1. PICK r \in Nat : r = Len(runs)
  BY DEF RunsFit
<1>2. /\ runs \in Seq(Run) /\ DOMAIN runs = 1 .. r
      /\ \A k \in 1 .. r : /\ runs[k] \in Run
                           /\ runs[k].index \in Nat /\ runs[k].count \in Nat \ {0}
  <2>1. runs \in Seq(Run) /\ DOMAIN runs = 1 .. r
    BY <1>1 DEF RunsFit
  <2>2. \A k \in 1 .. r : runs[k] \in Run
    BY <2>1
  <2>3. QED
    BY <2>1, <2>2 DEF Run
<1>3. /\ r # 0 => runs[1].index = 1 /\ Behind(runs[r]) = n + 1
      /\ r = 0 => n = 0
      /\ \A k \in 1 .. r : \A i \in runs[k].index .. Behind(runs[k]) - 1 : e[i] = runs[k].state
      /\ \A k \in 1 .. r - 1 :
           Behind(runs[k]) = runs[k + 1].index /\ runs[k].state # runs[k + 1].state
  <2>1. runs = << >> <=> r = 0
    BY <1>1, <1>2, EmptySeq
  <2>2. QED
    BY <1>1, <2>1 DEF RunsFit
<1>4. CASE r # 0 /\ runs[r].state = e[n + 1]
  <2> DEFINE longer == [index |-> runs[r].index, state |-> runs[r].state,
                        count |-> runs[r].count + 1]
  <2>1. more = [runs EXCEPT ![r].count = @ + 1]
    <3>1. runs # << >>
      BY <1>1, <1>4
    <3>2. QED
      BY <1>1, <1>4, <3>1, Zenon DEF Events!Joined, Events!Last
  <2>2. /\ r \in 1 .. r /\ runs[r] \in Run
        /\ more = [runs EXCEPT ![r] = longer]
    <3>1. r \in 1 .. r /\ runs[r] \in Run
      BY <1>2, <1>4
    <3>2. QED
      BY <2>1, <3>1, LastRunMore, Zenon
  <2>3. /\ longer \in Run /\ longer.index = runs[r].index /\ longer.state = runs[r].state
        /\ longer.count = runs[r].count + 1
    BY <1>2, <2>2 DEF Run
  <2> HIDE DEF longer, more
  <2>4. /\ Len(more) = r /\ more # << >>
        /\ \A k \in 1 .. r : k # r => more[k] = runs[k]
        /\ more[r] = longer
    BY <1>1, <1>2, <2>2
  <2>5. more \in Seq(Run)
    BY <1>1, <1>2, <2>2, <2>3
  <2>6. Behind(more[r]) = n + 2
    BY <1>2, <1>3, <1>4, <2>2, <2>3, <2>4 DEF Behind
  <2>7. more[1].index = 1
    <3>1. CASE r = 1
      BY <1>3, <2>3, <2>4, <3>1
    <3>2. CASE r # 1
      BY <1>3, <1>4, <2>4, <3>2
    <3>3. QED
      BY <3>1, <3>2
  <2>8. ASSUME NEW k \in 1 .. r, NEW i \in more[k].index .. Behind(more[k]) - 1
        PROVE  e[i] = more[k].state
    <3>1. CASE k # r
      BY <1>3, <2>4, <2>8, <3>1
    <3>2. CASE k = r
      <4>1. i = n + 1 \/ i \in runs[r].index .. Behind(runs[r]) - 1
        BY <1>2, <1>3, <1>4, <2>2, <2>3, <2>4, <2>6, <2>8, <3>2
      <4>2. QED
        BY <1>3, <1>4, <2>2, <2>3, <2>4, <3>2, <4>1
    <3>3. QED
      BY <3>1, <3>2
  <2>9. ASSUME NEW k \in 1 .. r - 1
        PROVE  Behind(more[k]) = more[k + 1].index /\ more[k].state # more[k + 1].state
    <3>1. k \in 1 .. r /\ k # r /\ more[k] = runs[k] /\ k + 1 \in 1 .. r
      BY <2>4
    <3>2. more[k + 1].index = runs[k + 1].index /\ more[k + 1].state = runs[k + 1].state
      BY <2>3, <2>4, <3>1
    <3>3. QED
      BY <1>3, <3>1, <3>2
  <2>10. n + 1 # 0 /\ n + 1 + 1 = n + 2
    OBVIOUS
  <2>11. RunsFit(e, n + 1, more)
    BY <2>4, <2>5, <2>6, <2>7, <2>8, <2>9, <2>10 DEF RunsFit
  <2>12. QED
    BY <2>11 DEF more
<1>5. CASE r = 0 \/ runs[r].state # e[n + 1]
  <2> DEFINE new == [index |-> n + 1, state |-> e[n + 1], count |-> 1]
  <2>1. more = Append(runs, new)
    BY <1>1, <1>2, <1>5 DEF Events!Joined, Events!Last
  <2>2. new \in Run /\ new.index = n + 1 /\ new.state = e[n + 1] /\ Behind(new) = n + 2
    BY DEF Run, Behind
  <2> HIDE DEF new
  <2> HIDE DEF more
  <2>3. /\ more \in Seq(Run) /\ Len(more) = r + 1 /\ more # << >>
        /\ more[r + 1] = new
        /\ \A k \in 1 .. r : more[k] = runs[k]
    BY <1>1, <1>2, <2>1, <2>2
  <2>4. more[1].index = 1
    <3>1. CASE r = 0
      BY <1>3, <2>2, <2>3, <3>1
    <3>2. CASE r # 0
      BY <1>3, <2>3, <3>2
    <3>3. QED
      BY <3>1, <3>2
  <2>5. ASSUME NEW k \in 1 .. r + 1, NEW i \in more[k].index .. Behind(more[k]) - 1
        PROVE  e[i] = more[k].state
    <3>1. CASE k = r + 1
      BY <2>2, <2>3, <2>5, <3>1
    <3>2. CASE k # r + 1
      <4>1. k \in 1 .. r /\ more[k] = runs[k]
        BY <2>3, <3>2
      <4>2. QED
        BY <1>3, <2>5, <4>1
    <3>3. QED
      BY <3>1, <3>2
  <2>6. ASSUME NEW k \in 1 .. r
        PROVE  Behind(more[k]) = more[k + 1].index /\ more[k].state # more[k + 1].state
    <3>1. CASE k = r
      BY <1>3, <1>5, <2>2, <2>3, <3>1
    <3>2. CASE k # r
      <4>1. k \in 1 .. r - 1 /\ k + 1 \in 1 .. r
        BY <3>2
      <4>2. QED
        BY <1>3, <2>3, <4>1
    <3>3. QED
      BY <3>1, <3>2
  <2>7. n + 1 # 0 /\ n + 1 + 1 = n + 2 /\ r + 1 - 1 = r
    OBVIOUS
  <2>8. RunsFit(e, n + 1, more)
    BY <2>2, <2>3, <2>4, <2>5, <2>6, <2>7 DEF RunsFit
  <2>9. QED
    BY <2>8 DEF more
<1>6. QED
  BY <1>4, <1>5

LEMMA RunsFitAll ==
  ASSUME NEW e, NEW n \in Nat, \A i \in 1 .. n : e[i] \in Labels, NEW f, RunsUpTo(e, n, f)
  PROVE  RunsFit(e, n, f[n])
<1> DEFINE Good == {m \in 0 .. n : RunsFit(e, m, f[m])}
<1>1. ASSUME NEW m \in 0 .. n, \A k \in 0 .. m - 1 : k \in Good
      PROVE  m \in Good
  <2>1. f[m] = IF m = 0 THEN << >> ELSE Events!Joined(f[m - 1], m, e[m])
    BY DEF RunsUpTo
  <2>2. CASE m = 0
    <3>1. << >> \in Seq(Run) /\ Len(<< >>) = 0
      BY EmptySeq
    <3>2. RunsFit(e, 0, << >>)
      BY <3>1 DEF RunsFit
    <3>3. QED
      BY <2>1, <2>2, <3>2
  <2>3. CASE m # 0
    <3>1. m - 1 \in 0 .. m - 1 /\ m - 1 \in Nat /\ m - 1 + 1 = m /\ m \in 1 .. n
      BY <2>3
    <3>2. RunsFit(e, m - 1, f[m - 1])
      BY <1>1, <3>1
    <3>3. RunsFit(e, m, Events!Joined(f[m - 1], m, e[m]))
      BY <3>1, <3>2, RunsFitOn
    <3>4. QED
      BY <2>1, <2>3, <3>3
  <2>4. QED
    BY <2>2, <2>3
<1>2. n \in Good
  <2> HIDE DEF Good
  <2>1. QED
    BY <1>1, UpTo
<1>3. QED
  BY <1>2

(* All the events of a stream, when there are any.                         *)
LEMMA EventsAreLabels ==
  ASSUME EventInv, Events!Transformed, Events!events # << >>
  PROVE  \E n \in Nat \ {0} :
           /\ Len(bits) = n + 1 /\ Len(Events!events) = n
           /\ DOMAIN Events!events = 1 .. n
           /\ Labelling(bits, Events!events, n)
           /\ \A i \in 1 .. n : Events!events[i] \in Labels
<1>1. /\ bits \in Seq(Range(bits)) /\ result \in [1 .. Steps -> Labels \cup {Unset}]
  BY DEF EventInv, LabelInv
<1>2. ~invalid /\ Events!events = result
  BY DEF Events!events
<1>3. Clean(Len(bits)) /\ \A i \in 1 .. Steps : result[i] = StepOf(i)
  BY <1>2, FlagIsHonest
<1>4. PICK n \in Nat : n = Steps
  BY <1>1, StepsOf
<1>5. n # 0
  BY <1>1, <1>2, <1>4
<1>6. Len(bits) = n + 1
  <2>1. /\ Len(bits) \in Nat
        /\ Len(bits) >= 2 => Steps = Len(bits) - 1
        /\ Len(bits) < 2 => Steps = 0
    BY <1>1, StepsOf
  <2>2. QED
    BY <1>4, <1>5, <2>1
<1>7. Len(result) = n /\ DOMAIN result = 1 .. n
  BY <1>1, <1>4
<1>8. \A i \in 1 .. n + 1 : bits[i] \in {0, 1}
  BY <1>3, <1>6 DEF Clean, Events!IsBit
<1>9. \A i \in 1 .. n : result[i] = Events!StateOf(bits[i], bits[i + 1])
  BY <1>3, <1>4 DEF StepOf
<1>10. \A i \in 1 .. n : result[i] \in Labels
  BY <1>9, LabelOf
<1>11. Labelling(bits, result, n)
  BY <1>8, <1>9 DEF Labelling
<1>12. QED
  BY <1>2, <1>5, <1>6, <1>7, <1>10, <1>11

LEMMA RunsAreWhole ==
  ASSUME EventInv
  PROVE  Events!RunsAreLossless
<1>1. SUFFICES ASSUME Events!Transformed PROVE Events!RunsAreLossless
  BY DEF Events!RunsAreLossless
<1> DEFINE e == Events!events
           runs == Events!aggregate(e)
<1>3. /\ Len(e) \in Nat /\ (e = << >> <=> Len(e) = 0)
      /\ \A i \in 1 .. Len(e) : e[i] \in Labels
  <2>1. CASE e = << >>
    BY <2>1
  <2>2. CASE e # << >>
    BY <1>1, <2>2, EventsAreLabels
  <2>3. QED
    BY <2>1, <2>2
<1> HIDE DEF e
<1>4. PICK f : RunsUpTo(e, Len(e), f) /\ Events!aggregate(e) = f[Len(e)]
  BY <1>3, AggregateIs
<1>6. RunsFit(e, Len(e), runs)
  BY <1>3, <1>4, RunsFitAll
<1> HIDE DEF runs
<1>7. \A k \in 1 .. Len(runs) : runs[k].count > 0
  <2>1. \A k \in 1 .. Len(runs) : runs[k] \in Run
    BY <1>6 DEF RunsFit
  <2>2. \A run \in Run : run.count > 0
    BY DEF Run
  <2>3. QED
    BY <2>1, <2>2
<1>8. /\ runs = << >> <=> Len(e) = 0
      /\ runs # << >> => runs[1].index = 1 /\ Behind(runs[Len(runs)]) = Len(e) + 1
      /\ \A k \in 1 .. Len(runs) :
           \A i \in runs[k].index .. Behind(runs[k]) - 1 : e[i] = runs[k].state
      /\ \A k \in 1 .. Len(runs) - 1 :
           Behind(runs[k]) = runs[k + 1].index /\ runs[k].state # runs[k + 1].state
  BY <1>6 DEF RunsFit
<1>9. runs = << >> <=> e = << >>
  BY <1>3, <1>8
<1>10. \A k \in 1 .. Len(runs) :
         /\ runs[k].count > 0
         /\ \A i \in runs[k].index .. Behind(runs[k]) - 1 : e[i] = runs[k].state
  BY <1>7, <1>8
<1>11. QED
  BY <1>8, <1>9, <1>10, Zenon DEF Events!RunsAreLossless, Behind, runs, e

LEMMA CountsAreRight ==
  ASSUME EventInv
  PROVE  Events!CountsFitTheBits /\ Events!CollapseIsHeldOnes
<1>1. SUFFICES ASSUME Events!Transformed, Events!events # << >>
               PROVE  Events!CountsFitTheBits /\ Events!CollapseIsHeldOnes
  BY DEF Events!CountsFitTheBits, Events!CollapseIsHeldOnes
<1>2. PICK e : e = Events!events
  OBVIOUS
<1>3. PICK n \in Nat \ {0} :
        /\ Len(bits) = n + 1 /\ Len(e) = n /\ DOMAIN e = 1 .. n
        /\ Labelling(bits, e, n)
        /\ \A i \in 1 .. n : e[i] \in Labels
  BY <1>1, <1>2, EventsAreLabels
<1>4. CountsFit(bits, e, n)
  BY <1>3, CountsFitAll
<1>5. /\ Events!null_state_count = Cardinality(Of(e, NULL_STATE, n))
      /\ Events!oscillation_count = Cardinality(Of(e, OSCILLATION, n))
      /\ Events!shift_count = Cardinality(Of(e, REGIME_SHIFT, n))
  BY <1>2, <1>3 DEF Events!null_state_count, Events!oscillation_count, Events!shift_count,
     Events!CountOf, Of, Events!Cardinality, Cardinality
<1>6. Events!CountsFitTheBits
  <2> DEFINE ones == {i \in 1 .. Len(bits) : bits[i] = 1}
             firsts == {i \in ones : i - 1 \notin ones}
  <2>1. Events!Last(bits) = bits[n + 1] /\ n + 1 - 1 = n
    BY <1>3 DEF Events!Last
  <2>2. ones = Ones(bits, n + 1)
    BY <1>3 DEF Ones
  <2>3. firsts = Firsts(bits, n + 1)
    BY <2>2 DEF Firsts
  <2> HIDE DEF ones, firsts
  <2>4. /\ Events!Cardinality(ones) = Cardinality(ones)
        /\ Events!Cardinality(firsts) = Cardinality(firsts)
    BY Zenon DEF Events!Cardinality, Cardinality
  <2>5. Events!Cardinality(ones) = Events!shift_count + Events!Cardinality(firsts)
    BY <1>4, <1>5, <2>2, <2>3, <2>4 DEF CountsFit
  <2>6. Events!oscillation_count % 2 = (IF bits[1] = Events!Last(bits) THEN 0 ELSE 1)
    BY <1>4, <1>5, <2>1 DEF CountsFit
  <2>7. Events!null_state_count + Events!oscillation_count + Events!shift_count
          = Len(bits) - 1
    BY <1>3, <1>4, <1>5, <2>1 DEF CountsFit
  <2>8. QED
    BY <2>5, <2>6, <2>7, Zenon DEF Events!CountsFitTheBits, ones, firsts
<1>7. PICK shifts, others :
        /\ shifts = Events!shift_count
        /\ others = Events!null_state_count + Events!oscillation_count
  OBVIOUS
<1>8. /\ shifts \in Nat /\ others + shifts = n
      /\ Events!null_state_count \in Nat /\ Events!oscillation_count \in Nat
  <2>1. n - 1 \in Nat
    OBVIOUS
  <2>2. \A state : Cardinality(Of(e, state, n)) \in Nat
    BY CountsGrow
  <2>3. QED
    BY <1>4, <1>5, <1>7, <2>2 DEF CountsFit
<1>9. Events!collapse_detected <=> 2 * shifts >= n
  BY <1>1, <1>2, <1>3, <1>7 DEF Events!collapse_detected
<1>10. \A i \in 1 .. n : e[i] = REGIME_SHIFT <=> bits[i] = 1 /\ bits[i + 1] = 1
  <2>1. SUFFICES ASSUME NEW i \in 1 .. n
                 PROVE  e[i] = REGIME_SHIFT <=> bits[i] = 1 /\ bits[i + 1] = 1
    OBVIOUS
  <2>2. /\ bits[i] \in {0, 1} /\ bits[i + 1] \in {0, 1}
        /\ e[i] = Events!StateOf(bits[i], bits[i + 1])
    <3>1. i \in 1 .. n + 1 /\ i + 1 \in 1 .. n + 1
      OBVIOUS
    <3>2. QED
      BY <1>3, <3>1 DEF Labelling
  <2>3. QED
    BY <2>2, LabelsAssumption DEF Events!StateOf
<1>11. ASSUME \A i \in 1 .. Len(bits) : bits[i] = 1
       PROVE  Events!collapse_detected
  <2>1. Of(e, REGIME_SHIFT, n) = 1 .. n
    BY <1>3, <1>10, <1>11 DEF Of
  <2>2. Cardinality(1 .. n) = n
    BY FS_Interval
  <2>3. shifts = n
    BY <1>5, <1>7, <2>1, <2>2
  <2>4. QED
    BY <1>9, <2>3
<1>12. shifts = others => Events!collapse_detected
  BY <1>8, <1>9
<1>13. ASSUME \A i \in 1 .. Len(bits) - 1 : bits[i] = 0 \/ bits[i + 1] = 0
       PROVE  ~Events!collapse_detected
  <2>1. Of(e, REGIME_SHIFT, n) = {}
    BY <1>3, <1>10, <1>13 DEF Of
  <2>2. shifts = 0
    BY <1>5, <1>7, <2>1, FS_EmptySet
  <2>3. QED
    BY <1>9, <2>2
<1>14. Events!CollapseIsHeldOnes
  BY <1>7, <1>11, <1>12, <1>13 DEF Events!CollapseIsHeldOnes
<1>15. QED
  BY <1>6, <1>14

(* The runs, counts and the collapse the native engine reports of a stream *)
(* are those of its bits: for streams of any length, and in every order of *)
(* the parallel iterations.                                                *)
THEOREM EventsAllAddUp == EngineSpec => []EventsAddUp
<1>1. EngineInv => EventsAddUp
  BY RunsAreWhole, CountsAreRight DEF EngineInv, EventsAddUp, Events!EventsAddUp
<1>2. QED
  BY <1>1, EngineInvHolds, PTL
=============================================================================
