---------------------------- MODULE ProbeProofs -----------------------------
(***************************************************************************)
(* Proofs about the probe poller and its pipeline.  ProbeStream: whatever  *)
(* lines a server sends, however often and in whatever order, and wherever *)
(* the stream ends or breaks.  ProbePipeline: for any number of targets,   *)
(* metrics, files, rounds and faults, without bounds on time or on the     *)
(* file.                                                                   *)
(***************************************************************************)
EXTENDS ProbeStream, ProbePipeline, FiniteSetTheorems, SequenceTheorems, NaturalsInduction,
        WellFoundedInduction, TLAPS

-----------------------------------------------------------------------------
(***************************************************************************)
(* One stream.                                                             *)
(***************************************************************************)

(* A payload with text in it.                                              *)
HasText(payload) == IsRecord(payload) /\ payload.text

(* A payload that is trouble, for this provider at least.                  *)
IsTrouble(payload) ==
  \/ payload = Malformed
  \/ payload = Done /\ provider = "anthropic"
  \/ IsRecord(payload) /\ payload.bad

(* The phases are what they are called, and there is no result before the  *)
(* last.                                                                   *)
PhaseInv ==
  /\ provider \in {"openai", "anthropic"}
  /\ phase \in {"request", "reading", "finished"}
  /\ phase # "finished" => result = NoResult
  /\ data_lines \in Seq(Payloads)

(* While the probe is on, the parser has the event open that the server    *)
(* has.                                                                    *)
SentInv == phase # "finished" => sent_name = event_name /\ sent_data = data_lines

(* The first text is timed at or after the line that had it was read, and  *)
(* no collected line has text unless one was seen.                         *)
TextInv ==
  /\ clock \in Nat
  /\ text_at = NoText \/ (text_at \in Nat /\ text_at <= clock)
  /\ ttft = NoText \/ (ttft \in Nat /\ ttft <= clock /\ text_at # NoText /\ text_at <= ttft)
  /\ \A i \in DOMAIN data_lines : HasText(data_lines[i]) => text_at # NoText
  /\ TextTimed

(* No data line that can end in an error is collected without suspicion,   *)
(* an error has its reason, and there is none before the answer.           *)
TroubleInv ==
  /\ suspect \in BOOLEAN /\ alarm \in BOOLEAN
  /\ error => suspect \/ alarm
  /\ alarm => error
  /\ phase = "request" => ~error /\ ~alarm /\ data_lines = << >>
  /\ \A i \in DOMAIN data_lines : IsTrouble(data_lines[i]) => suspect
  /\ Len(data_lines) > 1 => suspect
  /\ ErrorsReported

(* The counts are those of the last usage from the first line on.          *)
UsageInv ==
  /\ prompt_tokens = usage.prompt
  /\ completion_tokens = usage.completion
  /\ phase = "request" => usage.prompt = 0 /\ usage.completion = 0
  /\ result # NoResult =>
       result.prompt = usage.prompt /\ result.completion = usage.completion

StreamInv == PhaseInv /\ SentInv /\ TextInv /\ TroubleInv /\ UsageInv

-----------------------------------------------------------------------------
(* What the collected lines of an event are joined to is one of them, or   *)
(* it is malformed.                                                        *)
LEMMA JoinedIsALine ==
  ASSUME NEW lines \in Seq(Payloads), lines # << >>
  PROVE  \/ \E i \in DOMAIN lines : Joined(lines) = lines[i]
         \/ Joined(lines) = Malformed /\ Len(lines) > 1
<1>1. Len(lines) = 1 \/ Len(lines) > 1
  <2>1. Len(lines) \in Nat \ {0}
    BY EmptySeq
  <2>2. \A n \in Nat \ {0} : n = 1 \/ n > 1
    OBVIOUS
  <2>3. QED
    BY <2>1, <2>2
<1>2. CASE Len(lines) = 1
  BY <1>2 DEF Joined
<1>3. CASE Len(lines) > 1 /\ \E i \in DOMAIN lines : Alone(lines, i)
  <2> DEFINE i == CHOOSE j \in DOMAIN lines : Alone(lines, j)
  <2>1. i \in DOMAIN lines
    BY <1>3
  <2>2. Joined(lines) = lines[i]
    BY <1>3 DEF Joined
  <2>3. QED
    BY <2>1, <2>2
<1>4. CASE Len(lines) > 1 /\ ~\E i \in DOMAIN lines : Alone(lines, i)
  BY <1>4 DEF Joined
<1>5. QED
  BY <1>1, <1>2, <1>3, <1>4

(* So a joined event has text only if a line did, and is trouble only if   *)
(* there was some before.                                                  *)
LEMMA JoinedOfKnown ==
  ASSUME StreamInv, data_lines # << >>
  PROVE  /\ HasText(Joined(data_lines)) => text_at # NoText
         /\ IsTrouble(Joined(data_lines)) => suspect
<1>1. data_lines \in Seq(Payloads)
  BY DEF StreamInv, PhaseInv
<1>2. CASE \E i \in DOMAIN data_lines : Joined(data_lines) = data_lines[i]
  BY <1>2 DEF StreamInv, TextInv, TroubleInv
<1>3. CASE Joined(data_lines) = Malformed /\ Len(data_lines) > 1
  BY <1>3 DEF StreamInv, TroubleInv, HasText, IsRecord
<1>4. QED
  BY <1>1, <1>2, <1>3, JoinedIsALine

-----------------------------------------------------------------------------
(* What the handlers make of a payload: a text is timed now if it is the   *)
(* first, an error is kept, and usage is counted where usage is expected.  *)
LEMMA SeenFields ==
  ASSUME NEW payload, provider \in {"openai", "anthropic"}
  PROVE  LET seen == Seen(payload)
             counts == IsRecord(payload)
                       /\ (provider = "openai"
                           \/ event_name \in {"message_start", "message_delta"})
         IN /\ seen.ttft = ttft
               \/ (HasText(payload) /\ ttft = NoText /\ seen.ttft = clock)
            /\ error => seen.error
            /\ seen.error =>
                 \/ error
                 \/ provider = "anthropic" /\ event_name = "error" /\ IsRecord(payload)
            /\ provider = "anthropic" /\ event_name = "error" /\ IsRecord(payload) => seen.error
            /\ seen.prompt = IF counts THEN Counted(prompt_tokens, payload.prompt)
                             ELSE prompt_tokens
            /\ seen.completion = IF counts THEN Counted(completion_tokens, payload.completion)
                                 ELSE completion_tokens
<1>1. CASE provider = "openai"
  <2>1. Seen(payload) = SeenOpenAI(payload)
    BY <1>1 DEF Seen
  <2>2. CASE IsRecord(payload)
    BY <1>1, <2>1, <2>2 DEF SeenOpenAI, IsRecord, HasText, FirstText
  <2>3. CASE ~IsRecord(payload)
    BY <1>1, <2>1, <2>3 DEF SeenOpenAI, SeenSoFar, IsRecord
  <2>4. QED
    BY <2>2, <2>3
<1>2. CASE provider = "anthropic"
  <2>1. Seen(payload) = SeenAnthropic(payload)
    BY <1>2 DEF Seen
  <2>2. CASE ~IsRecord(payload)
    BY <1>2, <2>1, <2>2 DEF SeenAnthropic, SeenSoFar, IsRecord
  <2>3. CASE IsRecord(payload) /\ event_name \in {"message_start", "message_delta"}
    BY <1>2, <2>1, <2>3 DEF SeenAnthropic, SeenSoFar, IsRecord
  <2>4. CASE IsRecord(payload) /\ event_name = "content_block_delta" /\ ~payload.bad
    BY <1>2, <2>1, <2>4 DEF SeenAnthropic, SeenSoFar, IsRecord, HasText, FirstText
  <2>5. CASE IsRecord(payload) /\ event_name = "error"
    BY <1>2, <2>1, <2>5 DEF SeenAnthropic, SeenSoFar, IsRecord
  <2>6. CASE /\ IsRecord(payload)
             /\ event_name \notin {"message_start", "message_delta", "error"}
             /\ ~(event_name = "content_block_delta" /\ ~payload.bad)
    BY <1>2, <2>1, <2>6 DEF SeenAnthropic, SeenSoFar, IsRecord
  <2>7. QED
    BY <2>2, <2>3, <2>4, <2>5, <2>6
<1>3. QED
  BY <1>1, <1>2

(* What raises is trouble.                                                 *)
LEMMA RaisedIsTrouble ==
  ASSUME NEW payload, provider \in {"openai", "anthropic"},
         Raises(payload), ~Stops(payload)
  PROVE  IsTrouble(payload)
BY DEF Raises, Stops, IsTrouble, IsRecord

-----------------------------------------------------------------------------
(* Concluding reports what it is given and the time of now.                *)
LEMMA ConcludeReports ==
  ASSUME NEW first_text, NEW failed, NEW prompt, NEW completion,
         Conclude(first_text, failed, prompt, completion)
  PROVE  /\ phase' = "finished"
         /\ result'.ttft = IF first_text = NoText THEN clock ELSE first_text
         /\ result'.total = clock
         /\ result'.error = failed
         /\ result'.prompt = prompt
         /\ result'.completion = completion
BY DEF Conclude

(* An event handled, by a blank line or by the end of the stream, keeps    *)
(* the invariant.                                                          *)
LEMMA HandledEvent ==
  ASSUME StreamInv, phase = "reading", data_lines # << >>, NEW last,
         HandleEvent(Joined(data_lines), last), NoteEvent,
         UNCHANGED <<provider, clock>>,
         \/ event_name' = NoName /\ data_lines' = << >>
         \/ last /\ UNCHANGED <<event_name, data_lines>>
  PROVE  StreamInv'
<1> DEFINE p == Joined(data_lines)
           seen == Seen(p)
           fails == Raises(p) /\ ~Stops(p)
           over == Stops(p) \/ fails \/ last
           counts == IsRecord(p) /\ (provider = "openai"
                                     \/ event_name \in {"message_start", "message_delta"})
<1>1. /\ provider \in {"openai", "anthropic"}
      /\ result = NoResult
      /\ data_lines \in Seq(Payloads)
      /\ sent_name = event_name /\ sent_data = data_lines
  BY DEF StreamInv, PhaseInv, SentInv
<1>2. /\ ttft' = seen.ttft
      /\ prompt_tokens' = seen.prompt
      /\ completion_tokens' = seen.completion
      /\ error' = (seen.error \/ fails)
      /\ over => Conclude(seen.ttft, seen.error \/ fails, seen.prompt, seen.completion)
      /\ ~over => phase' = phase /\ result' = result
  BY DEF HandleEvent, Remember
<1>3. (HasText(p) => text_at # NoText) /\ (IsTrouble(p) => suspect)
  BY JoinedOfKnown
<1>4. /\ UNCHANGED <<text_at, suspect>>
      /\ sent_name' = NoName /\ sent_data' = << >>
      /\ alarm' = (alarm \/ (provider = "anthropic" /\ event_name = "error" /\ IsRecord(p)))
      /\ usage' = IF counts THEN [prompt     |-> Counted(usage.prompt, p.prompt),
                                  completion |-> Counted(usage.completion, p.completion)]
                  ELSE usage
  BY <1>1 DEF NoteEvent, WholeEvent
<1> HIDE DEF p
<1>5. /\ seen.ttft = ttft \/ (HasText(p) /\ ttft = NoText /\ seen.ttft = clock)
      /\ error => seen.error
      /\ seen.error => \/ error
                       \/ provider = "anthropic" /\ event_name = "error" /\ IsRecord(p)
      /\ provider = "anthropic" /\ event_name = "error" /\ IsRecord(p) => seen.error
      /\ seen.prompt = IF counts THEN Counted(prompt_tokens, p.prompt) ELSE prompt_tokens
      /\ seen.completion = IF counts THEN Counted(completion_tokens, p.completion)
                            ELSE completion_tokens
  BY <1>1, SeenFields
<1>6. fails => IsTrouble(p)
  BY <1>1, RaisedIsTrouble
<1> HIDE DEF seen, fails, over, counts
<1>7. over => /\ phase' = "finished"
              /\ result'.ttft = IF seen.ttft = NoText THEN clock ELSE seen.ttft
              /\ result'.total = clock
              /\ result'.error = (seen.error \/ fails)
              /\ result'.prompt = seen.prompt
              /\ result'.completion = seen.completion
  BY <1>2, ConcludeReports
<1>8. PhaseInv'
  <2>1. data_lines' \in Seq(Payloads)
    <3>1. data_lines' = << >> \/ data_lines' = data_lines
      OBVIOUS
    <3>2. << >> \in Seq(Payloads)
      BY EmptySeq
    <3>3. QED
      BY <1>1, <3>1, <3>2
  <2>2. /\ phase' \in {"request", "reading", "finished"}
        /\ phase' # "finished" => result' = NoResult
    BY <1>1, <1>2, <1>7
  <2>3. QED
    BY <1>1, <2>1, <2>2 DEF PhaseInv, Payloads
<1>9. TextInv'
  <2>1. /\ clock \in Nat
        /\ text_at = NoText \/ (text_at \in Nat /\ text_at <= clock)
        /\ ttft = NoText \/ (ttft \in Nat /\ ttft <= clock /\ text_at # NoText /\ text_at <= ttft)
        /\ \A i \in DOMAIN data_lines : HasText(data_lines[i]) => text_at # NoText
    BY DEF StreamInv, TextInv
  <2>2. ttft' = NoText \/ (ttft' \in Nat /\ ttft' <= clock /\ text_at # NoText /\ text_at <= ttft')
    BY <1>2, <1>5, <1>3, <2>1
  <2>3. \A i \in DOMAIN data_lines' : HasText(data_lines'[i]) => text_at # NoText
    BY <2>1
  <2>4. result' # NoResult =>
          /\ result'.ttft <= result'.total
          /\ result'.ttft < result'.total => text_at # NoText /\ text_at <= result'.ttft
    BY <1>1, <1>2, <1>7, <2>1, <2>2
  <2>5. QED
    BY <1>4, <2>1, <2>2, <2>3, <2>4 DEF TextInv, TextTimed, HasText, IsRecord
<1>10. TroubleInv'
  <2>1. /\ suspect \in BOOLEAN
        /\ alarm \in BOOLEAN
        /\ error => suspect \/ alarm
        /\ alarm => error
        /\ \A i \in DOMAIN data_lines : IsTrouble(data_lines[i]) => suspect
        /\ Len(data_lines) > 1 => suspect
    BY DEF StreamInv, TroubleInv
  <2>2. (error' => suspect \/ alarm') /\ (alarm' => error')
    BY <1>2, <1>5, <1>3, <1>6, <1>4, <2>1
  <2>3. phase' # "request"
    BY <1>2, <1>7
  <2>4. /\ \A i \in DOMAIN data_lines' : IsTrouble(data_lines'[i]) => suspect
        /\ Len(data_lines') > 1 => suspect
    BY <2>1
  <2>5. result' # NoResult =>
          (alarm' => result'.error) /\ (result'.error => suspect \/ alarm')
    BY <1>1, <1>2, <1>7, <2>2
  <2>6. QED
    BY <1>4, <2>1, <2>2, <2>3, <2>4, <2>5 DEF TroubleInv, ErrorsReported, IsTrouble, IsRecord
<1>11. UsageInv'
  <2>1. prompt_tokens = usage.prompt /\ completion_tokens = usage.completion
    BY DEF StreamInv, UsageInv
  <2>2. prompt_tokens' = usage'.prompt /\ completion_tokens' = usage'.completion
    BY <1>2, <1>5, <1>4, <2>1
  <2>3. QED
    BY <1>1, <1>2, <1>7, <2>2 DEF UsageInv
<1>12. SentInv'
  <2>1. CASE over
    BY <1>7, <2>1 DEF SentInv
  <2>2. CASE ~over
    BY <1>4, <2>2 DEF SentInv, over
  <2>3. QED
    BY <2>1, <2>2
<1>13. QED
  BY <1>8, <1>9, <1>10, <1>11, <1>12 DEF StreamInv

-----------------------------------------------------------------------------
(* The invariant holds before the request is sent.                         *)
LEMMA StreamStarts == StreamHistoryInit => StreamInv
<1> SUFFICES ASSUME StreamHistoryInit PROVE StreamInv
  OBVIOUS
<1>1. /\ provider \in {"openai", "anthropic"} /\ phase = "request" /\ clock = 0
      /\ event_name = NoName /\ data_lines = << >> /\ ttft = NoText
      /\ prompt_tokens = 0 /\ completion_tokens = 0 /\ error = FALSE /\ result = NoResult
      /\ sent_name = NoName /\ sent_data = << >>
      /\ text_at = NoText /\ suspect = FALSE /\ alarm = FALSE
      /\ usage = [prompt |-> 0, completion |-> 0]
  BY DEF StreamHistoryInit, StreamInit
<1>2. PhaseInv
  BY <1>1 DEF PhaseInv
<1>3. TextInv
  BY <1>1 DEF TextInv, TextTimed
<1>4. TroubleInv
  <2>1. DOMAIN data_lines = {} /\ Len(data_lines) = 0
    BY <1>1
  <2>2. ErrorsReported
    BY <1>1 DEF ErrorsReported
  <2>3. /\ \A i \in DOMAIN data_lines : IsTrouble(data_lines[i]) => suspect
        /\ Len(data_lines) > 1 => suspect
    BY <2>1
  <2>4. QED
    BY <1>1, <2>2, <2>3 DEF TroubleInv
<1>5. UsageInv
  BY <1>1 DEF UsageInv
<1>6. SentInv
  BY <1>1 DEF SentInv
<1>7. QED
  BY <1>2, <1>3, <1>4, <1>5, <1>6 DEF StreamInv

(* A line read, and noted, keeps the invariant: text in it is noted before *)
(* it can be timed, and so is trouble before it can be an error.           *)
LEMMA ReadFieldKeeps ==
  ASSUME StreamInv, NEW raw \in ServerLines, ReadField(raw), NoteLine(raw)
  PROVE  StreamInv'
<1> DEFINE found == text_at = NoText /\ raw.kind = "data"
                    /\ IsRecord(raw.payload) /\ raw.payload.text
<1>1. /\ phase = "reading" /\ result = NoResult
      /\ provider \in {"openai", "anthropic"}
      /\ data_lines \in Seq(Payloads)
      /\ sent_name = event_name /\ sent_data = data_lines
  BY DEF StreamInv, PhaseInv, SentInv, ReadField
<1>2. /\ event_name' = IF raw.kind = "event" THEN raw.name ELSE event_name
      /\ data_lines' = IF raw.kind = "data" THEN Append(data_lines, raw.payload)
                       ELSE data_lines
      /\ UNCHANGED <<provider, phase, clock, ttft, prompt_tokens, completion_tokens,
                     error, result>>
  BY DEF ReadField, seenVars
<1>3. /\ sent_name' = IF raw.kind = "event" THEN raw.name ELSE sent_name
      /\ sent_data' = IF raw.kind = "data" THEN Append(sent_data, raw.payload)
                      ELSE sent_data
      /\ suspect' = (suspect \/ Suspect(raw))
      /\ text_at' = IF found THEN clock ELSE text_at
      /\ UNCHANGED <<alarm, usage>>
  BY DEF NoteLine
<1>4. raw.kind = "data" => raw.payload \in Payloads
  BY StreamAssumption
<1>5. /\ data_lines' \in Seq(Payloads)
      /\ \A i \in DOMAIN data_lines' :
           \/ i \in DOMAIN data_lines /\ data_lines'[i] = data_lines[i]
           \/ raw.kind = "data" /\ data_lines'[i] = raw.payload
      /\ \/ Len(data_lines') = Len(data_lines)
         \/ raw.kind = "data" /\ (Len(data_lines') > 1 => data_lines # << >>)
  <2>1. CASE raw.kind = "data"
    BY <1>1, <1>2, <1>4, <2>1 DEF Payloads
  <2>2. CASE raw.kind # "data"
    BY <1>1, <1>2, <2>2
  <2>3. QED
    BY <2>1, <2>2
<1>6. PhaseInv'
  BY <1>1, <1>2, <1>5 DEF PhaseInv, Payloads
<1>7. TextInv'
  <2>1. /\ clock \in Nat
        /\ text_at = NoText \/ (text_at \in Nat /\ text_at <= clock)
        /\ ttft = NoText \/ (ttft \in Nat /\ ttft <= clock /\ text_at # NoText /\ text_at <= ttft)
        /\ \A i \in DOMAIN data_lines : HasText(data_lines[i]) => text_at # NoText
    BY DEF StreamInv, TextInv
  <2>2. NoText \notin Nat
    BY DEF NoText
  <2>3. text_at # NoText => text_at' = text_at
    BY <1>3
  <2>4. text_at' = NoText \/ (text_at' \in Nat /\ text_at' <= clock)
    BY <1>3, <2>1
  <2>5. raw.kind = "data" /\ HasText(raw.payload) => text_at' # NoText
    BY <1>3, <2>1, <2>2 DEF HasText
  <2>6. \A i \in DOMAIN data_lines' : HasText(data_lines'[i]) => text_at' # NoText
    BY <1>5, <2>1, <2>3, <2>5
  <2>7. QED
    BY <1>1, <1>2, <2>1, <2>3, <2>4, <2>6 DEF TextInv, TextTimed, HasText, IsRecord
<1>8. TroubleInv'
  <2>1. /\ suspect \in BOOLEAN
        /\ alarm \in BOOLEAN
        /\ error => suspect \/ alarm
        /\ alarm => error
        /\ \A i \in DOMAIN data_lines : IsTrouble(data_lines[i]) => suspect
        /\ Len(data_lines) > 1 => suspect
    BY DEF StreamInv, TroubleInv
  <2>2. /\ suspect' \in BOOLEAN
        /\ suspect => suspect'
    BY <1>3, <2>1
  <2>3. raw.kind = "data" /\ IsTrouble(raw.payload) => suspect'
    BY <1>1, <1>3 DEF Suspect, IsTrouble
  <2>4. raw.kind = "data" /\ data_lines # << >> => suspect'
    BY <1>1, <1>3 DEF Suspect
  <2>5. \A i \in DOMAIN data_lines' : IsTrouble(data_lines'[i]) => suspect'
    BY <1>5, <2>1, <2>2, <2>3
  <2>6. Len(data_lines') > 1 => suspect'
    BY <1>5, <2>1, <2>2, <2>4
  <2>7. QED
    BY <1>1, <1>2, <1>3, <2>1, <2>2, <2>5, <2>6
    DEF TroubleInv, ErrorsReported, IsTrouble, IsRecord
<1>9. UsageInv'
  BY <1>1, <1>2, <1>3 DEF StreamInv, UsageInv
<1>10. SentInv'
  BY <1>1, <1>2, <1>3 DEF SentInv
<1>11. QED
  BY <1>6, <1>7, <1>8, <1>9, <1>10 DEF StreamInv

(* A step that sees nothing new keeps the invariant: time that passes, a   *)
(* blank line that ends no event, an accepted request.                     *)
LEMMA QuietStep ==
  ASSUME StreamInv,
         UNCHANGED <<provider, data_lines, ttft, prompt_tokens, completion_tokens,
                     error, result, text_at, suspect, alarm, usage>>,
         clock' \in Nat, clock <= clock',
         phase' = phase \/ (phase = "request" /\ phase' = "reading"),
         \/ UNCHANGED <<event_name, sent_name, sent_data>>
         \/ /\ event_name' = NoName /\ sent_name' = NoName
            /\ data_lines = << >> /\ sent_data' = << >>
  PROVE  StreamInv'
<1>1. PhaseInv'
  BY DEF StreamInv, PhaseInv, Payloads
<1>2. SentInv'
  BY DEF StreamInv, SentInv
<1>3. TextInv'
  BY DEF StreamInv, TextInv, TextTimed, HasText, IsRecord
<1>4. TroubleInv'
  BY DEF StreamInv, TroubleInv, ErrorsReported, IsTrouble, IsRecord
<1>5. UsageInv'
  BY DEF StreamInv, UsageInv
<1>6. QED
  BY <1>1, <1>2, <1>3, <1>4, <1>5 DEF StreamInv

(* A reading that ends with what was seen so far keeps the invariant.      *)
LEMMA ConcludedAsSeen ==
  ASSUME StreamInv, phase = "reading", NEW failed,
         Conclude(ttft, failed, prompt_tokens, completion_tokens),
         error' = failed, error => failed, failed => suspect' \/ alarm,
         suspect' \in BOOLEAN, suspect => suspect',
         UNCHANGED <<provider, clock, event_name, data_lines, ttft, prompt_tokens,
                     completion_tokens, text_at, alarm, usage>>
  PROVE  StreamInv'
<1>1. /\ phase' = "finished"
      /\ result'.ttft = IF ttft = NoText THEN clock ELSE ttft
      /\ result'.total = clock
      /\ result'.error = failed
      /\ result'.prompt = prompt_tokens
      /\ result'.completion = completion_tokens
  BY ConcludeReports
<1>2. PhaseInv'
  BY <1>1 DEF StreamInv, PhaseInv, Payloads
<1>3. TextInv'
  <2>1. TextInv
    BY DEF StreamInv
  <2>2. TextTimed'
    BY <1>1, <2>1 DEF TextInv, TextTimed
  <2>3. QED
    BY <2>1, <2>2 DEF TextInv, HasText, IsRecord
<1>4. TroubleInv'
  <2>1. TroubleInv
    BY DEF StreamInv
  <2>2. ErrorsReported'
    BY <1>1, <2>1 DEF TroubleInv, ErrorsReported
  <2>3. QED
    BY <1>1, <2>1, <2>2 DEF TroubleInv, IsTrouble, IsRecord
<1>5. UsageInv'
  BY <1>1 DEF StreamInv, UsageInv
<1>6. SentInv'
  BY <1>1 DEF SentInv
<1>7. QED
  BY <1>2, <1>3, <1>4, <1>5, <1>6 DEF StreamInv

(* A blank line keeps the invariant, whether it ends an event or not.      *)
LEMMA ReadBlankKeeps ==
  ASSUME StreamInv, ReadBlank, NoteEvent
  PROVE  StreamInv'
<1>1. phase = "reading" /\ event_name' = NoName /\ data_lines' = << >>
      /\ UNCHANGED <<provider, clock>>
  BY DEF ReadBlank
<1>2. CASE data_lines # << >>
  <2>1. HandleEvent(Joined(data_lines), FALSE)
    BY <1>2 DEF ReadBlank
  <2>2. QED
    BY <1>1, <1>2, <2>1, HandledEvent
<1>3. CASE data_lines = << >>
  <2>1. UNCHANGED <<seenVars, phase, result>> /\ WholeEvent = Empty
    BY <1>1, <1>3 DEF ReadBlank, WholeEvent, StreamInv, SentInv
  <2>2. /\ UNCHANGED <<text_at, suspect, alarm, usage>>
        /\ sent_name' = NoName /\ sent_data' = << >>
    <3>1. ~IsRecord(WholeEvent) /\ alarm \in BOOLEAN
      BY <2>1 DEF IsRecord, StreamInv, TroubleInv
    <3>2. QED
      BY <3>1 DEF NoteEvent
  <2>3. clock \in Nat
    BY DEF StreamInv, TextInv
  <2>4. QED
    BY <1>1, <1>3, <2>1, <2>2, <2>3, QuietStep DEF seenVars
<1>4. QED
  BY <1>2, <1>3

(* The end of the response keeps the invariant.                            *)
LEMMA StreamEndsKeeps ==
  ASSUME StreamInv, StreamEnds, NoteEvent
  PROVE  StreamInv'
<1>1. phase = "reading" /\ UNCHANGED <<event_name, data_lines, provider, clock>>
  BY DEF StreamEnds, readVars
<1>2. CASE data_lines # << >>
  <2>1. HandleEvent(Joined(data_lines), TRUE)
    BY <1>2 DEF StreamEnds
  <2>2. QED
    BY <1>1, <1>2, <2>1, HandledEvent
<1>3. CASE data_lines = << >>
  <2>1. Conclude(ttft, error, prompt_tokens, completion_tokens) /\ UNCHANGED seenVars
    BY <1>3 DEF StreamEnds
  <2>2. WholeEvent = Empty
    BY <1>1, <1>3 DEF WholeEvent, StreamInv, SentInv
  <2>3. UNCHANGED <<text_at, suspect, alarm, usage>>
    <3>1. ~IsRecord(WholeEvent) /\ alarm \in BOOLEAN
      BY <2>2 DEF IsRecord, StreamInv, TroubleInv
    <3>2. QED
      BY <3>1 DEF NoteEvent
  <2>4. suspect \in BOOLEAN /\ (error => suspect \/ alarm)
    BY DEF StreamInv, TroubleInv
  <2>5. QED
    BY <1>1, <2>1, <2>3, <2>4, ConcludedAsSeen DEF seenVars
<1>4. QED
  BY <1>2, <1>3

(* A stream that breaks keeps the invariant: what was seen is reported.    *)
LEMMA StreamRaisesKeeps ==
  ASSUME StreamInv, StreamRaises, NoteFailure(TRUE)
  PROVE  StreamInv'
<1>1. /\ phase = "reading" /\ error' = TRUE
      /\ Conclude(ttft, TRUE, prompt_tokens, completion_tokens)
      /\ UNCHANGED <<provider, clock, event_name, data_lines, ttft, prompt_tokens,
                     completion_tokens>>
  BY DEF StreamRaises, readVars
<1>2. suspect' = TRUE /\ UNCHANGED <<text_at, alarm, usage>>
  BY DEF NoteFailure
<1>3. QED
  BY <1>1, <1>2, ConcludedAsSeen

(* A request that fails or is rejected is an error with a reason.          *)
LEMMA RequestFailsKeeps ==
  ASSUME StreamInv, NoteFailure(TRUE),
         PostFails \/ \E status \in Statuses : PostRejected(status)
  PROVE  StreamInv'
<1>1. /\ phase = "request" /\ phase' = "finished"
      /\ result'.ttft = clock /\ result'.total = clock /\ result'.error = TRUE
      /\ result'.prompt = 0 /\ result'.completion = 0
      /\ UNCHANGED <<provider, clock, event_name, data_lines, ttft, prompt_tokens,
                     completion_tokens, error>>
  BY DEF PostFails, PostRejected, readVars, seenVars
<1>2. suspect' = TRUE /\ UNCHANGED <<text_at, alarm, usage>>
  BY DEF NoteFailure
<1>3. PhaseInv'
  BY <1>1 DEF StreamInv, PhaseInv, Payloads
<1>4. TextInv'
  BY <1>1, <1>2 DEF StreamInv, TextInv, TextTimed, HasText, IsRecord
<1>5. TroubleInv'
  BY <1>1, <1>2 DEF StreamInv, TroubleInv, ErrorsReported, IsTrouble, IsRecord
<1>6. UsageInv'
  BY <1>1, <1>2 DEF StreamInv, UsageInv
<1>7. SentInv'
  BY <1>1 DEF SentInv
<1>8. QED
  BY <1>3, <1>4, <1>5, <1>6, <1>7 DEF StreamInv

(* No step of a probe breaks the invariant.                                *)
LEMMA StreamStep ==
  ASSUME StreamInv, [StreamHistoryNext]_streamHistoryVars
  PROVE  StreamInv'
<1>1. clock \in Nat /\ suspect \in BOOLEAN
  BY DEF StreamInv, TextInv, TroubleInv
<1>2. ASSUME NEW raw \in ServerLines, ReadField(raw), NoteLine(raw)
      PROVE  StreamInv'
  BY <1>2, ReadFieldKeeps
<1>3. CASE ReadBlank /\ NoteEvent
  BY <1>3, ReadBlankKeeps
<1>4. CASE StreamEnds /\ NoteEvent
  BY <1>4, StreamEndsKeeps
<1>5. CASE StreamRaises /\ NoteFailure(TRUE)
  BY <1>5, StreamRaisesKeeps
<1>6. CASE PostFails /\ NoteFailure(TRUE)
  BY <1>6, RequestFailsKeeps
<1>7. ASSUME NEW status \in Statuses, PostRejected(status) \/ PostAccepted(status),
             NoteFailure(status >= 400)
      PROVE  StreamInv'
  <2>1. status \in Nat
    BY StreamAssumption
  <2>2. CASE PostRejected(status)
    <3>1. (status >= 400) = TRUE
      BY <2>1, <2>2 DEF PostRejected
    <3>2. NoteFailure(TRUE)
      BY <1>7, <3>1
    <3>3. QED
      BY <2>2, <3>2, RequestFailsKeeps
  <2>3. CASE PostAccepted(status)
    <3>1. status < 400 /\ phase = "request" /\ phase' = "reading"
          /\ UNCHANGED <<provider, clock, event_name, data_lines, ttft, prompt_tokens,
                         completion_tokens, error, result>>
      BY <2>3 DEF PostAccepted, readVars, seenVars
    <3>2. (status >= 400) = FALSE
      BY <2>1, <3>1
    <3>3. UNCHANGED <<sent_name, sent_data, text_at, suspect, alarm, usage>>
      BY <1>1, <1>7, <3>2 DEF NoteFailure, sentVars
    <3>4. clock' \in Nat /\ clock <= clock'
      BY <1>1, <3>1
    <3>5. QED
      BY <3>1, <3>3, <3>4, QuietStep
  <2>4. QED
    BY <1>7, <2>2, <2>3
<1>8. CASE Elapse /\ NoteFailure(FALSE)
  <2>1. clock' = clock + 1
        /\ UNCHANGED <<provider, phase, event_name, data_lines, ttft, prompt_tokens,
                       completion_tokens, error, result>>
    BY <1>8 DEF Elapse, readVars, seenVars
  <2>2. UNCHANGED <<sent_name, sent_data, text_at, suspect, alarm, usage>>
    BY <1>1, <1>8 DEF NoteFailure, sentVars
  <2>3. clock' \in Nat /\ clock <= clock'
    BY <1>1, <2>1
  <2>4. QED
    BY <2>1, <2>2, <2>3, QuietStep
<1>9. CASE UNCHANGED streamHistoryVars
  <2>1. UNCHANGED <<provider, phase, clock, event_name, data_lines, ttft, prompt_tokens,
                    completion_tokens, error, result, sent_name, sent_data, text_at,
                    suspect, alarm, usage>>
    BY <1>9 DEF streamHistoryVars, streamVars, sentVars
  <2>2. clock' \in Nat /\ clock <= clock'
    BY <1>1, <2>1
  <2>3. QED
    BY <2>1, <2>2, QuietStep
<1>10. QED
  BY <1>2, <1>3, <1>4, <1>5, <1>6, <1>7, <1>8, <1>9 DEF StreamHistoryNext

-----------------------------------------------------------------------------
(* The invariant holds of every probe.                                     *)
LEMMA StreamAlways == StreamHistorySpec => []StreamInv
<1>1. StreamInv /\ [StreamHistoryNext]_streamHistoryVars => StreamInv'
  BY StreamStep
<1>2. QED
  BY StreamStarts, <1>1, PTL DEF StreamHistorySpec

(* The time to first token is the time of a text: never before a line with *)
(* text was read, never after the end (_probe_anthropic, poller.py:256).   *)
THEOREM TextIsTimed == StreamHistorySpec => []TextTimed
<1>1. StreamInv => TextTimed
  BY DEF StreamInv, TextInv
<1>2. QED
  BY <1>1, StreamAlways, PTL

(* An error event is reported whatever follows it, and nothing is reported *)
(* as an error without a reason of its own (poller.py:271, 297).           *)
THEOREM ErrorsAreReported == StreamHistorySpec => []ErrorsReported
<1>1. StreamInv => ErrorsReported
  BY DEF StreamInv, TroubleInv
<1>2. QED
  BY <1>1, StreamAlways, PTL

(* The last usage of a stream is the one reported, also when the stream    *)
(* broke later on (poller.py:144, 245).                                    *)
THEOREM UsageIsKept == StreamHistorySpec => []UsageSurvives
<1>1. StreamInv => UsageSurvives
  BY DEF StreamInv, UsageInv, UsageSurvives
<1>2. QED
  BY <1>1, StreamAlways, PTL

-----------------------------------------------------------------------------
(***************************************************************************)
(* The pipeline.                                                           *)
(***************************************************************************)

(* The records of a target on some lines are finitely many.                *)
LEMMA CountNat ==
  ASSUME NEW S, NEW s \in Seq(S), NEW t
  PROVE  IsFiniteSet(Holding(s, t)) /\ Count(s, t) \in Nat
<1>1. Len(s) \in Nat /\ DOMAIN s = 1 .. Len(s)
  OBVIOUS
<1>2. IsFiniteSet(1 .. Len(s))
  BY <1>1, FS_Interval
<1>3. Holding(s, t) \subseteq 1 .. Len(s)
  BY <1>1 DEF Holding
<1>4. IsFiniteSet(Holding(s, t))
  BY <1>2, <1>3, FS_Subset
<1>5. QED
  BY <1>4, FS_CardinalityType DEF Count

(* A line appended counts for its own target and for no other.             *)
LEMMA CountAppend ==
  ASSUME NEW S, NEW s \in Seq(S), NEW e \in S, NEW t
  PROVE  Count(Append(s, e), t) =
           IF e # Damaged /\ e.target = t THEN Count(s, t) + 1 ELSE Count(s, t)
<1> DEFINE n == Len(s) + 1
           holds == e # Damaged /\ e.target = t
<1>1. /\ Len(s) \in Nat /\ DOMAIN s = 1 .. Len(s)
      /\ DOMAIN Append(s, e) = 1 .. n
      /\ Append(s, e)[n] = e
      /\ \A i \in 1 .. Len(s) : Append(s, e)[i] = s[i]
  OBVIOUS
<1>2. n \notin Holding(s, t)
  BY <1>1 DEF Holding
<1>3. IsFiniteSet(Holding(s, t))
  BY CountNat
<1>4. \A i \in 1 .. n : i \in 1 .. Len(s) \/ i = n
  BY <1>1
<1>5. CASE holds
  <2>1. Holding(Append(s, e), t) = Holding(s, t) \cup {n}
    BY <1>1, <1>4, <1>5 DEF Holding
  <2>2. QED
    BY <1>2, <1>3, <1>5, <2>1, FS_AddElement DEF Count
<1>6. CASE ~holds
  <2>1. Holding(Append(s, e), t) = Holding(s, t)
    BY <1>1, <1>4, <1>6 DEF Holding
  <2>2. QED
    BY <1>6, <2>1 DEF Count
<1>7. QED
  BY <1>5, <1>6

(* The lines but the last count what all count, less the last.             *)
LEMMA CountFront ==
  ASSUME NEW S, NEW s \in Seq(S), s # << >>, NEW t
  PROVE  /\ Front(s) \in Seq(S)
         /\ Count(s, t) = IF Last(s) # Damaged /\ Last(s).target = t
                          THEN Count(Front(s), t) + 1 ELSE Count(Front(s), t)
<1>1. /\ Front(s) \in Seq(S)
      /\ Last(s) \in S
      /\ s = Append(Front(s), Last(s))
  BY DEF Front, Last
<1>2. Count(Append(Front(s), Last(s)), t) =
        IF Last(s) # Damaged /\ Last(s).target = t
        THEN Count(Front(s), t) + 1 ELSE Count(Front(s), t)
  BY <1>1, CountAppend
<1>3. QED
  BY <1>1, <1>2

(* So do the lines behind the first, less the first: they are the same     *)
(* lines, one position earlier.                                            *)
LEMMA CountTail ==
  ASSUME NEW S, NEW s \in Seq(S), s # << >>, NEW t
  PROVE  Count(s, t) = IF Head(s) # Damaged /\ Head(s).target = t
                       THEN Count(Tail(s), t) + 1 ELSE Count(Tail(s), t)
<1> DEFINE left == Holding(Tail(s), t)
           right == Holding(s, t) \ {1}
           shift == [i \in left |-> i + 1]
<1>1. /\ Len(s) \in Nat \ {0} /\ DOMAIN s = 1 .. Len(s)
      /\ Tail(s) \in Seq(S)
      /\ DOMAIN Tail(s) = 1 .. Len(s) - 1
      /\ \A i \in 1 .. Len(s) - 1 : Tail(s)[i] = s[i + 1]
      /\ Head(s) = s[1]
  OBVIOUS
<1>2. \A i \in 1 .. Len(s) - 1 : i \in left <=> i + 1 \in right
  BY <1>1 DEF Holding
<1>3. left \subseteq 1 .. Len(s) - 1 /\ right \subseteq 2 .. Len(s)
  BY <1>1 DEF Holding
<1>4. shift \in Bijection(left, right)
  <2>1. shift \in [left -> right]
    BY <1>2, <1>3
  <2>2. \A i, j \in left : shift[i] = shift[j] => i = j
    BY <1>3
  <2>3. \A k \in right : \E i \in left : shift[i] = k
    <3> SUFFICES ASSUME NEW k \in right PROVE \E i \in left : shift[i] = k
      OBVIOUS
    <3>1. k - 1 \in 1 .. Len(s) - 1 /\ (k - 1) + 1 = k
      BY <1>1, <1>3
    <3>2. k - 1 \in left
      BY <1>2, <3>1
    <3>3. QED
      BY <3>1, <3>2
  <2>4. QED
    BY <2>1, <2>2, <2>3 DEF Bijection, Injection, Surjection, IsInjective
<1>5. IsFiniteSet(left) /\ IsFiniteSet(Holding(s, t))
  BY <1>1, CountNat
<1>6. Cardinality(right) = Cardinality(left)
  <2>1. ExistsBijection(left, right)
    BY <1>4 DEF ExistsBijection
  <2>2. QED
    BY <1>5, <2>1, FS_Bijection
<1>7. Cardinality(right) = IF 1 \in Holding(s, t) THEN Count(s, t) - 1 ELSE Count(s, t)
  BY <1>5, FS_RemoveElement DEF Count
<1>8. 1 \in Holding(s, t) <=> Head(s) # Damaged /\ Head(s).target = t
  BY <1>1 DEF Holding
<1>9. Count(s, t) \in Nat
  BY CountNat
<1>10. Count(Tail(s), t) = Cardinality(left)
  BY DEF Count
<1> HIDE DEF left, right, shift
<1>11. QED
  BY <1>6, <1>7, <1>8, <1>9, <1>10

-----------------------------------------------------------------------------
(* What the poller finishes, and what a line of a file may be.             *)
Probe == [target : Range(Targets), ts : Nat]

DiskLine == Archived \cup Probe \cup {Damaged}

(* The state of the two processes has its type.                            *)
PollerTypes ==
  /\ now \in Nat /\ started \in Nat /\ faults \in Nat
  /\ poller \in {"sleeping", "probing", "waiting", "down"}
  /\ next \in 1 .. Len(Targets) + 1
  /\ poller = "waiting" => next <= Len(Targets)
  /\ results \in Seq(Probe)
  /\ disk \in [Range(Files) -> Seq(DiskLine)]
  /\ tail \in {"closed", "whole", "part"}
  /\ done \in [Range(Targets) -> Nat]

(* An open tail is left by a fault, and has a line; a part of one cannot   *)
(* be parsed.                                                              *)
TailInv ==
  /\ tail # "closed" => disk[LiveFile] # << >> /\ faults > 0
  /\ tail = "part" => Last(disk[LiveFile]) = Damaged

AccountInv == PollerTypes /\ TailInv /\ ProbesAccountedFor

(* A record of a probe is not damaged.                                     *)
LEMMA ProbesAreWhole ==
  ASSUME NEW r \in Probe
  PROVE  r # Damaged /\ r.target \in Range(Targets)
BY DamagedAssumption DEF Probe

(* The target whose turn it is is one of them.                             *)
LEMMA NextTarget ==
  ASSUME NEW n \in 1 .. Len(Targets)
  PROVE  Targets[n] \in Range(Targets)
<1>1. DOMAIN Targets = 1 .. Len(Targets)
  BY PipelineAssumption
<1>2. QED
  BY <1>1 DEF Range

(* The accounts are balanced at the start.                                 *)
LEMMA AccountStarts == HistoryInit => AccountInv
<1> SUFFICES ASSUME HistoryInit PROVE AccountInv
  OBVIOUS
<1>1. /\ now = 1 /\ faults = 0 /\ poller = "sleeping" /\ next = 1 /\ started = 0
      /\ results = << >> /\ disk = Archive /\ tail = "closed"
      /\ done = [t \in Range(Targets) |-> 0]
  BY DEF HistoryInit, Init, NoStamp
<1>2. Archive \in [Range(Files) -> Seq(DiskLine)]
  <2>1. Archived \subseteq DiskLine
    BY DEF DiskLine
  <2>2. \A s \in Seq(Archived) : s \in Seq(DiskLine)
    BY <2>1, SeqMonotonic
  <2>3. QED
    BY <2>2, ArchiveAssumption
<1>3. PollerTypes
  <2>1. Len(Targets) \in Nat
    BY PipelineAssumption
  <2>2. results \in Seq(Probe)
    BY <1>1, EmptySeq
  <2>3. next \in 1 .. Len(Targets) + 1
    BY <1>1, <2>1
  <2>4. QED
    BY <1>1, <1>2, <2>2, <2>3 DEF PollerTypes
<1>4. TailInv
  BY <1>1 DEF TailInv
<1>5. ProbesAccountedFor
  <2> SUFFICES ASSUME NEW t \in Range(Targets)
               PROVE  Written(t) + Buffered(t) = 0 /\ done[t] = 0
    BY DEF ProbesAccountedFor
  <2>1. Count(Archive[LiveFile], t) \in Nat
    BY <1>2, PipelineAssumption, CountNat
  <2>2. Written(t) = 0
    BY <1>1, <2>1 DEF Written
  <2>3. Holding(results, t) = {}
    BY <1>1 DEF Holding
  <2>4. Buffered(t) = 0
    BY <2>3, FS_EmptySet DEF Buffered, Count
  <2>5. QED
    BY <1>1, <2>2, <2>4
<1>6. QED
  BY <1>3, <1>4, <1>5 DEF AccountInv

(* What Appended does to the lines that are there and to the accounts: on  *)
(* a closed tail the line is added, on an open one nothing is gained, and  *)
(* a whole line may be lost to it.                                         *)
LEMMA AppendedLines ==
  ASSUME PollerTypes, TailInv, NEW text \in DiskLine, NEW t
  PROVE  LET lines == disk[LiveFile]
             longer == Appended(lines, text)
         IN /\ longer \in Seq(DiskLine) /\ longer # << >>
            /\ Last(longer) = IF tail = "closed" THEN text ELSE Damaged
            /\ Count(longer, t) \in Nat /\ Count(lines, t) \in Nat
            /\ tail = "closed" =>
                 Count(longer, t) = IF text # Damaged /\ text.target = t
                                    THEN Count(lines, t) + 1 ELSE Count(lines, t)
            /\ tail # "closed" => Count(longer, t) <= Count(lines, t)
<1> DEFINE lines == disk[LiveFile]
           longer == Appended(lines, text)
<1>1. lines \in Seq(DiskLine) /\ Damaged \in DiskLine
  <2>1. Damaged \in DiskLine
    BY DEF DiskLine
  <2>2. LiveFile \in Range(Files) /\ disk \in [Range(Files) -> Seq(DiskLine)]
    BY PipelineAssumption DEF PollerTypes
  <2>3. QED
    BY <2>1, <2>2
<1>2. tail # "closed" => lines # << >>
  BY DEF TailInv
<1>3. Count(lines, t) \in Nat
  BY <1>1, CountNat
<1> HIDE DEF lines
<1>4. CASE tail = "closed"
  <2>1. longer = Append(lines, text)
    BY <1>4 DEF Appended
  <2>2. longer \in Seq(DiskLine) /\ longer # << >> /\ Last(longer) = text
    BY <1>1, <2>1, AppendProperties DEF Last
  <2>3. Count(longer, t) = IF text # Damaged /\ text.target = t
                           THEN Count(lines, t) + 1 ELSE Count(lines, t)
    BY <1>1, <2>1, CountAppend
  <2>4. QED
    BY <1>3, <1>4, <2>2, <2>3 DEF lines
<1>5. CASE tail # "closed"
  <2>1. longer = Append(Front(lines), Damaged)
    BY <1>5 DEF Appended
  <2>2. Front(lines) \in Seq(DiskLine) /\ Count(Front(lines), t) <= Count(lines, t)
    <3>1. Front(lines) \in Seq(DiskLine)
      BY <1>1, <1>2, <1>5, CountFront
    <3>2. Count(Front(lines), t) \in Nat
      BY <3>1, CountNat
    <3>3. Count(lines, t) = Count(Front(lines), t) + 1 \/ Count(lines, t) = Count(Front(lines), t)
      BY <1>1, <1>2, <1>5, CountFront
    <3>4. QED
      BY <3>1, <3>2, <3>3
  <2>3. longer \in Seq(DiskLine) /\ longer # << >> /\ Last(longer) = Damaged
    BY <1>1, <2>1, <2>2, AppendProperties DEF Last
  <2>4. Count(longer, t) = Count(Front(lines), t)
    BY <1>1, <2>1, <2>2, CountAppend
  <2>5. Count(longer, t) \in Nat
    BY <2>3, CountNat
  <2>6. QED
    BY <1>3, <1>5, <2>2, <2>3, <2>4, <2>5 DEF lines
<1>6. QED
  BY <1>4, <1>5

-----------------------------------------------------------------------------
(* The accounts of one target in figures: lines, what the archive had of   *)
(* them, buffered results and finished probes.                             *)
LEMMA Figures ==
  ASSUME AccountInv, NEW t \in Range(Targets)
  PROVE  /\ Count(disk[LiveFile], t) \in Nat /\ Count(Archive[LiveFile], t) \in Nat
         /\ Count(results, t) \in Nat /\ done[t] \in Nat
         /\ Count(disk[LiveFile], t) - Count(Archive[LiveFile], t) + Count(results, t) <= done[t]
         /\ faults = 0 => Count(disk[LiveFile], t) - Count(Archive[LiveFile], t)
                          + Count(results, t) = done[t]
<1>1. /\ disk[LiveFile] \in Seq(DiskLine)
      /\ Archive[LiveFile] \in Seq(Archived)
      /\ results \in Seq(Probe)
      /\ done[t] \in Nat
  BY PipelineAssumption, ArchiveAssumption DEF AccountInv, PollerTypes
<1>2. QED
  BY <1>1, CountNat DEF AccountInv, ProbesAccountedFor, Written, Buffered

(* And back from the figures of the next state to its accounts.            *)
LEMMA FiguresBalance ==
  ASSUME \A t \in Range(Targets) :
           LET sum == Count(disk'[LiveFile], t) - Count(Archive[LiveFile], t)
                      + Count(results', t)
           IN sum <= done'[t] /\ (faults' = 0 => sum = done'[t])
  PROVE  ProbesAccountedFor'
BY DEF ProbesAccountedFor, Written, Buffered, Count, Holding

(* A step that touches neither the file nor the results leaves the         *)
(* accounts as they are.                                                   *)
LEMMA UntouchedAccounts ==
  ASSUME AccountInv, UNCHANGED <<disk, tail, results, done, faults>>,
         now' \in Nat, started' \in Nat,
         poller' \in {"sleeping", "probing", "waiting", "down"},
         next' \in 1 .. Len(Targets) + 1,
         poller' = "waiting" => next' <= Len(Targets)
  PROVE  AccountInv'
<1>1. PollerTypes'
  BY DEF AccountInv, PollerTypes, DiskLine, Probe, Archived
<1>2. TailInv'
  BY DEF AccountInv, TailInv
<1>3. ProbesAccountedFor'
  BY Figures, FiguresBalance
<1>4. QED
  BY <1>1, <1>2, <1>3 DEF AccountInv

(* A finished probe is counted and buffered at once.                       *)
LEMMA FinishProbeAccounts ==
  ASSUME AccountInv, FinishProbe,
         done' = [done EXCEPT ![Last(results').target] = @ + 1]
  PROVE  AccountInv'
<1> DEFINE r == Record(Targets[next], started)
<1>1. /\ poller' = "probing" /\ results' = Append(results, r)
      /\ next' = next + 1 /\ started' = 0 /\ poller = "waiting"
      /\ UNCHANGED <<now, faults, disk, tail>>
  BY DEF FinishProbe, world, storage, NoStamp
<1>2. /\ next \in 1 .. Len(Targets) /\ Len(Targets) \in Nat
      /\ results \in Seq(Probe) /\ started \in Nat
      /\ done \in [Range(Targets) -> Nat]
  BY <1>1, PipelineAssumption DEF AccountInv, PollerTypes
<1>3. r \in Probe
  BY <1>2, NextTarget DEF Probe, Record
<1> HIDE DEF r
<1>4. results' \in Seq(Probe) /\ Last(results') = r
  BY <1>1, <1>2, <1>3, AppendProperties DEF Last
<1>5. PollerTypes'
  <2>1. done' \in [Range(Targets) -> Nat]
    BY <1>2, <1>3, <1>4, ProbesAreWhole
  <2>2. next' \in 1 .. Len(Targets) + 1
    BY <1>1, <1>2
  <2>3. QED
    BY <1>1, <1>4, <2>1, <2>2 DEF AccountInv, PollerTypes, DiskLine, Probe, Archived
<1>6. TailInv'
  BY <1>1 DEF AccountInv, TailInv
<1>7. ASSUME NEW t \in Range(Targets)
      PROVE  LET sum == Count(disk'[LiveFile], t) - Count(Archive[LiveFile], t)
                        + Count(results', t)
             IN sum <= done'[t] /\ (faults' = 0 => sum = done'[t])
  <2>1. Count(results', t) = IF r.target = t THEN Count(results, t) + 1 ELSE Count(results, t)
    BY <1>1, <1>2, <1>3, CountAppend, ProbesAreWhole
  <2>2. done'[t] = IF r.target = t THEN done[t] + 1 ELSE done[t]
    BY <1>2, <1>4
  <2>3. QED
    BY <1>1, <2>1, <2>2, Figures
<1>8. QED
  BY <1>5, <1>6, <1>7, FiguresBalance DEF AccountInv

(* A record appended is taken from the buffer in the same step.            *)
LEMMA EmitResultAccounts ==
  ASSUME AccountInv, EmitResult, done' = done
  PROVE  AccountInv'
<1>1. /\ results # << >> /\ results' = Tail(results)
      /\ disk' = [disk EXCEPT ![LiveFile] = Appended(@, Head(results))]
      /\ tail' = "closed"
      /\ UNCHANGED <<now, faults, poller, next, started>>
  BY DEF EmitResult, Emitting, world
<1>2. /\ results \in Seq(Probe) /\ LiveFile \in Range(Files)
      /\ disk \in [Range(Files) -> Seq(DiskLine)]
  BY PipelineAssumption DEF AccountInv, PollerTypes
<1>3. Head(results) \in Probe /\ results' \in Seq(Probe)
  BY <1>1, <1>2
<1>4. Head(results) \in DiskLine
  BY <1>3 DEF DiskLine
<1>5. disk'[LiveFile] = Appended(disk[LiveFile], Head(results))
  BY <1>1, <1>2
<1>6. /\ disk'[LiveFile] \in Seq(DiskLine)
      /\ \A t : /\ tail = "closed" =>
                     Count(disk'[LiveFile], t) = IF Head(results) # Damaged /\ Head(results).target = t
                                                 THEN Count(disk[LiveFile], t) + 1
                                                 ELSE Count(disk[LiveFile], t)
                /\ Count(disk'[LiveFile], t) \in Nat
                /\ tail # "closed" => Count(disk'[LiveFile], t) <= Count(disk[LiveFile], t)
  BY <1>4, <1>5, AppendedLines DEF AccountInv
<1>7. PollerTypes'
  <2>1. disk' \in [Range(Files) -> Seq(DiskLine)]
    BY <1>1, <1>2, <1>5, <1>6
  <2>2. QED
    BY <1>1, <1>3, <2>1 DEF AccountInv, PollerTypes, DiskLine, Probe, Archived
<1>8. TailInv'
  BY <1>1 DEF TailInv
<1>9. ASSUME NEW t \in Range(Targets)
      PROVE  LET sum == Count(disk'[LiveFile], t) - Count(Archive[LiveFile], t)
                        + Count(results', t)
             IN sum <= done'[t] /\ (faults' = 0 => sum = done'[t])
  <2>1. Count(results, t) = IF Head(results).target = t THEN Count(results', t) + 1
                            ELSE Count(results', t)
    BY <1>1, <1>2, <1>3, CountTail, ProbesAreWhole
  <2>2. Count(results', t) \in Nat
    BY <1>3, CountNat
  <2>3. CASE tail = "closed"
    <3>1. Count(disk'[LiveFile], t) = IF Head(results).target = t
                                      THEN Count(disk[LiveFile], t) + 1
                                      ELSE Count(disk[LiveFile], t)
      BY <1>3, <1>6, <2>3, ProbesAreWhole
    <3>2. QED
      BY <1>1, <2>1, <2>2, <3>1, Figures
  <2>4. CASE tail # "closed"
    <3>1. faults # 0
      BY <2>4 DEF AccountInv, TailInv, PollerTypes
    <3>2. Count(disk'[LiveFile], t) \in Nat
          /\ Count(disk'[LiveFile], t) <= Count(disk[LiveFile], t)
      BY <1>6, <2>4
    <3>3. QED
      BY <1>1, <2>1, <2>2, <3>1, <3>2, Figures
  <2>5. QED
    BY <2>3, <2>4
<1>10. QED
  BY <1>7, <1>8, <1>9, FiguresBalance DEF AccountInv

(* A fault loses what was buffered and never adds more to the file than    *)
(* the one record that was being written.                                  *)
LEMMA FaultAccounts ==
  ASSUME AccountInv, EmitTorn \/ CrashPoller, done' = done
  PROVE  AccountInv'
<1>1. /\ faults' = faults + 1 /\ results' = << >> /\ poller' = "down"
      /\ next' = 1 /\ started' = 0 /\ now' = now
  BY DEF EmitTorn, CrashPoller, StopPoller, NoStamp
<1>2. /\ results \in Seq(Probe) /\ LiveFile \in Range(Files) /\ faults \in Nat
      /\ disk \in [Range(Files) -> Seq(DiskLine)]
      /\ Len(Targets) \in Nat
  BY PipelineAssumption DEF AccountInv, PollerTypes
<1>3. \/ UNCHANGED <<disk, tail>>
      \/ /\ disk' = [disk EXCEPT ![LiveFile] = Appended(@, Damaged)]
         /\ tail' = "part"
      \/ /\ results # << >>
         /\ disk' = [disk EXCEPT ![LiveFile] = Appended(@, Head(results))]
         /\ tail' = IF tail = "closed" THEN "whole" ELSE "part"
  BY DEF EmitTorn, CrashPoller, Emitting, storage
<1>4. /\ disk' \in [Range(Files) -> Seq(DiskLine)]
      /\ tail' \in {"closed", "whole", "part"}
      /\ tail' # "closed" => disk'[LiveFile] # << >>
      /\ tail' = "part" => Last(disk'[LiveFile]) = Damaged
      /\ \A t \in Range(Targets) :
           Count(disk'[LiveFile], t) \in Nat /\ Count(disk'[LiveFile], t) <= Count(disk[LiveFile], t) + Count(results, t)
  <2>1. CASE UNCHANGED <<disk, tail>>
    BY <1>2, <2>1, Figures DEF AccountInv, TailInv, PollerTypes
  <2>2. ASSUME NEW text \in DiskLine,
               disk' = [disk EXCEPT ![LiveFile] = Appended(@, text)]
        PROVE  /\ disk' \in [Range(Files) -> Seq(DiskLine)]
               /\ disk'[LiveFile] # << >>
               /\ Last(disk'[LiveFile]) = IF tail = "closed" THEN text ELSE Damaged
    <3>1. disk'[LiveFile] = Appended(disk[LiveFile], text)
      BY <1>2, <2>2
    <3>2. /\ disk'[LiveFile] \in Seq(DiskLine) /\ disk'[LiveFile] # << >>
          /\ Last(disk'[LiveFile]) = IF tail = "closed" THEN text ELSE Damaged
      BY <3>1, AppendedLines DEF AccountInv
    <3>3. QED
      BY <1>2, <2>2, <3>1, <3>2
  <2>3. ASSUME NEW text \in DiskLine, NEW t \in Range(Targets),
               disk' = [disk EXCEPT ![LiveFile] = Appended(@, text)]
        PROVE  /\ Count(disk'[LiveFile], t) \in Nat
               /\ \/ Count(disk'[LiveFile], t) <= Count(disk[LiveFile], t)
                  \/ /\ text # Damaged /\ text.target = t
                     /\ Count(disk'[LiveFile], t) = Count(disk[LiveFile], t) + 1
    <3>1. disk'[LiveFile] = Appended(disk[LiveFile], text)
      BY <1>2, <2>3
    <3>2. Count(disk[LiveFile], t) \in Nat /\ Count(disk'[LiveFile], t) \in Nat
      BY <3>1, AppendedLines DEF AccountInv
    <3>3. CASE tail = "closed"
      <4>1. Count(disk'[LiveFile], t) = IF text # Damaged /\ text.target = t
                                        THEN Count(disk[LiveFile], t) + 1
                                        ELSE Count(disk[LiveFile], t)
        BY <3>1, <3>3, AppendedLines DEF AccountInv
      <4>2. QED
        BY <3>2, <4>1
    <3>4. CASE tail # "closed"
      BY <3>1, <3>2, <3>4, AppendedLines DEF AccountInv
    <3>5. QED
      BY <3>3, <3>4
  <2>4. CASE /\ disk' = [disk EXCEPT ![LiveFile] = Appended(@, Damaged)]
             /\ tail' = "part"
    <3>1. Damaged \in DiskLine
      BY DEF DiskLine
    <3>2. /\ disk' \in [Range(Files) -> Seq(DiskLine)] /\ disk'[LiveFile] # << >>
          /\ Last(disk'[LiveFile]) = Damaged
      BY <2>2, <2>4, <3>1
    <3>3. ASSUME NEW t \in Range(Targets)
          PROVE  /\ Count(disk'[LiveFile], t) \in Nat
                 /\ Count(disk'[LiveFile], t) <= Count(disk[LiveFile], t) + Count(results, t)
      <4>1. Count(disk[LiveFile], t) \in Nat /\ Count(results, t) \in Nat
        BY Figures
      <4>2. Count(disk'[LiveFile], t) \in Nat
            /\ Count(disk'[LiveFile], t) <= Count(disk[LiveFile], t)
        BY <2>3, <2>4, <3>1
      <4>3. QED
        BY <4>1, <4>2
    <3>4. QED
      BY <2>4, <3>2, <3>3
  <2>5. CASE /\ results # << >>
             /\ disk' = [disk EXCEPT ![LiveFile] = Appended(@, Head(results))]
             /\ tail' = IF tail = "closed" THEN "whole" ELSE "part"
    <3>1. Head(results) \in Probe /\ Head(results) \in DiskLine /\ Tail(results) \in Seq(Probe)
      <4>1. Head(results) \in Probe /\ Tail(results) \in Seq(Probe)
        BY <1>2, <2>5
      <4>2. QED
        BY <4>1 DEF DiskLine
    <3>2. /\ disk' \in [Range(Files) -> Seq(DiskLine)] /\ disk'[LiveFile] # << >>
          /\ Last(disk'[LiveFile]) = IF tail = "closed" THEN Head(results) ELSE Damaged
      BY <2>2, <2>5, <3>1
    <3>3. ASSUME NEW t \in Range(Targets)
          PROVE  /\ Count(disk'[LiveFile], t) \in Nat
                 /\ Count(disk'[LiveFile], t) <= Count(disk[LiveFile], t) + Count(results, t)
      <4>1. Count(Tail(results), t) \in Nat
        BY <3>1, CountNat
      <4>2. Count(results, t) = IF Head(results).target = t THEN Count(Tail(results), t) + 1
                                ELSE Count(Tail(results), t)
        BY <1>2, <2>5, <3>1, CountTail, ProbesAreWhole
      <4>3. Count(disk[LiveFile], t) \in Nat /\ Count(results, t) \in Nat
        BY Figures
      <4>4. /\ Count(disk'[LiveFile], t) \in Nat
            /\ \/ Count(disk'[LiveFile], t) <= Count(disk[LiveFile], t)
               \/ /\ Head(results).target = t
                  /\ Count(disk'[LiveFile], t) = Count(disk[LiveFile], t) + 1
        BY <2>3, <2>5, <3>1
      <4>5. QED
        BY <4>1, <4>2, <4>3, <4>4
    <3>4. tail' \in {"closed", "whole", "part"} /\ (tail' = "part" => tail # "closed")
      BY <2>5
    <3>5. QED
      BY <3>2, <3>3, <3>4
  <2>6. QED
    BY <1>3, <2>1, <2>4, <2>5
<1>5. PollerTypes'
  <2>1. results' \in Seq(Probe) /\ next' \in 1 .. Len(Targets) + 1
    BY <1>1, <1>2, EmptySeq
  <2>2. faults' \in Nat
    BY <1>1, <1>2
  <2>3. QED
    BY <1>1, <1>4, <2>1, <2>2 DEF AccountInv, PollerTypes, DiskLine, Probe, Archived
<1>6. TailInv'
  BY <1>1, <1>2, <1>4 DEF TailInv
<1>7. ASSUME NEW t \in Range(Targets)
      PROVE  LET sum == Count(disk'[LiveFile], t) - Count(Archive[LiveFile], t)
                        + Count(results', t)
             IN sum <= done'[t] /\ (faults' = 0 => sum = done'[t])
  <2>1. Count(results', t) = 0
    <3>1. Holding(results', t) = {}
      BY <1>1 DEF Holding
    <3>2. QED
      BY <3>1, FS_EmptySet DEF Count
  <2>2. Count(disk'[LiveFile], t) \in Nat /\ Count(disk'[LiveFile], t) <= Count(disk[LiveFile], t) + Count(results, t)
    BY <1>4
  <2>3. QED
    BY <1>1, <1>2, <2>1, <2>2, Figures
<1>8. QED
  BY <1>5, <1>6, <1>7, FiguresBalance DEF AccountInv

(* No step of the pipeline upsets the accounts.                            *)
LEMMA AccountStep ==
  ASSUME AccountInv, [HistoryNext]_hvars
  PROVE  AccountInv'
<1>1. /\ now \in Nat /\ started \in Nat /\ Len(Targets) \in Nat
      /\ poller \in {"sleeping", "probing", "waiting", "down"}
      /\ next \in 1 .. Len(Targets) + 1
      /\ poller = "waiting" => next <= Len(Targets)
      /\ results \in Seq(Probe)
      /\ done \in [Range(Targets) -> Nat]
  BY PipelineAssumption DEF AccountInv, PollerTypes
<1>2. CASE UNCHANGED hvars
  BY <1>1, <1>2, UntouchedAccounts
  DEF hvars, vars, history, world, pollerVars, storage
<1>3. CASE HistoryNext
  <2>1. done' = IF results' # results /\ Len(results') > Len(results)
                  THEN [done EXCEPT ![Last(results').target] = @ + 1]
                  ELSE done
    BY <1>3 DEF HistoryNext
  <2>2. CASE World \/ BridgeStep
    <3>1. UNCHANGED <<faults, poller, next, started, results, disk, tail>> /\ now' \in Nat
      BY <1>1, <2>2 DEF World, Tick, StepBack, BridgeStep, BeginFetch, ReadRecord, EndOfFile,
        FailFetch, FinishFetch, Observe, EmitObservations, world, pollerVars, storage
    <3>2. QED
      BY <1>1, <2>1, <3>1, UntouchedAccounts
  <2>3. CASE StartRound \/ SkipTarget \/ SendProbe \/ EndRound \/ RestartPoller
    <3>1. /\ UNCHANGED <<now, faults, results, disk, tail>> /\ started' \in {started, now}
          /\ poller' \in {"sleeping", "probing", "waiting", "down"}
      BY <1>1, <2>3 DEF StartRound, SkipTarget, SendProbe, EndRound, RestartPoller, world, storage
    <3>2. /\ next' \in 1 .. Len(Targets) + 1
          /\ poller' = "waiting" => next' <= Len(Targets)
      BY <1>1, <2>3 DEF StartRound, SkipTarget, SendProbe, EndRound, RestartPoller, RoundOver
    <3>3. QED
      BY <1>1, <2>1, <3>1, <3>2, UntouchedAccounts
  <2>4. CASE FinishProbe
    <3>1. /\ Len(results') = Len(results) + 1 /\ Len(results) \in Nat
      BY <1>1, <2>4, LenProperties DEF FinishProbe
    <3>2. done' = [done EXCEPT ![Last(results').target] = @ + 1]
      BY <2>1, <3>1
    <3>3. QED
      BY <2>4, <3>2, FinishProbeAccounts
  <2>5. CASE EmitResult
    <3>1. results' = Tail(results) /\ results # << >>
      BY <2>5 DEF EmitResult, Emitting
    <3>2. ~(Len(results') > Len(results))
      BY <1>1, <3>1
    <3>3. QED
      BY <2>1, <2>5, <3>2, EmitResultAccounts
  <2>6. CASE Fault
    <3>1. results' = << >>
      BY <2>6 DEF Fault, EmitTorn, CrashPoller, StopPoller
    <3>2. ~(Len(results') > Len(results))
      BY <1>1, <3>1
    <3>3. QED
      BY <2>1, <2>6, <3>2, FaultAccounts DEF Fault
  <2>7. QED
    BY <1>3, <2>2, <2>3, <2>4, <2>5, <2>6 DEF HistoryNext, Next, PollerStep
<1>4. QED
  BY <1>2, <1>3

(* A finished probe is in its round's buffer or on one line of the file,   *)
(* never on two, and without a fault none is missing (poller.py:374).      *)
THEOREM ProbesAreAccountedFor == HistorySpec => []ProbesAccountedFor
<1>1. AccountInv /\ [HistoryNext]_hvars => AccountInv'
  BY AccountStep
<1>2. AccountInv => ProbesAccountedFor
  BY DEF AccountInv
<1>3. QED
  BY AccountStarts, <1>1, <1>2, PTL DEF HistorySpec

-----------------------------------------------------------------------------
(* What stands behind ErrorsMeanDamage.  Until a write is cut short no line *)
(* is damaged; a parse error, once gathered, needs such a write; and the   *)
(* damage a fetch found the files with is still ahead of its cursor.       *)
WholeLines ==
  \A f \in Range(Files) : \A l \in DOMAIN disk[f] : disk[f][l] # Damaged

WriteInv ==
  /\ torn \in BOOLEAN
  /\ ~torn => tail = "closed" /\ WholeLines

CursorTypes ==
  /\ bridge \in {"polling", "reading"}
  /\ metric \in Nat \ {0}
  /\ file \in Nat \ {0} /\ line \in Nat \ {0}
  /\ bridge = "polling" => file = 1 /\ line = 1
  /\ batch \in Seq(Range(batch))
  /\ Len(batch) = metric - 1

ErrorInv ==
  /\ \A m \in DOMAIN batch : batch[m].error = "parse" => torn
  /\ ParseErrorsNeedTornWrite

\* A damaged line at this position that the fetch has not yet come to.
Ahead(f, l) ==
  /\ f \in file .. Len(Files)
  /\ l \in DOMAIN disk[Files[f]]
  /\ disk[Files[f]][l] = Damaged
  /\ f = file => l >= line

DamageAhead == \E f, l \in Nat : Ahead(f, l)

DamageInv == atStart.damage => bridge = "reading" /\ DamageAhead

FetchInv == WriteInv /\ CursorTypes /\ ErrorInv /\ DamageInv

(* A file of the glob is one of them, at its place.                        *)
LEMMA FilesInOrder ==
  /\ Len(Files) \in Nat
  /\ \A f \in 1 .. Len(Files) : Files[f] \in Range(Files)
  /\ \A name \in Range(Files) : \E f \in 1 .. Len(Files) : name = Files[f]
<1>1. Len(Files) \in Nat /\ DOMAIN Files = 1 .. Len(Files)
  BY PipelineAssumption
<1>2. QED
  BY <1>1 DEF Range

(* Nothing has been read, written or cut short at the start.               *)
LEMMA FetchStarts == HistoryInit => FetchInv
<1> SUFFICES ASSUME HistoryInit PROVE FetchInv
  OBVIOUS
<1>1. /\ torn = FALSE /\ tail = "closed" /\ disk = Archive
      /\ bridge = "polling" /\ metric = 1 /\ file = 1 /\ line = 1
      /\ batch = << >>
      /\ emitted = [m \in DOMAIN Metrics |-> Observation(0, NoStamp, "empty")]
      /\ atStart = NoFetch
  BY DEF HistoryInit, Init
<1>2. WriteInv
  <2>1. ASSUME NEW f \in Range(Files), NEW l \in DOMAIN Archive[f]
        PROVE  Archive[f][l] # Damaged
    <3>1. Archive[f] \in Seq(Archived)
      BY ArchiveAssumption
    <3>2. Archive[f][l] \in Archived
      BY <3>1
    <3>3. \A x \in Archived : x # Damaged
      BY DEF Archived
    <3>4. QED
      BY <3>2, <3>3
  <2>2. QED
    BY <1>1, <2>1 DEF WriteInv, WholeLines
<1>3. CursorTypes
  <2>1. Len(batch) = 0 /\ batch \in Seq(Range(batch))
    BY <1>1, EmptySeq
  <2>2. QED
    BY <1>1, <2>1 DEF CursorTypes
<1>4. ErrorInv
  BY <1>1 DEF ErrorInv, ParseErrorsNeedTornWrite, Observation
<1>5. DamageInv
  BY <1>1 DEF DamageInv, NoFetch
<1>6. QED
  BY <1>2, <1>3, <1>4, <1>5 DEF FetchInv

(* A line appended leaves every damaged line where it was.                 *)
LEMMA DamageStays ==
  ASSUME PollerTypes, TailInv, NEW text \in DiskLine,
         disk' = [disk EXCEPT ![LiveFile] = Appended(@, text)],
         NEW f \in Range(Files), NEW l \in DOMAIN disk[f], disk[f][l] = Damaged
  PROVE  l \in DOMAIN disk'[f] /\ disk'[f][l] = Damaged
<1>1. LiveFile \in Range(Files) /\ disk \in [Range(Files) -> Seq(DiskLine)]
  BY PipelineAssumption DEF PollerTypes
<1>2. CASE f # LiveFile
  BY <1>1, <1>2
<1>3. CASE f = LiveFile
  <2> DEFINE lines == disk[LiveFile]
  <2>1. lines \in Seq(DiskLine) /\ l \in 1 .. Len(lines) /\ Len(lines) \in Nat
    BY <1>1, <1>3
  <2>2. disk'[f] = Appended(lines, text) /\ lines[l] = Damaged
    BY <1>1, <1>3
  <2> HIDE DEF lines
  <2>3. Damaged \in DiskLine
    BY DEF DiskLine
  <2>4. CASE tail = "closed"
    BY <2>1, <2>2, <2>4 DEF Appended
  <2>5. CASE tail # "closed"
    <3>1. lines # << >>
      BY <2>5 DEF TailInv, lines
    <3>2. /\ Front(lines) \in Seq(DiskLine) /\ Len(Front(lines)) = Len(lines) - 1
          /\ \A i \in 1 .. Len(lines) - 1 : Front(lines)[i] = lines[i]
      <4>1. Front(lines) = [i \in 1 .. Len(lines) - 1 |-> lines[i]]
        BY <2>1 DEF Front, SubSeq
      <4>2. QED
        BY <2>1, <3>1, <4>1
    <3>3. disk'[f] = Append(Front(lines), Damaged)
      BY <2>2, <2>5 DEF Appended
    <3>4. /\ DOMAIN disk'[f] = 1 .. Len(lines)
          /\ disk'[f][Len(lines)] = Damaged
          /\ \A i \in 1 .. Len(lines) - 1 : disk'[f][i] = lines[i]
      <4>1. Len(Append(Front(lines), Damaged)) = Len(lines)
        BY <2>1, <2>3, <3>2, AppendProperties
      <4>2. /\ Append(Front(lines), Damaged) \in Seq(DiskLine)
            /\ Append(Front(lines), Damaged)[Len(lines)] = Damaged
            /\ \A i \in 1 .. Len(lines) - 1 : Append(Front(lines), Damaged)[i] = Front(lines)[i]
        <5>1. Len(Front(lines)) + 1 = Len(lines)
          BY <2>1, <3>2
        <5>2. QED
          BY <2>3, <3>2, <5>1, AppendProperties
      <4>3. QED
        BY <2>1, <3>2, <3>3, <4>1, <4>2
    <3>5. l = Len(lines) \/ l \in 1 .. Len(lines) - 1
      BY <2>1
    <3>6. QED
      BY <2>1, <2>2, <3>4, <3>5
  <2>6. QED
    BY <2>4, <2>5
<1>4. QED
  BY <1>2, <1>3

(* What the poller does to the file: nothing, or a line appended, of a     *)
(* probe when the tail is closed afterwards.                               *)
Writes ==
  \/ UNCHANGED <<disk, tail>>
  \/ \E text \in DiskLine :
       /\ disk' = [disk EXCEPT ![LiveFile] = Appended(@, text)]
       /\ tail' = "closed" => text \in Probe

LEMMA PollerWrites ==
  ASSUME PollerTypes, PollerStep \/ Fault
  PROVE  Writes /\ UNCHANGED bridgeVars
<1>1. results \in Seq(Probe)
  BY DEF PollerTypes
<1>2. Damaged \in DiskLine
  BY DEF DiskLine
<1>3. CASE Emitting
  <2>1. Head(results) \in Probe /\ Head(results) \in DiskLine
    <3>1. Head(results) \in Probe
      BY <1>1, <1>3 DEF Emitting
    <3>2. QED
      BY <3>1 DEF DiskLine
  <2>2. CASE EmitResult
    <3>1. /\ disk' = [disk EXCEPT ![LiveFile] = Appended(@, Head(results))]
          /\ UNCHANGED bridgeVars
      BY <2>2 DEF EmitResult
    <3>2. QED
      BY <2>1, <3>1 DEF Writes
  <2>3. CASE EmitTorn
    <3>1. CASE UNCHANGED storage
      BY <2>3, <3>1 DEF EmitTorn, Writes, storage
    <3>2. CASE /\ disk' = [disk EXCEPT ![LiveFile] = Appended(@, Damaged)]
               /\ tail' = "part"
      BY <1>2, <2>3, <3>2 DEF EmitTorn, Writes
    <3>3. CASE disk' = [disk EXCEPT ![LiveFile] = Appended(@, Head(results))]
      BY <2>1, <2>3, <3>3 DEF EmitTorn, Writes
    <3>4. QED
      BY <2>3, <3>1, <3>2, <3>3 DEF EmitTorn
  <2>4. CASE ~EmitResult /\ ~EmitTorn
    BY <2>4 DEF PollerStep, Fault, StartRound, SkipTarget, SendProbe, FinishProbe, EndRound,
      RestartPoller, CrashPoller, storage, Writes
  <2>5. QED
    BY <2>2, <2>3, <2>4
<1>4. CASE ~Emitting
  BY <1>4 DEF PollerStep, Fault, StartRound, SkipTarget, SendProbe, FinishProbe, EndRound,
    RestartPoller, CrashPoller, EmitResult, EmitTorn, storage, Writes
<1>5. QED
  BY <1>3, <1>4

(* Nothing but a write cut short damages a line.                           *)
LEMMA WritesKeepLinesWhole ==
  ASSUME PollerTypes, TailInv, WriteInv, Writes, torn' = (torn \/ tail' # "closed")
  PROVE  WriteInv'
<1>1. torn' \in BOOLEAN /\ (~torn' => ~torn /\ tail' = "closed")
  BY DEF WriteInv
<1>2. SUFFICES ASSUME ~torn' PROVE tail' = "closed" /\ WholeLines'
  BY <1>1 DEF WriteInv
<1>3. tail = "closed" /\ tail' = "closed" /\ WholeLines
  BY <1>1, <1>2 DEF WriteInv
<1>4. LiveFile \in Range(Files) /\ disk \in [Range(Files) -> Seq(DiskLine)]
  BY PipelineAssumption DEF PollerTypes
<1>5. CASE UNCHANGED <<disk, tail>>
  BY <1>3, <1>5 DEF WholeLines
<1>6. CASE \E text \in DiskLine : /\ disk' = [disk EXCEPT ![LiveFile] = Appended(@, text)]
                                  /\ tail' = "closed" => text \in Probe
  <2>1. PICK text \in DiskLine : /\ disk' = [disk EXCEPT ![LiveFile] = Appended(@, text)]
                                 /\ text \in Probe
    BY <1>3, <1>6
  <2>2. text # Damaged
    BY <2>1, ProbesAreWhole
  <2>3. disk'[LiveFile] = Append(disk[LiveFile], text)
    BY <1>3, <1>4, <2>1 DEF Appended
  <2>4. ASSUME NEW f \in Range(Files), NEW l \in DOMAIN disk'[f]
        PROVE  disk'[f][l] # Damaged
    <3>1. CASE f # LiveFile
      BY <1>3, <1>4, <2>1, <2>4, <3>1 DEF WholeLines
    <3>2. CASE f = LiveFile
      <4> DEFINE lines == disk[LiveFile]
      <4>1. lines \in Seq(DiskLine) /\ \A i \in DOMAIN lines : lines[i] # Damaged
        BY <1>3, <1>4 DEF WholeLines
      <4>2. disk'[f] = Append(lines, text)
        BY <2>3, <3>2
      <4> HIDE DEF lines
      <4>3. l = Len(lines) + 1 \/ l \in DOMAIN lines
        BY <2>4, <4>1, <4>2
      <4>4. QED
        BY <2>2, <4>1, <4>2, <4>3
    <3>3. QED
      BY <3>1, <3>2
  <2>5. QED
    BY <1>3, <2>4 DEF WholeLines
<1>7. QED
  BY <1>5, <1>6 DEF Writes

(* And no write gets in the way of a fetch that has damage ahead.          *)
LEMMA WritesKeepDamage ==
  ASSUME PollerTypes, TailInv, Writes, UNCHANGED <<file, line>>, DamageAhead,
         file \in Nat \ {0}
  PROVE  DamageAhead'
<1>1. PICK f, l \in Nat : Ahead(f, l)
  BY DEF DamageAhead
<1>2. Files[f] \in Range(Files)
  <2>1. f \in 1 .. Len(Files)
    BY <1>1, FilesInOrder DEF Ahead
  <2>2. QED
    BY <2>1, FilesInOrder
<1>3. l \in DOMAIN disk'[Files[f]] /\ disk'[Files[f]][l] = Damaged
  <2>1. l \in DOMAIN disk[Files[f]] /\ disk[Files[f]][l] = Damaged
    BY <1>1 DEF Ahead
  <2>2. CASE UNCHANGED <<disk, tail>>
    BY <2>1, <2>2
  <2>3. CASE \E text \in DiskLine : disk' = [disk EXCEPT ![LiveFile] = Appended(@, text)]
    BY <1>2, <2>1, <2>3, DamageStays
  <2>4. QED
    BY <2>2, <2>3 DEF Writes
<1>4. QED
  BY <1>1, <1>3 DEF Ahead, DamageAhead

(* A fetch that meets a damaged line gathers a parse error; one that ends  *)
(* gathers an observation without.                                         *)
LEMMA ConcludedIsClean ==
  ASSUME NEW samples
  PROVE  Concluded(samples).error # "parse"
<1>1. Concluded(samples) \in {Observation(0, NoStamp, "empty"),
                              Observation(Len(samples), Last(samples), "short"),
                              Observation(Len(samples), Last(samples), "none")}
  BY Zenon DEF Concluded
<1>2. QED
  BY <1>1 DEF Observation

\* An observation joins the batch, and the fetch starts over.
LEMMA ObserveGathers ==
  ASSUME CursorTypes, NEW o, Observe(o)
  PROVE  /\ CursorTypes'
         /\ Last(batch') = o
         /\ \A m \in DOMAIN batch' : (m \in DOMAIN batch /\ batch'[m] = batch[m]) \/ batch'[m] = o
<1>1. /\ batch' = Append(batch, o) /\ metric' = metric + 1
      /\ bridge' = "polling" /\ file' = 1 /\ line' = 1
  BY DEF Observe
<1>2. batch \in Seq(Range(batch)) /\ Len(batch) = metric - 1 /\ metric \in Nat \ {0}
  BY DEF CursorTypes
<1> DEFINE S == Range(batch) \cup {o}
<1>3. batch \in Seq(S) /\ o \in S
  <2>1. Range(batch) \subseteq S
    OBVIOUS
  <2>2. QED
    BY <1>2, <2>1, SeqMonotonic
<1> HIDE DEF S
<1>4. /\ Len(batch') = metric /\ DOMAIN batch' = 1 .. metric
      /\ batch'[metric] = o /\ batch' \in Seq(S)
      /\ \A m \in 1 .. metric - 1 : batch'[m] = batch[m] /\ m \in DOMAIN batch
  BY <1>1, <1>2, <1>3, AppendProperties
<1>5. Last(batch') = o
  BY <1>4 DEF Last
<1>6. batch' \in Seq(Range(batch'))
  <2>1. \A m \in 1 .. metric : batch'[m] \in Range(batch')
    BY <1>4 DEF Range
  <2>2. batch' = [m \in 1 .. metric |-> batch'[m]]
    BY <1>4
  <2>3. QED
    BY <1>2, <2>1, <2>2, SeqDef
<1>7. \A m \in DOMAIN batch' : (m \in DOMAIN batch /\ batch'[m] = batch[m]) \/ batch'[m] = o
  <2>1. \A m \in 1 .. metric : m \in 1 .. metric - 1 \/ m = metric
    BY <1>2
  <2>2. QED
    BY <1>4, <2>1
<1>8. CursorTypes'
  BY <1>1, <1>2, <1>4, <1>6 DEF CursorTypes
<1>9. QED
  BY <1>5, <1>7, <1>8

\* At the end of a fetch there is no damage left to come to.
LEMMA NoDamageBehindTheFiles ==
  ASSUME FetchInv, atStart.damage
  PROVE  file <= Len(Files)
<1>1. PICK f, l \in Nat : Ahead(f, l)
  BY DEF FetchInv, DamageInv, DamageAhead
<1>2. f \in file .. Len(Files) /\ file \in Nat
  BY <1>1 DEF Ahead, FetchInv, CursorTypes
<1>3. QED
  BY <1>2, FilesInOrder

\* The errors gathered so far keep their reason through this step.
LEMMA ErrorsKept ==
  ASSUME ErrorInv, torn \in BOOLEAN, torn' = (torn \/ tail' # "closed"),
         UNCHANGED <<batch, emitted>>
  PROVE  ErrorInv'
<1>1. torn => torn'
  OBVIOUS
<1>2. QED
  BY <1>1 DEF ErrorInv, ParseErrorsNeedTornWrite

-----------------------------------------------------------------------------
\* The history's part of a step.
Remembers ==
  /\ torn' = (torn \/ tail' # "closed")
  /\ atStart' = IF bridge = "polling" /\ bridge' = "reading"
                  THEN [damage |-> Damaged \in AllLines,
                        held   |-> OnDisk(Metrics[metric], cutoff')]
                  ELSE IF bridge' = "polling" THEN NoFetch ELSE atStart

(* The world and the poller leave the bridge's own state alone.            *)
LEMMA PollerKeepsFetch ==
  ASSUME PollerTypes, TailInv, FetchInv, Writes, UNCHANGED bridgeVars, Remembers
  PROVE  FetchInv'
<1>1. UNCHANGED <<bridge, metric, cutoff, file, line, points, batch, emitted>>
  BY DEF bridgeVars, fetchVars
<1>2. torn' = (torn \/ tail' # "closed") /\ torn \in BOOLEAN
  BY DEF Remembers, FetchInv, WriteInv
<1>3. WriteInv'
  BY <1>2, WritesKeepLinesWhole DEF FetchInv
<1>4. CursorTypes'
  BY <1>1 DEF FetchInv, CursorTypes
<1>5. ErrorInv'
  BY <1>1, <1>2, ErrorsKept DEF FetchInv
<1>6. DamageInv'
  <2>1. SUFFICES ASSUME atStart'.damage PROVE bridge' = "reading" /\ DamageAhead'
    BY DEF DamageInv
  <2>2. bridge \in {"polling", "reading"} /\ file \in Nat \ {0}
    BY DEF FetchInv, CursorTypes
  <2>3. atStart' = IF bridge = "polling" THEN NoFetch ELSE atStart
    BY <1>1, <2>2 DEF Remembers
  <2>4. bridge = "reading" /\ atStart.damage
    BY <2>1, <2>2, <2>3 DEF NoFetch
  <2>5. DamageAhead
    BY <2>4 DEF FetchInv, DamageInv
  <2>6. QED
    BY <1>1, <2>2, <2>4, <2>5, WritesKeepDamage
<1>7. QED
  BY <1>3, <1>4, <1>5, <1>6 DEF FetchInv

(* A fetch begins before the first line, so all the damage is ahead.       *)
LEMMA BeginFetchKeeps ==
  ASSUME PollerTypes, FetchInv, BeginFetch, Remembers
  PROVE  FetchInv'
<1>1. /\ UNCHANGED <<disk, tail, metric, file, line, batch, emitted>>
      /\ bridge = "polling" /\ bridge' = "reading"
  BY DEF BeginFetch, storage
<1>2. torn' = (torn \/ tail' # "closed") /\ torn \in BOOLEAN
  BY DEF Remembers, FetchInv, WriteInv
<1>3. file = 1 /\ line = 1
  BY <1>1 DEF FetchInv, CursorTypes
<1>4. WriteInv'
  BY <1>1, <1>2 DEF FetchInv, WriteInv, WholeLines
<1>5. CursorTypes'
  BY <1>1 DEF FetchInv, CursorTypes
<1>6. ErrorInv'
  BY <1>1, <1>2, ErrorsKept DEF FetchInv
<1>7. DamageInv'
  <2>1. SUFFICES ASSUME Damaged \in AllLines PROVE DamageAhead'
    BY <1>1 DEF DamageInv, Remembers
  <2>2. PICK name \in Range(Files) : Damaged \in Range(disk[name])
    BY <2>1 DEF AllLines
  <2>3. PICK f \in 1 .. Len(Files) : name = Files[f]
    BY FilesInOrder
  <2>4. disk[name] \in Seq(DiskLine)
    BY DEF PollerTypes
  <2>5. PICK l \in DOMAIN disk[name] : disk[name][l] = Damaged
    BY <2>2 DEF Range
  <2>6. l \in Nat /\ l >= 1 /\ f \in Nat
    BY <2>4, <2>5
  <2>7. f \in 1 .. Len(Files) /\ file' = 1 /\ line' = 1
    BY <1>1, <1>3
  <2>8. Ahead(f, l)'
    BY <1>1, <2>3, <2>5, <2>6, <2>7 DEF Ahead
  <2>9. QED
    BY <2>6, <2>8 DEF DamageAhead
<1>8. QED
  BY <1>4, <1>5, <1>6, <1>7 DEF FetchInv

(* The cursor moves past a line that is no damage, or past a file whose    *)
(* lines it has all read.                                                  *)
LEMMA CursorKeeps ==
  ASSUME PollerTypes, FetchInv, ReadRecord \/ EndOfFile, Remembers
  PROVE  FetchInv'
<1>1. /\ UNCHANGED <<disk, tail, bridge, metric, batch, emitted>>
      /\ bridge = "reading" /\ file <= Len(Files)
  BY DEF ReadRecord, EndOfFile, Reading, storage
<1>2. torn' = (torn \/ tail' # "closed") /\ torn \in BOOLEAN
  BY DEF Remembers, FetchInv, WriteInv
<1>3. file \in Nat \ {0} /\ line \in Nat \ {0}
  BY DEF FetchInv, CursorTypes
<1>4. \/ /\ line <= Len(Lines) /\ Lines[line] # Damaged
         /\ line' = line + 1 /\ file' = file
      \/ line > Len(Lines) /\ file' = file + 1 /\ line' = 1
  BY DEF ReadRecord, EndOfFile
<1>5. WriteInv'
  BY <1>1, <1>2 DEF FetchInv, WriteInv, WholeLines
<1>6. CursorTypes'
  BY <1>1, <1>3, <1>4 DEF FetchInv, CursorTypes
<1>7. ErrorInv'
  BY <1>1, <1>2, ErrorsKept DEF FetchInv
<1>8. DamageInv'
  <2>1. atStart' = atStart
    BY <1>1 DEF Remembers
  <2>2. SUFFICES ASSUME atStart.damage PROVE DamageAhead'
    BY <1>1, <2>1 DEF DamageInv
  <2>3. PICK f, l \in Nat : Ahead(f, l)
    BY <2>2 DEF FetchInv, DamageInv, DamageAhead
  <2>4. /\ f \in file .. Len(Files) /\ Len(Files) \in Nat
        /\ l \in DOMAIN disk[Files[f]] /\ disk[Files[f]][l] = Damaged
        /\ f = file => l >= line
    BY <2>3, FilesInOrder DEF Ahead
  <2>5. disk[Files[f]] \in Seq(DiskLine)
    <3>1. f \in 1 .. Len(Files)
      BY <1>3, <2>4
    <3>2. QED
      BY <3>1, FilesInOrder DEF PollerTypes
  <2>6. l <= Len(disk[Files[f]])
    BY <2>4, <2>5
  <2>7. CASE line <= Len(Lines) /\ Lines[line] # Damaged /\ line' = line + 1 /\ file' = file
    <3>1. f = file => l >= line + 1
      BY <1>3, <2>4, <2>7 DEF Lines
    <3>2. Ahead(f, l)'
      BY <1>1, <2>4, <2>7, <3>1 DEF Ahead
    <3>3. QED
      BY <3>2 DEF DamageAhead
  <2>8. CASE line > Len(Lines) /\ file' = file + 1 /\ line' = 1
    <3>1. f # file
      BY <1>3, <2>4, <2>5, <2>6, <2>8 DEF Lines
    <3>2. f \in file + 1 .. Len(Files) /\ l >= 1
      BY <1>3, <2>4, <2>5, <3>1
    <3>3. Ahead(f, l)'
      BY <1>1, <2>4, <2>8, <3>2 DEF Ahead
    <3>4. QED
      BY <3>3 DEF DamageAhead
  <2>9. QED
    BY <1>4, <2>7, <2>8
<1>9. QED
  BY <1>5, <1>6, <1>7, <1>8 DEF FetchInv

(* A fetch that fails has met a line only a write cut short can leave; one *)
(* that ends with damage found at its start does not exist.                *)
LEMMA ConclusionKeeps ==
  ASSUME PollerTypes, FetchInv, FailFetch \/ FinishFetch, Remembers
  PROVE  /\ FetchInv'
         /\ atStart.damage => Last(batch').error = "parse"
<1>1. torn' = (torn \/ tail' # "closed") /\ torn \in BOOLEAN
  BY DEF Remembers, FetchInv, WriteInv
<1>2. PICK o : /\ Observe(o)
               /\ o.error = "parse" => torn
               /\ atStart.damage => o.error = "parse"
  <2>1. CASE FailFetch
    <3>1. /\ Observe(Observation(0, NoStamp, "parse"))
          /\ file <= Len(Files) /\ line <= Len(Lines) /\ Lines[line] = Damaged
      BY <2>1 DEF FailFetch, Reading
    <3>2. torn
      <4>1. file \in Nat \ {0} /\ line \in Nat \ {0}
        BY DEF FetchInv, CursorTypes
      <4>2. Files[file] \in Range(Files)
        BY <3>1, <4>1, FilesInOrder
      <4>3. Lines \in Seq(DiskLine)
        BY <4>2 DEF PollerTypes, Lines
      <4>4. line \in DOMAIN disk[Files[file]]
        BY <3>1, <4>1, <4>3 DEF Lines
      <4>5. QED
        BY <1>1, <3>1, <4>2, <4>4 DEF FetchInv, WriteInv, WholeLines, Lines
    <3>3. Observation(0, NoStamp, "parse").error = "parse"
      BY DEF Observation
    <3>4. QED
      BY <3>1, <3>2, <3>3
  <2>2. CASE FinishFetch
    <3>1. Observe(Concluded(Fetched)) /\ file > Len(Files)
      BY <2>2 DEF FinishFetch
    <3>2. ~atStart.damage
      BY <3>1, NoDamageBehindTheFiles, FilesInOrder DEF FetchInv, CursorTypes
    <3>3. Concluded(Fetched).error # "parse"
      BY ConcludedIsClean
    <3>4. QED
      BY <3>1, <3>2, <3>3
  <2>3. QED
    BY <2>1, <2>2
<1>3. /\ CursorTypes' /\ Last(batch') = o
      /\ \A m \in DOMAIN batch' : (m \in DOMAIN batch /\ batch'[m] = batch[m]) \/ batch'[m] = o
  BY <1>2, ObserveGathers DEF FetchInv
<1>4. /\ UNCHANGED <<disk, tail, emitted>> /\ bridge' = "polling"
  BY <1>2 DEF Observe, storage
<1>5. WriteInv'
  BY <1>1, <1>4 DEF FetchInv, WriteInv, WholeLines
<1>6. ErrorInv'
  <2>1. torn => torn'
    BY <1>1
  <2>2. QED
    BY <1>2, <1>3, <1>4, <2>1 DEF FetchInv, ErrorInv, ParseErrorsNeedTornWrite
<1>7. DamageInv'
  BY <1>4 DEF DamageInv, Remembers, NoFetch
<1>8. QED
  BY <1>2, <1>3, <1>5, <1>6, <1>7 DEF FetchInv

(* What is emitted is the batch.                                           *)
LEMMA EmissionKeeps ==
  ASSUME FetchInv, EmitObservations, Remembers
  PROVE  FetchInv'
<1>1. /\ emitted' = [m \in DOMAIN Metrics |-> batch[m]]
      /\ batch' = << >> /\ metric' = 1
      /\ UNCHANGED <<disk, tail, bridge, file, line>> /\ bridge = "polling"
      /\ metric > Len(Metrics)
  BY DEF EmitObservations, AllFetched, storage, fetchVars
<1>2. torn' = (torn \/ tail' # "closed") /\ torn \in BOOLEAN
  BY DEF Remembers, FetchInv, WriteInv
<1>3. WriteInv'
  BY <1>1, <1>2 DEF FetchInv, WriteInv, WholeLines
<1>4. CursorTypes'
  <2>1. Len(batch') = 0 /\ batch' \in Seq(Range(batch'))
    BY <1>1, EmptySeq
  <2>2. QED
    BY <1>1, <2>1 DEF FetchInv, CursorTypes
<1>5. ErrorInv'
  <2>1. \A m \in DOMAIN Metrics : m \in DOMAIN batch
    <3>1. Len(Metrics) \in Nat /\ DOMAIN Metrics = 1 .. Len(Metrics)
      BY PipelineAssumption
    <3>2. /\ batch \in Seq(Range(batch)) /\ Len(batch) = metric - 1
          /\ metric \in Nat \ {0}
      BY DEF FetchInv, CursorTypes
    <3>3. DOMAIN batch = 1 .. metric - 1
      BY <3>2
    <3>4. QED
      BY <1>1, <3>1, <3>2, <3>3
  <2>2. torn => torn'
    BY <1>2
  <2>3. DOMAIN batch' = {}
    BY <1>1
  <2>4. \A m \in DOMAIN Metrics : emitted'[m] = batch[m]
    BY <1>1
  <2>5. QED
    BY <2>1, <2>2, <2>3, <2>4 DEF FetchInv, ErrorInv, ParseErrorsNeedTornWrite
<1>6. DamageInv'
  BY <1>1 DEF DamageInv, Remembers, NoFetch
<1>7. QED
  BY <1>3, <1>4, <1>5, <1>6 DEF FetchInv

-----------------------------------------------------------------------------
(* Every step keeps the errors honest, and one that concludes a fetch      *)
(* reports the damage that was there.                                      *)
LEMMA FetchStep ==
  ASSUME AccountInv, FetchInv, [HistoryNext]_hvars
  PROVE  /\ FetchInv'
         /\ Concludes /\ atStart.damage => Last(batch').error = "parse"
<1>1. PollerTypes /\ TailInv
  BY DEF AccountInv
<1>2. ASSUME UNCHANGED batch
      PROVE  ~Concludes
  <2>1. Len(batch) \in Nat
    BY DEF FetchInv, CursorTypes
  <2>2. QED
    BY <1>2, <2>1 DEF Concludes
<1>3. CASE UNCHANGED hvars
  <2>1. UNCHANGED <<disk, tail, bridge, metric, file, line, batch, emitted, torn, atStart>>
    BY <1>3 DEF hvars, vars, history, storage, bridgeVars, fetchVars
  <2>2. FetchInv'
    BY <2>1 DEF FetchInv, WriteInv, WholeLines, CursorTypes, ErrorInv,
      ParseErrorsNeedTornWrite, DamageInv, DamageAhead, Ahead
  <2>3. QED
    BY <1>2, <2>1, <2>2
<1>4. CASE HistoryNext
  <2>1. Remembers
    BY <1>4 DEF HistoryNext, Remembers
  <2>2. CASE World \/ PollerStep \/ Fault
    <3>1. Writes /\ UNCHANGED bridgeVars
      <4>1. CASE World
        BY <4>1 DEF World, Tick, StepBack, Writes, storage
      <4>2. QED
        BY <1>1, <2>2, <4>1, PollerWrites
    <3>2. FetchInv'
      BY <1>1, <2>1, <3>1, PollerKeepsFetch
    <3>3. QED
      BY <1>2, <3>1, <3>2 DEF bridgeVars
  <2>3. CASE BeginFetch
    BY <1>1, <1>2, <2>1, <2>3, BeginFetchKeeps DEF BeginFetch
  <2>4. CASE ReadRecord \/ EndOfFile
    <3>1. UNCHANGED batch
      BY <2>4 DEF ReadRecord, EndOfFile
    <3>2. QED
      BY <1>1, <1>2, <2>1, <2>4, <3>1, CursorKeeps
  <2>5. CASE FailFetch \/ FinishFetch
    BY <1>1, <2>1, <2>5, ConclusionKeeps
  <2>6. CASE EmitObservations
    <3>1. FetchInv'
      BY <2>1, <2>6, EmissionKeeps
    <3>2. ~Concludes
      <4>1. batch' = << >> /\ Len(batch) \in Nat
        BY <2>6 DEF EmitObservations, FetchInv, CursorTypes
      <4>2. QED
        BY <4>1 DEF Concludes
    <3>3. QED
      BY <3>1, <3>2
  <2>7. QED
    BY <1>4, <2>2, <2>3, <2>4, <2>5, <2>6 DEF HistoryNext, Next, BridgeStep
<1>5. QED
  BY <1>3, <1>4

(* A metric read over a damaged line is always reported as an error, and   *)
(* an error is reported only when a write was once cut short, however the  *)
(* appends and the reads interleave (connectors.py:235, poller.py:374).    *)
THEOREM ErrorsAreDamage == HistorySpec => ErrorsMeanDamage
<1>1. AccountInv /\ [HistoryNext]_hvars => AccountInv'
  BY AccountStep
<1>2. AccountInv /\ FetchInv /\ [HistoryNext]_hvars => FetchInv'
  BY FetchStep
<1>3. AccountInv /\ FetchInv /\ [HistoryNext]_hvars
        => [Concludes /\ atStart.damage => Last(batch').error = "parse"]_hvars
  BY FetchStep
<1>4. FetchInv => ParseErrorsNeedTornWrite
  BY DEF FetchInv, ErrorInv
<1>5. QED
  BY AccountStarts, FetchStarts, <1>1, <1>2, <1>3, <1>4, PTL
  DEF HistorySpec, ErrorsMeanDamage, DamageIsNeverHidden

-----------------------------------------------------------------------------
(* What stands behind FetchesKeepUp.  Shelved is OnDisk for any contents d *)
(* of the files.                                                           *)
DiskTyped(d) == d \in [Range(Files) -> Seq(DiskLine)]

Fits(d, target, limit, f, l) ==
  /\ d[Files[f]][l] # Damaged
  /\ d[Files[f]][l].target = target
  /\ d[Files[f]][l].ts <= limit

Shelved(d, target, limit) ==
  UNION {{[file |-> f, line |-> l, ts |-> d[Files[f]][l].ts] :
            l \in {i \in Holding(d[Files[f]], target) : d[Files[f]][i].ts <= limit}} :
           f \in DOMAIN Files}

(* A line that is no damage carries a time.                                *)
LEMMA LinesAreTimed ==
  ASSUME NEW d, DiskTyped(d), NEW f \in Range(Files), NEW l \in DOMAIN d[f], d[f][l] # Damaged
  PROVE  d[f][l].ts \in Nat
<1>1. d[f] \in Seq(DiskLine)
  BY DEF DiskTyped
<1>2. d[f][l] \in DiskLine
  BY <1>1
<1>3. d[f][l] \in Archived \cup Probe
  BY <1>2 DEF DiskLine
<1>4. QED
  BY <1>3, ArchiveAssumption DEF Probe

LEMMA ShelvedMembers ==
  ASSUME NEW d, DiskTyped(d), NEW target, NEW limit, NEW r
  PROVE  r \in Shelved(d, target, limit) <=>
           /\ r = [file |-> r.file, line |-> r.line, ts |-> r.ts]
           /\ r.file \in 1 .. Len(Files)
           /\ r.line \in DOMAIN d[Files[r.file]]
           /\ Fits(d, target, limit, r.file, r.line)
           /\ r.ts = d[Files[r.file]][r.line].ts
<1>1. DOMAIN Files = 1 .. Len(Files)
  BY PipelineAssumption
<1>2. ASSUME r \in Shelved(d, target, limit)
      PROVE  /\ r = [file |-> r.file, line |-> r.line, ts |-> r.ts]
             /\ r.file \in 1 .. Len(Files)
             /\ r.line \in DOMAIN d[Files[r.file]]
             /\ Fits(d, target, limit, r.file, r.line)
             /\ r.ts = d[Files[r.file]][r.line].ts
  <2>1. PICK f \in DOMAIN Files :
          r \in {[file |-> f, line |-> l, ts |-> d[Files[f]][l].ts] :
                   l \in {i \in Holding(d[Files[f]], target) : d[Files[f]][i].ts <= limit}}
    BY <1>2 DEF Shelved
  <2>2. PICK l \in {i \in Holding(d[Files[f]], target) : d[Files[f]][i].ts <= limit} :
          r = [file |-> f, line |-> l, ts |-> d[Files[f]][l].ts]
    BY <2>1
  <2>3. r.file = f /\ r.line = l /\ r.ts = d[Files[f]][l].ts
    BY <2>2
  <2>4. l \in DOMAIN d[Files[f]] /\ Fits(d, target, limit, f, l)
    BY <2>2 DEF Holding, Fits
  <2>5. QED
    BY <1>1, <2>2, <2>3, <2>4
<1>3. ASSUME /\ r = [file |-> r.file, line |-> r.line, ts |-> r.ts]
             /\ r.file \in 1 .. Len(Files)
             /\ r.line \in DOMAIN d[Files[r.file]]
             /\ Fits(d, target, limit, r.file, r.line)
             /\ r.ts = d[Files[r.file]][r.line].ts
      PROVE  r \in Shelved(d, target, limit)
  <2> DEFINE f == r.file
             l == r.line
  <2>1. f \in DOMAIN Files /\ l \in {i \in Holding(d[Files[f]], target) : d[Files[f]][i].ts <= limit}
    BY <1>1, <1>3 DEF Holding, Fits
  <2>2. r = [file |-> f, line |-> l, ts |-> d[Files[f]][l].ts]
    BY <1>3
  <2> HIDE DEF f, l
  <2>3. QED
    BY <2>1, <2>2 DEF Shelved
<1>4. QED
  BY <1>2, <1>3

LEMMA ShelvedFinite ==
  ASSUME NEW d, DiskTyped(d), NEW target, NEW limit
  PROVE  IsFiniteSet(Shelved(d, target, limit)) /\ Cardinality(Shelved(d, target, limit)) \in Nat
<1> DEFINE Kept(f) == {i \in Holding(d[Files[f]], target) : d[Files[f]][i].ts <= limit}
           Shelf(f) == {[file |-> f, line |-> l, ts |-> d[Files[f]][l].ts] : l \in Kept(f)}
           Shelves == {Shelf(f) : f \in DOMAIN Files}
<1>1. DOMAIN Files = 1 .. Len(Files) /\ Len(Files) \in Nat
  BY PipelineAssumption
<1>2. ASSUME NEW f \in DOMAIN Files
      PROVE  IsFiniteSet(Shelf(f))
  <2>1. d[Files[f]] \in Seq(DiskLine)
    BY DEF DiskTyped, Range
  <2>2. IsFiniteSet(Holding(d[Files[f]], target))
    BY <2>1, CountNat
  <2>3. Kept(f) \in SUBSET Holding(d[Files[f]], target)
    OBVIOUS
  <2>4. IsFiniteSet(Kept(f))
    <3> HIDE DEF Kept
    <3>1. QED
      BY <2>2, <2>3, FS_Subset
  <2> DEFINE At(l) == [file |-> f, line |-> l, ts |-> d[Files[f]][l].ts]
             place == [l \in Kept(f) |-> At(l)]
  <2>5. place \in Surjection(Kept(f), Shelf(f))
    <3> HIDE DEF Kept, At
    <3>1. Shelf(f) = {At(l) : l \in Kept(f)}
      BY DEF At
    <3> HIDE DEF Shelf
    <3>2. place \in [Kept(f) -> Shelf(f)]
      BY <3>1
    <3>3. \A r \in Shelf(f) : \E l \in Kept(f) : place[l] = r
      BY <3>1
    <3>4. QED
      BY <3>2, <3>3 DEF Surjection
  <2> HIDE DEF Kept, Shelf, place
  <2>6. QED
    BY <2>4, <2>5, FS_Surjection
<1>3. IsFiniteSet(Shelves)
  <2> HIDE DEF Shelf
  <2> DEFINE shelve == [f \in 1 .. Len(Files) |-> Shelf(f)]
  <2>1. shelve \in Surjection(1 .. Len(Files), Shelves)
    <3>1. shelve \in [1 .. Len(Files) -> Shelves]
      BY <1>1
    <3>2. \A r \in Shelves : \E f \in 1 .. Len(Files) : shelve[f] = r
      BY <1>1
    <3>3. QED
      BY <3>1, <3>2 DEF Surjection
  <2>2. IsFiniteSet(1 .. Len(Files))
    BY <1>1, FS_Interval
  <2> HIDE DEF shelve, Shelves
  <2>3. QED
    BY <2>1, <2>2, FS_Surjection
<1>4. \A s \in Shelves : IsFiniteSet(s)
  <2> HIDE DEF Shelf
  <2>1. QED
    BY <1>2
<1>5. Shelved(d, target, limit) = UNION Shelves
  BY DEF Shelved
<1>6. IsFiniteSet(UNION Shelves)
  <2> HIDE DEF Shelves
  <2>1. QED
    BY <1>3, <1>4, FS_UNION
<1>7. QED
  BY <1>5, <1>6, FS_CardinalityType

(* What is on the files stays there, or becomes damage.                    *)
Intact(d, e) ==
  \A f \in Range(Files) : \A l \in DOMAIN d[f] :
    l \in DOMAIN e[f] /\ (e[f][l] = d[f][l] \/ e[f][l] = Damaged)

Undamaged(d) == \A f \in Range(Files) : \A l \in DOMAIN d[f] : d[f][l] # Damaged

LEMMA ShelvedGrows ==
  ASSUME NEW d, NEW e, DiskTyped(d), DiskTyped(e), Intact(d, e), Undamaged(e),
         NEW target, NEW limit \in Nat, NEW later \in Nat, limit <= later
  PROVE  /\ Shelved(d, target, limit) \subseteq Shelved(e, target, later)
         /\ Cardinality(Shelved(d, target, limit)) <= Cardinality(Shelved(e, target, later))
<1>1. ASSUME NEW r \in Shelved(d, target, limit)
      PROVE  r \in Shelved(e, target, later)
  <2> DEFINE name == Files[r.file]
  <2>1. /\ r = [file |-> r.file, line |-> r.line, ts |-> r.ts]
        /\ r.file \in 1 .. Len(Files)
        /\ r.line \in DOMAIN d[name]
        /\ Fits(d, target, limit, r.file, r.line)
        /\ r.ts = d[name][r.line].ts
    BY ShelvedMembers
  <2>2. name \in Range(Files)
    BY <2>1, FilesInOrder
  <2>3. r.line \in DOMAIN e[name] /\ e[name][r.line] = d[name][r.line]
    <3> HIDE DEF name
    <3>1. QED
      BY <2>1, <2>2 DEF Intact, Undamaged
  <2>4. d[name][r.line] # Damaged
    BY <2>1 DEF Fits
  <2>5. d[name][r.line].ts \in Nat
    <3> HIDE DEF name
    <3>1. QED
      BY <2>1, <2>2, <2>4, LinesAreTimed
  <2>6. Fits(e, target, later, r.file, r.line)
    BY <2>1, <2>3, <2>5 DEF Fits
  <2>7. QED
    BY <2>1, <2>3, <2>6, ShelvedMembers
<1>2. Shelved(d, target, limit) \in SUBSET Shelved(e, target, later)
  BY <1>1
<1>3. QED
  BY <1>2, ShelvedFinite, FS_Subset

(* So it is with every write of the poller.                                *)
LEMMA WritesKeepLines ==
  ASSUME PollerTypes, TailInv, Writes
  PROVE  Intact(disk, disk') /\ DiskTyped(disk) /\ DiskTyped(disk')
<1>1. LiveFile \in Range(Files) /\ disk \in [Range(Files) -> Seq(DiskLine)]
  BY PipelineAssumption DEF PollerTypes
<1>2. CASE UNCHANGED <<disk, tail>>
  BY <1>1, <1>2 DEF Intact, DiskTyped
<1>3. CASE \E text \in DiskLine : disk' = [disk EXCEPT ![LiveFile] = Appended(@, text)]
  <2>1. PICK text \in DiskLine : disk' = [disk EXCEPT ![LiveFile] = Appended(@, text)]
    BY <1>3
  <2> DEFINE lines == disk[LiveFile]
             after == Appended(lines, text)
  <2>2. disk'[LiveFile] = after /\ \A f \in Range(Files) \ {LiveFile} : disk'[f] = disk[f]
    BY <1>1, <2>1
  <2>3. lines \in Seq(DiskLine) /\ Len(lines) \in Nat /\ Damaged \in DiskLine
    BY <1>1 DEF DiskLine
  <2>4. /\ after \in Seq(DiskLine)
        /\ \A l \in DOMAIN lines : l \in DOMAIN after /\ (after[l] = lines[l] \/ after[l] = Damaged)
    <3>1. CASE tail = "closed"
      <4>1. after = Append(lines, text)
        BY <3>1 DEF Appended
      <4> HIDE DEF after, lines
      <4>2. QED
        BY <2>3, <4>1
    <3>2. CASE tail # "closed"
      <4>1. lines # << >>
        BY <3>2 DEF TailInv
      <4>2. after = Append(Front(lines), Damaged)
        BY <3>2 DEF Appended
      <4> HIDE DEF after, lines
      <4>3. /\ Front(lines) \in Seq(DiskLine) /\ Len(Front(lines)) = Len(lines) - 1
            /\ \A i \in 1 .. Len(lines) - 1 : Front(lines)[i] = lines[i]
        <5>1. Front(lines) = [i \in 1 .. Len(lines) - 1 |-> lines[i]]
          BY <2>3 DEF Front, SubSeq
        <5>2. QED
          BY <2>3, <4>1, <5>1
      <4>4. /\ after \in Seq(DiskLine) /\ Len(after) = Len(Front(lines)) + 1
            /\ after[Len(Front(lines)) + 1] = Damaged
            /\ \A i \in 1 .. Len(Front(lines)) : after[i] = Front(lines)[i]
        BY <2>3, <4>2, <4>3, AppendProperties
      <4>5. Len(after) = Len(lines) /\ after[Len(lines)] = Damaged
        BY <2>3, <4>3, <4>4
      <4>6. ASSUME NEW l \in DOMAIN lines
            PROVE  l \in DOMAIN after /\ (after[l] = lines[l] \/ after[l] = Damaged)
        <5>1. l \in 1 .. Len(lines) /\ DOMAIN after = 1 .. Len(after)
          BY <2>3, <4>4
        <5>2. CASE l = Len(lines)
          BY <5>1, <5>2, <4>5
        <5>3. CASE l # Len(lines)
          <6>1. l \in 1 .. Len(lines) - 1
            BY <5>1, <5>3, <2>3
          <6>2. QED
            BY <5>1, <6>1, <4>3, <4>4, <4>5
        <5>4. QED
          BY <5>2, <5>3
      <4>7. QED
        BY <4>4, <4>6
    <3>3. QED
      BY <3>1, <3>2
  <2> HIDE DEF after
  <2>5. Intact(disk, disk')
    BY <2>2, <2>4 DEF Intact
  <2>6. disk' \in [Range(Files) -> Seq(DiskLine)]
    <3>1. \A f \in Range(Files) : disk'[f] \in Seq(DiskLine)
      BY <1>1, <2>2, <2>4
    <3>2. disk' = [f \in Range(Files) |-> disk'[f]]
      BY <1>1, <2>1
    <3>3. QED
      BY <3>1, <3>2
  <2>7. QED
    BY <1>1, <2>5, <2>6 DEF DiskTyped
<1>4. QED
  BY <1>2, <1>3 DEF Writes

-----------------------------------------------------------------------------
(* Of naturals there is a least.                                           *)
LEMMA LeastNatural ==
  ASSUME NEW T \in SUBSET Nat, T # {}
  PROVE  \E n \in T : \A m \in T : n <= m
<1>1. PICK n \in T : \A m \in T : ~(<<m, n>> \in OpToRel(<, Nat))
  BY NatLessThanWellFounded, WFMin
<1>2. \A m \in T : ~(m < n)
  BY <1>1 DEF OpToRel
<1>3. QED
  BY <1>2

(* Of finitely many timestamps one is the newest, and a sort has it last.  *)
LEMMA NewestExists ==
  ASSUME NEW s \in Seq(Nat), s # << >>
  PROVE  \E j \in DOMAIN s : \A i \in DOMAIN s : s[i] <= s[j]
<1> DEFINE Up(n) == \E j \in 1 .. n : \A i \in 1 .. n : s[i] <= s[j]
           T == {n \in Nat : n \in 1 .. Len(s) /\ ~Up(n)}
<1>1. Len(s) \in Nat \ {0} /\ DOMAIN s = 1 .. Len(s) /\ \A i \in 1 .. Len(s) : s[i] \in Nat
  OBVIOUS
<1>2. ASSUME NEW n \in T, \A m \in T : n <= m
      PROVE  FALSE
  <2>1. n \in 1 .. Len(s) /\ ~Up(n)
    OBVIOUS
  <2>2. n # 1
    <3>1. 1 .. 1 = {1} /\ s[1] \in Nat
      BY <1>1
    <3>2. Up(1)
      BY <3>1
    <3>3. QED
      BY <2>1, <3>2
  <2>3. n - 1 \in 1 .. Len(s) /\ n - 1 \in Nat /\ ~(n <= n - 1)
    BY <2>1, <2>2, <1>1
  <2>4. Up(n - 1)
    <3>1. n - 1 \notin T
      BY <1>2, <2>3
    <3>2. QED
      BY <2>3, <3>1
  <2> HIDE DEF T
  <2>5. PICK j \in 1 .. n - 1 : \A i \in 1 .. n - 1 : s[i] <= s[j]
    BY <2>4
  <2>6. j \in 1 .. n /\ n \in 1 .. n /\ s[j] \in Nat /\ s[n] \in Nat
    BY <2>1, <1>1
  <2>7. \A i \in 1 .. n : i = n \/ i \in 1 .. n - 1
    BY <2>1
  <2>8. CASE s[n] <= s[j]
    <3>1. \A i \in 1 .. n : s[i] <= s[j]
      BY <2>5, <2>7, <2>8
    <3>2. QED
      BY <2>1, <2>6, <3>1
  <2>9. CASE s[j] < s[n]
    <3>1. \A i \in 1 .. n - 1 : s[i] \in Nat
      <4>1. \A i \in 1 .. n - 1 : i \in 1 .. Len(s)
        BY <2>1, <1>1
      <4>2. QED
        BY <4>1, <1>1
    <3>2. \A i \in 1 .. n : s[i] <= s[n]
      BY <2>5, <2>6, <2>7, <2>9, <3>1
    <3>3. QED
      BY <2>1, <2>6, <3>2
  <2>10. s[n] <= s[j] \/ s[j] < s[n]
    BY <2>6
  <2>11. QED
    BY <2>8, <2>9, <2>10
<1>3. T = {}
  <2> HIDE DEF T
  <2>1. T \in SUBSET Nat
    BY DEF T
  <2>2. QED
    BY <1>2, <2>1, LeastNatural
<1>4. Up(Len(s))
  BY <1>1, <1>3
<1>5. QED
  BY <1>1, <1>4

LEMMA KeptFrom ==
  ASSUME NEW n \in Nat, n # 0, NEW m \in Nat
  PROVE  \E first \in Nat :
           /\ first = IF m > n THEN m - n + 1 ELSE 1
           /\ first >= 1 /\ first <= m + 1
           /\ m - first + 1 = IF m < n THEN m ELSE n
<1>1. CASE m > n
  <2>1. m - n + 1 \in Nat /\ m - n + 1 >= 1 /\ m - n + 1 <= m + 1 /\ m - (m - n + 1) + 1 = n
    BY <1>1
  <2>2. ~(m < n)
    BY <1>1
  <2>3. QED
    BY <1>1, <2>1, <2>2
<1>2. CASE ~(m > n)
  <2>1. 1 \in Nat /\ m <= n /\ m - 1 + 1 = m
    BY <1>2
  <2>2. QED
    BY <1>2, <2>1
<1>3. QED
  BY <1>1, <1>2

(* What an observation says of its points: how many there are, up to the   *)
(* lookback, and the newest.                                               *)
LEMMA ConcludedTells ==
  ASSUME NEW s \in Seq(Nat), NEW n \in Nat \ {0}
  PROVE  LET o == Concluded(Latest(Sorted(s), n))
         IN /\ o.samples = IF Len(s) < n THEN Len(s) ELSE n
            /\ s = << >> => o.last = NoStamp
            /\ s # << >> => /\ \E j \in DOMAIN s : o.last = s[j]
                            /\ \A i \in DOMAIN s : s[i] <= o.last
<1> DEFINE kept == Latest(Sorted(s), n)
           o == Concluded(kept)
<1>1. Len(s) \in Nat /\ DOMAIN s = 1 .. Len(s) /\ \A i \in 1 .. Len(s) : s[i] \in Nat
  OBVIOUS
<1>2. DOMAIN Sorted(s) = 1 .. Len(s) /\ Len(Sorted(s)) = Len(s)
  BY <1>1 DEF Sorted
<1>3. /\ Len(kept) = IF Len(s) < n THEN Len(s) ELSE n
      /\ s # << >> => kept[Len(kept)] = Sorted(s)[Len(s)]
  <2>1. PICK first \in Nat :
          /\ first = IF Len(s) > n THEN Len(s) - n + 1 ELSE 1
          /\ first >= 1 /\ first <= Len(s) + 1
          /\ Len(s) - first + 1 = IF Len(s) < n THEN Len(s) ELSE n
    BY <1>1, KeptFrom
  <2>2. kept = SubSeq(Sorted(s), first, Len(s))
    BY <1>2, <2>1 DEF Latest
  <2> HIDE DEF kept
  <2>3. /\ first <= Len(s) + 1 /\ first >= 1
        /\ Len(s) - first + 1 = IF Len(s) < n THEN Len(s) ELSE n
    BY <2>1
  <2>4. \A i \in first .. Len(s) : Sorted(s)[i] \in Range(Sorted(s))
    <3>1. \A i \in first .. Len(s) : i \in 1 .. Len(s)
      BY <1>1, <2>3
    <3>2. QED
      BY <1>2, <3>1 DEF Range
  <2>5. /\ Len(kept) = IF first <= Len(s) THEN Len(s) - first + 1 ELSE 0
        /\ \A i \in 1 .. Len(s) - first + 1 : kept[i] = Sorted(s)[first + i - 1]
    BY <1>1, <2>2, <2>4, SubSeqProperties
  <2>6. Len(kept) = Len(s) - first + 1
    BY <1>1, <2>3, <2>5
  <2>7. ASSUME s # << >>
        PROVE  kept[Len(kept)] = Sorted(s)[Len(s)]
    <3>1. Len(s) # 0
      BY <2>7
    <3>2. Len(kept) \in 1 .. Len(s) - first + 1 /\ first + Len(kept) - 1 = Len(s)
      BY <1>1, <2>3, <2>6, <3>1
    <3>3. QED
      BY <2>5, <3>2
  <2>8. QED
    BY <2>3, <2>6, <2>7
<1>4. CASE s = << >>
  <2>1. Len(kept) = 0
    BY <1>3, <1>4
  <2>2. kept = << >>
    <3>1. kept = SubSeq(Sorted(s), 1, 0)
      BY <1>1, <1>2, <1>4 DEF Latest
    <3>2. QED
      BY <3>1, SubSeqEmpty
  <2>3. Len(kept) \notin 1 .. (WindowPoints - 1)
    BY <2>1, PipelineAssumption
  <2>4. o = Observation(0, NoStamp, "empty")
    BY <2>2, <2>3, Zenon DEF Concluded
  <2>5. QED
    BY <1>4, <2>4 DEF Observation
<1>5. CASE s # << >>
  <2>1. Len(s) # 0
    BY <1>5
  <2>2. Len(kept) # 0 /\ kept # << >>
    <3>1. Len(kept) # 0
      BY <1>1, <1>3, <2>1
    <3> HIDE DEF kept
    <3>2. QED
      BY <3>1
  <2>3. \/ o = Observation(Len(kept), Last(kept), "short")
        \/ o = Observation(Len(kept), Last(kept), "none")
    BY <2>2, Zenon DEF Concluded
  <2>4. o.samples = Len(kept) /\ o.last = kept[Len(kept)]
    BY <2>3 DEF Observation, Last
  <2>5. o.last = KthOldest(s, Len(s))
    BY <1>1, <1>3, <1>5, <2>1, <2>4 DEF Sorted
  <2> DEFINE k == Len(s)
             Older(t) == {i \in DOMAIN s : s[i] < t}
             Upto(t) == {i \in DOMAIN s : s[i] <= t}
             Is(t) == Cardinality(Older(t)) < k /\ k <= Cardinality(Upto(t))
  <2>6. IsFiniteSet(1 .. k) /\ Cardinality(1 .. k) = k
    BY <1>1, FS_Interval
  <2>7. PICK j \in DOMAIN s : \A i \in DOMAIN s : s[i] <= s[j]
    BY <1>5, NewestExists
  <2>8. Is(s[j])
    <3>1. Upto(s[j]) = 1 .. k
      BY <1>1, <2>7
    <3>2. Older(s[j]) \in SUBSET (1 .. k) /\ j \in 1 .. k /\ j \notin Older(s[j])
      BY <1>1
    <3> HIDE DEF Older, Upto
    <3>3. Cardinality(Older(s[j])) <= k /\ Cardinality(Older(s[j])) # k
          /\ Cardinality(Older(s[j])) \in Nat
      BY <2>6, <3>2, FS_Subset, FS_CardinalityType
    <3>4. QED
      BY <1>1, <2>6, <3>1, <3>3
  <2>9. s[j] \in Range(s)
    BY DEF Range
  <2>10. o.last \in Range(s) /\ Is(o.last)
    <3>1. KthOldest(s, k) = CHOOSE t \in Range(s) : Is(t)
      BY DEF KthOldest
    <3> HIDE DEF Is, o
    <3>2. QED
      BY <2>5, <2>8, <2>9, <3>1
  <2>11. PICK m \in DOMAIN s : o.last = s[m]
    BY <2>10 DEF Range
  <2>12. Upto(o.last) = 1 .. k
    <3>1. Upto(o.last) \in SUBSET (1 .. k)
      BY <1>1
    <3> HIDE DEF Upto, o
    <3>2. Cardinality(Upto(o.last)) <= k /\ k <= Cardinality(Upto(o.last))
      BY <2>6, <2>10, <3>1, FS_Subset
    <3>3. Cardinality(Upto(o.last)) = k
      <4>1. Cardinality(Upto(o.last)) \in Nat
        BY <2>6, <3>1, FS_Subset, FS_CardinalityType
      <4>2. QED
        BY <1>1, <3>2, <4>1
    <3>4. QED
      BY <2>6, <3>1, <3>3, FS_Subset
  <2>13. \A i \in DOMAIN s : s[i] <= o.last
    <3> HIDE DEF o
    <3>1. QED
      BY <1>1, <2>12
  <2>14. QED
    BY <1>3, <1>5, <2>4, <2>11, <2>13
<1>6. QED
  BY <1>4, <1>5

-----------------------------------------------------------------------------
(* The cursor is past this record.                                         *)
PassedBy(f, l, r) == r.file < f \/ (r.file = f /\ r.line < l)

(* The records gathered, were the files d as they are.                     *)
Gathered(d, target, limit, f, l) ==
  {r \in Shelved(d, target, limit) : PassedBy(f, l, r)}

Obs(o) == o.samples \in Nat /\ o.last \in Nat

ReadTypes ==
  /\ \A m \in DOMAIN Metrics : Obs(emitted[m])
  /\ \A m \in DOMAIN batch : Obs(batch[m])
  /\ metric <= Len(Metrics) + 1
  /\ points \in Seq(Nat)
  /\ bridge = "polling" => points = << >>
  /\ bridge = "reading" => metric \in DOMAIN Metrics /\ cutoff \in Nat

(* A record found at the start is among the points, or it is ahead of the  *)
(* cursor, if not damaged since.                                           *)
Found(d, s, target, limit, f, l, r) ==
  /\ r.file \in 1 .. Len(Files) /\ r.line \in DOMAIN d[Files[r.file]] /\ r.ts \in Nat
  /\ IF PassedBy(f, l, r) THEN \E j \in DOMAIN s : s[j] = r.ts
     ELSE \/ d[Files[r.file]][r.line] = Damaged
          \/ /\ Fits(d, target, limit, r.file, r.line)
             /\ d[Files[r.file]][r.line].ts = r.ts

HeldInv ==
  bridge = "reading" =>
    LET held == atStart.held
    IN /\ IsFiniteSet(held)
       /\ \A r, q \in held : r.file = q.file /\ r.line = q.line => r = q
       /\ \A r \in held : Found(disk, points, Metrics[metric], cutoff, file, line, r)
       /\ Cardinality({r \in held : PassedBy(file, line, r)}) <= Len(points)

(* As long as nothing is damaged, no point comes from anywhere else.       *)
Backed(s, records) ==
  /\ Len(s) <= Cardinality(records)
  /\ \A j \in DOMAIN s : \E r \in records : r.ts = s[j]

GatherInv ==
  bridge = "reading" /\ Undamaged(disk) =>
    Backed(points, Gathered(disk, Metrics[metric], cutoff, file, line))

(* These records are enough to see all that this observation saw.          *)
Reaches(records, o, m) ==
  /\ o.samples <= Cardinality(records) /\ o.samples <= Lookback[m]
  /\ o.last = NoStamp \/ \E r \in records : o.last <= r.ts

NoLess(o, p) ==
  \/ "parse" \in {o.error, p.error}
  \/ o.last <= p.last /\ o.samples <= p.samples

(* While the clock has not been set back and nothing is damaged, what was  *)
(* observed is still on the files; a fetch began with it, and the batch    *)
(* has no less of it.                                                      *)
StillThere(d, t, o, m) == Undamaged(d) => Reaches(Shelved(d, Metrics[m], t), o, m)

OldInv ==
  ~stepped =>
    /\ bridge = "reading" =>
         cutoff <= now /\ (atStart.damage \/ Reaches(atStart.held, emitted[metric], metric))
    /\ \A m \in DOMAIN Metrics : StillThere(disk, now, emitted[m], m)
    /\ \A m \in DOMAIN batch : StillThere(disk, now, batch[m], m)
    /\ \A m \in DOMAIN batch : NoLess(emitted[m], batch[m])

KeepInv == ReadTypes /\ HeldInv /\ GatherInv /\ OldInv

LEMMA MetricsInOrder ==
  /\ Len(Metrics) \in Nat /\ DOMAIN Metrics = 1 .. Len(Metrics)
  /\ \A m \in DOMAIN Metrics : Lookback[m] \in Nat \ {0}
BY PipelineAssumption

LEMMA SameDisk ==
  /\ \A target, limit : OnDisk(target, limit) = Shelved(disk, target, limit)
  /\ PollerTypes => DiskTyped(disk)
BY DEF OnDisk, Shelved, PollerTypes, DiskTyped

LEMMA DamageSeen == Damaged \notin AllLines => Undamaged(disk)
BY DEF AllLines, Undamaged, Range

LEMMA KeepStarts == HistoryInit => KeepInv
<1> SUFFICES ASSUME HistoryInit PROVE KeepInv
  OBVIOUS
<1>1. /\ bridge = "polling" /\ metric = 1 /\ points = << >> /\ batch = << >>
      /\ emitted = [m \in DOMAIN Metrics |-> Observation(0, NoStamp, "empty")]
      /\ now = 1 /\ disk = Archive
  BY DEF HistoryInit, Init
<1>2. \A m \in DOMAIN Metrics : emitted[m].samples = 0 /\ emitted[m].last = NoStamp
  BY <1>1 DEF Observation
<1>3. points \in Seq(Nat)
  BY <1>1, EmptySeq
<1>4. ReadTypes
  BY <1>1, <1>2, <1>3, MetricsInOrder DEF ReadTypes, Obs, NoStamp
<1>5. HeldInv /\ GatherInv
  BY <1>1 DEF HeldInv, GatherInv
<1>6. \A m \in DOMAIN Metrics : StillThere(disk, now, emitted[m], m)
  <2>1. PollerTypes
    BY AccountStarts DEF AccountInv
  <2>2. ASSUME NEW m \in DOMAIN Metrics
        PROVE  StillThere(disk, now, emitted[m], m)
    <3>1. Cardinality(Shelved(disk, Metrics[m], now)) \in Nat
      BY <2>1, SameDisk, ShelvedFinite
    <3>2. QED
      BY <1>2, <3>1, MetricsInOrder DEF StillThere, Reaches
  <2>3. QED
    BY <2>2
<1>7. OldInv
  BY <1>1, <1>6 DEF OldInv
<1>8. QED
  BY <1>4, <1>5, <1>7 DEF KeepInv

(* A later, fuller shelf backs no less.                                    *)
LEMMA ReachesMore ==
  ASSUME NEW R, NEW S, IsFiniteSet(S), R \subseteq S, NEW o, NEW m \in DOMAIN Metrics,
         Obs(o), Reaches(R, o, m)
  PROVE  Reaches(S, o, m)
<1>1. R \in SUBSET S
  OBVIOUS
<1>2. Cardinality(R) <= Cardinality(S) /\ Cardinality(R) \in Nat /\ Cardinality(S) \in Nat
  BY <1>1, FS_Subset, FS_CardinalityType
<1>3. QED
  BY <1>2 DEF Reaches, Obs

LEMMA DamageRemains ==
  ASSUME NEW d, NEW e, Intact(d, e), Undamaged(e)
  PROVE  Undamaged(d)
BY DEF Intact, Undamaged

LEMMA StillThereLater ==
  ASSUME NEW d, NEW e, DiskTyped(d), DiskTyped(e), Intact(d, e),
         NEW t \in Nat, NEW u \in Nat, t <= u, NEW o, NEW m \in DOMAIN Metrics, Obs(o),
         StillThere(d, t, o, m)
  PROVE  StillThere(e, u, o, m)
<1> SUFFICES ASSUME Undamaged(e) PROVE Reaches(Shelved(e, Metrics[m], u), o, m)
  BY DEF StillThere
<1>1. Undamaged(d)
  BY DamageRemains
<1>2. Shelved(d, Metrics[m], t) \subseteq Shelved(e, Metrics[m], u)
  BY ShelvedGrows
<1>3. IsFiniteSet(Shelved(e, Metrics[m], u))
  BY ShelvedFinite
<1>4. Reaches(Shelved(d, Metrics[m], t), o, m)
  BY <1>1 DEF StillThere
<1>5. QED
  BY <1>2, <1>3, <1>4, ReachesMore

(* A fetch holds what it holds while the poller writes.                    *)
LEMMA PollerKeepsHeld ==
  ASSUME PollerTypes, TailInv, FetchInv, KeepInv, Writes, UNCHANGED bridgeVars, Remembers,
         now' \in Nat, ~stepped' => ~stepped /\ now <= now'
  PROVE  KeepInv'
<1>1. /\ UNCHANGED <<bridge, metric, cutoff, file, line, points, batch, emitted>>
      /\ bridge \in {"polling", "reading"}
  BY DEF bridgeVars, fetchVars, FetchInv, CursorTypes
<1>2. bridge = "reading" => atStart' = atStart
  BY <1>1 DEF Remembers
<1>3. Intact(disk, disk') /\ DiskTyped(disk) /\ DiskTyped(disk')
  BY WritesKeepLines
<1>4. ReadTypes'
  BY <1>1 DEF KeepInv, ReadTypes, Obs
<1>5. HeldInv'
  <2> SUFFICES ASSUME bridge = "reading" PROVE HeldInv'
    BY <1>1 DEF HeldInv
  <2> DEFINE held == atStart.held
             F(d, r) == Found(d, points, Metrics[metric], cutoff, file, line, r)
  <2>1. ASSUME NEW r \in held
        PROVE  F(disk', r)
    <3> DEFINE name == Files[r.file]
    <3>1. F(disk, r)
      BY DEF KeepInv, HeldInv
    <3>2. r.file \in 1 .. Len(Files) /\ r.line \in DOMAIN disk[name] /\ r.ts \in Nat
      BY <3>1 DEF Found
    <3>3. name \in Range(Files)
      BY <3>2, FilesInOrder
    <3>4. /\ r.line \in DOMAIN disk'[name]
          /\ disk'[name][r.line] = disk[name][r.line] \/ disk'[name][r.line] = Damaged
      <4> HIDE DEF name
      <4>1. QED
        BY <3>2, <3>3, <1>3 DEF Intact
    <3>5. QED
      BY <3>1, <3>2, <3>4 DEF Found, Fits
  <2>2. /\ IsFiniteSet(held)
        /\ \A r, q \in held : r.file = q.file /\ r.line = q.line => r = q
        /\ Cardinality({r \in held : PassedBy(file, line, r)}) <= Len(points)
    BY DEF KeepInv, HeldInv
  <2>3. atStart' = atStart
    BY <1>2
  <2>4. QED
    BY <1>1, <2>1, <2>2, <2>3 DEF HeldInv
<1>6. GatherInv'
  <2> SUFFICES ASSUME bridge = "reading", Undamaged(disk')
               PROVE  Backed(points, Gathered(disk', Metrics[metric], cutoff, file, line))
    BY <1>1 DEF GatherInv
  <2> DEFINE G == Gathered(disk, Metrics[metric], cutoff, file, line)
             H == Gathered(disk', Metrics[metric], cutoff, file, line)
             S == Shelved(disk', Metrics[metric], cutoff)
  <2>1. Undamaged(disk)
    BY <1>3, DamageRemains
  <2>2. Backed(points, G)
    BY <2>1 DEF KeepInv, GatherInv
  <2>3. cutoff \in Nat /\ cutoff <= cutoff
    BY DEF KeepInv, ReadTypes
  <2>4. Shelved(disk, Metrics[metric], cutoff) \subseteq S /\ IsFiniteSet(S)
    BY <1>3, <2>3, ShelvedGrows, ShelvedFinite
  <2>5. G \in SUBSET H /\ H \in SUBSET S
    BY <2>4 DEF Gathered
  <2> HIDE DEF G, H, S
  <2>6. IsFiniteSet(H) /\ Cardinality(G) <= Cardinality(H)
    <3>1. IsFiniteSet(H)
      BY <2>4, <2>5, FS_Subset
    <3>2. QED
      BY <2>5, <3>1, FS_Subset
  <2>7. Cardinality(G) \in Nat /\ Cardinality(H) \in Nat /\ Len(points) \in Nat
    <3>1. IsFiniteSet(G)
      BY <2>5, <2>6, FS_Subset
    <3>2. QED
      BY <2>6, <3>1, FS_CardinalityType DEF KeepInv, ReadTypes
  <2>8. QED
    BY <2>2, <2>5, <2>6, <2>7 DEF Backed, H
<1>7. OldInv'
  <2> SUFFICES ASSUME ~stepped' PROVE OldInv'
    BY DEF OldInv
  <2>1. ~stepped /\ now <= now' /\ now \in Nat
    BY DEF PollerTypes
  <2>2. bridge = "reading" =>
          cutoff <= now' /\ (atStart.damage \/ Reaches(atStart.held, emitted[metric], metric))
    BY <2>1 DEF KeepInv, OldInv, ReadTypes
  <2>3. \A m \in DOMAIN batch : m \in DOMAIN Metrics
    <3>1. Len(batch) = metric - 1 /\ metric \in Nat \ {0} /\ DOMAIN batch = 1 .. Len(batch)
      BY DEF FetchInv, CursorTypes
    <3>2. QED
      BY <3>1, MetricsInOrder DEF KeepInv, ReadTypes
  <2>4. \A m \in DOMAIN Metrics : StillThere(disk', now', emitted[m], m)
    <3>1. \A m \in DOMAIN Metrics : Obs(emitted[m]) /\ StillThere(disk, now, emitted[m], m)
      BY <2>1 DEF KeepInv, OldInv, ReadTypes
    <3>2. QED
      BY <1>3, <2>1, <3>1, StillThereLater
  <2>5. \A m \in DOMAIN batch : StillThere(disk', now', batch[m], m)
    <3>1. \A m \in DOMAIN batch : Obs(batch[m]) /\ StillThere(disk, now, batch[m], m)
      BY <2>1 DEF KeepInv, OldInv, ReadTypes
    <3>2. QED
      BY <1>3, <2>1, <2>3, <3>1, StillThereLater
  <2>6. \A m \in DOMAIN batch : NoLess(emitted[m], batch[m])
    BY <2>1 DEF KeepInv, OldInv
  <2>7. QED
    BY <1>1, <1>2, <2>2, <2>4, <2>5, <2>6 DEF OldInv
<1>8. QED
  BY <1>4, <1>5, <1>6, <1>7 DEF KeepInv

(* A fetch begins with all it wants ahead of it.                           *)
LEMMA BeginFetchHolds ==
  ASSUME PollerTypes, FetchInv, KeepInv, BeginFetch, Remembers
  PROVE  KeepInv'
<1>1. /\ UNCHANGED <<disk, metric, file, line, points, batch, emitted, now, stepped>>
      /\ bridge = "polling" /\ bridge' = "reading" /\ cutoff' = now
      /\ ~(metric > Len(Metrics))
  BY DEF BeginFetch, storage, world, AllFetched
<1>2. file = 1 /\ line = 1 /\ metric \in Nat \ {0} /\ points = << >> /\ points \in Seq(Nat)
  BY <1>1 DEF FetchInv, CursorTypes, KeepInv, ReadTypes
<1>3. metric \in DOMAIN Metrics /\ now \in Nat /\ DiskTyped(disk)
  BY <1>1, <1>2, MetricsInOrder, SameDisk DEF PollerTypes
<1> DEFINE held == Shelved(disk, Metrics[metric], now)
<1>4. atStart'.held = held /\ atStart'.damage = (Damaged \in AllLines)
  BY <1>1, SameDisk DEF Remembers
<1>5. ReadTypes'
  BY <1>1, <1>3 DEF KeepInv, ReadTypes, Obs
<1>6. ASSUME NEW r \in held
      PROVE  /\ ~PassedBy(1, 1, r)
             /\ Found(disk, points, Metrics[metric], now, 1, 1, r)
  <2> DEFINE name == Files[r.file]
  <2>1. /\ r.file \in 1 .. Len(Files) /\ r.line \in DOMAIN disk[name]
        /\ Fits(disk, Metrics[metric], now, r.file, r.line)
        /\ r.ts = disk[name][r.line].ts
    BY <1>3, ShelvedMembers
  <2>2. name \in Range(Files)
    BY <2>1, FilesInOrder
  <2>3. r.line \in Nat /\ r.line >= 1 /\ r.ts \in Nat
    <3> HIDE DEF name
    <3>1. disk[name] \in Seq(DiskLine)
      BY <1>3, <2>2 DEF DiskTyped
    <3>2. disk[name][r.line] # Damaged
      BY <2>1 DEF Fits, name
    <3>3. QED
      BY <1>3, <2>1, <2>2, <3>1, <3>2, LinesAreTimed
  <2>4. ~PassedBy(1, 1, r)
    BY <2>1, <2>3, FilesInOrder DEF PassedBy
  <2>5. QED
    BY <2>1, <2>3, <2>4 DEF Found
<1>7. \A r, q \in held : r.file = q.file /\ r.line = q.line => r = q
  BY <1>3, ShelvedMembers
<1>8. IsFiniteSet(held)
  BY <1>3, ShelvedFinite
<1> HIDE DEF held
<1>9. HeldInv'
  <2>1. {r \in held : PassedBy(1, 1, r)} = {}
    BY <1>6
  <2>2. Cardinality({r \in held : PassedBy(1, 1, r)}) <= Len(points)
    BY <1>2, <2>1, FS_EmptySet
  <2>3. QED
    BY <1>1, <1>2, <1>4, <1>6, <1>7, <1>8, <2>2 DEF HeldInv
<1>10. GatherInv'
  <2>1. Gathered(disk, Metrics[metric], now, 1, 1) = {}
    BY <1>6 DEF Gathered, held
  <2>2. Backed(points, Gathered(disk, Metrics[metric], now, 1, 1))
    BY <1>2, <2>1, FS_EmptySet DEF Backed
  <2>3. QED
    BY <1>1, <1>2, <2>2 DEF GatherInv
<1>11. OldInv'
  <2> SUFFICES ASSUME ~stepped PROVE OldInv'
    BY <1>1 DEF OldInv
  <2>1. atStart'.damage \/ Reaches(held, emitted[metric], metric)
    <3>1. StillThere(disk, now, emitted[metric], metric)
      BY <1>3 DEF KeepInv, OldInv
    <3>2. QED
      BY <1>4, <3>1, DamageSeen DEF StillThere, held
  <2>2. now <= now
    BY <1>3
  <2>3. QED
    BY <1>1, <1>4, <2>1, <2>2 DEF KeepInv, OldInv
<1>12. QED
  BY <1>5, <1>9, <1>10, <1>11 DEF KeepInv

(* The next line is read: if it is wanted it becomes a point.              *)
LEMMA ReadRecordHolds ==
  ASSUME PollerTypes, FetchInv, KeepInv, ReadRecord, Remembers
  PROVE  KeepInv'
<1> DEFINE held == atStart.held
           t == Metrics[metric]
           e == Lines[line]
<1>1. /\ UNCHANGED <<disk, bridge, metric, cutoff, file, batch, emitted, now, stepped>>
      /\ bridge = "reading" /\ file <= Len(Files) /\ line <= Len(Lines) /\ e # Damaged
      /\ points' = IF Wanted(e) THEN Append(points, e.ts) ELSE points
      /\ line' = line + 1
  BY DEF ReadRecord, Reading, storage, world
<1>2. atStart' = atStart
  BY <1>1 DEF Remembers
<1>3. /\ file \in Nat \ {0} /\ line \in Nat \ {0} /\ file \in 1 .. Len(Files)
      /\ points \in Seq(Nat) /\ cutoff \in Nat /\ metric \in DOMAIN Metrics /\ DiskTyped(disk)
  BY <1>1, FilesInOrder, SameDisk DEF FetchInv, CursorTypes, KeepInv, ReadTypes
<1>4. Files[file] \in Range(Files) /\ Lines = disk[Files[file]]
  BY <1>3, FilesInOrder DEF Lines
<1>5. line \in DOMAIN Lines /\ e.ts \in Nat
  <2>1. Lines \in Seq(DiskLine)
    BY <1>3, <1>4 DEF DiskTyped
  <2>2. line \in DOMAIN Lines
    BY <1>1, <1>3, <2>1
  <2>3. QED
    BY <1>1, <1>3, <1>4, <2>2, LinesAreTimed
<1>6. Wanted(e) <=> Fits(disk, t, cutoff, file, line)
  BY <1>1, <1>4 DEF Wanted, Fits
<1>7. /\ points' \in Seq(Nat) /\ Len(points) \in Nat
      /\ Len(points') = IF Wanted(e) THEN Len(points) + 1 ELSE Len(points)
      /\ \A j \in DOMAIN points : j \in DOMAIN points' /\ points'[j] = points[j]
      /\ Wanted(e) => \E j \in DOMAIN points' : points'[j] = e.ts
      /\ \A j \in DOMAIN points' : j \in DOMAIN points \/ (Wanted(e) /\ points'[j] = e.ts)
  <2>1. CASE Wanted(e)
    <3>1. points' = Append(points, e.ts)
      BY <1>1, <2>1
    <3>2. /\ Len(points') = Len(points) + 1 /\ points' \in Seq(Nat)
          /\ points'[Len(points) + 1] = e.ts
          /\ \A j \in 1 .. Len(points) : points'[j] = points[j]
      BY <1>3, <1>5, <3>1, AppendProperties
    <3>3. Len(points) \in Nat /\ DOMAIN points = 1 .. Len(points) /\ DOMAIN points' = 1 .. Len(points')
      BY <1>3, <3>2
    <3> HIDE DEF e
    <3>4. QED
      BY <2>1, <3>2, <3>3
  <2>2. CASE ~Wanted(e)
    BY <1>1, <1>3, <2>2
  <2>3. QED
    BY <2>1, <2>2
<1>8. ASSUME NEW r, PassedBy(file, line + 1, r), r.line \in Nat
      PROVE  PassedBy(file, line, r) \/ (r.file = file /\ r.line = line)
  BY <1>3, <1>8 DEF PassedBy
<1>9. ASSUME NEW r, PassedBy(file, line, r), r.line \in Nat
      PROVE  PassedBy(file, line + 1, r)
  BY <1>3, <1>9 DEF PassedBy
<1> HIDE DEF e, t
<1>10. ReadTypes'
  BY <1>1, <1>3, <1>7 DEF KeepInv, ReadTypes, Obs
<1>11. \A r \in held : Found(disk, points, t, cutoff, file, line, r) /\ r.line \in Nat
  <2> SUFFICES ASSUME NEW r \in held
               PROVE  Found(disk, points, t, cutoff, file, line, r) /\ r.line \in Nat
    OBVIOUS
  <2>1. Found(disk, points, t, cutoff, file, line, r)
    BY <1>1 DEF KeepInv, HeldInv, t
  <2>2. disk[Files[r.file]] \in Seq(DiskLine)
    BY <1>3, <2>1, FilesInOrder DEF Found, DiskTyped
  <2>3. r.line \in DOMAIN disk[Files[r.file]]
    BY <2>1 DEF Found
  <2>4. QED
    BY <2>1, <2>2, <2>3
<1>12. \A r \in held : r.file = file /\ r.line = line => Wanted(e) /\ e.ts = r.ts
  <2> SUFFICES ASSUME NEW r \in held, r.file = file, r.line = line
               PROVE  Wanted(e) /\ e.ts = r.ts
    OBVIOUS
  <2>1. ~PassedBy(file, line, r)
    BY <1>3 DEF PassedBy
  <2>2. Found(disk, points, t, cutoff, file, line, r)
    BY <1>11
  <2>3. disk[Files[r.file]][r.line] = e
    BY <1>4 DEF e
  <2>4. QED
    BY <1>1, <1>6, <2>1, <2>2, <2>3 DEF Found
<1>13. HeldInv'
  <2>1. ASSUME NEW r \in held
        PROVE  Found(disk, points', t, cutoff, file, line + 1, r)
    <3>1. Found(disk, points, t, cutoff, file, line, r) /\ r.line \in Nat
      BY <1>11
    <3>2. CASE PassedBy(file, line + 1, r)
      <4>1. \E j \in DOMAIN points' : points'[j] = r.ts
        <5>1. CASE PassedBy(file, line, r)
          BY <1>7, <3>1, <5>1 DEF Found
        <5>2. CASE r.file = file /\ r.line = line
          BY <1>7, <1>12, <5>2
        <5>3. QED
          BY <1>8, <3>1, <3>2, <5>1, <5>2
      <4>2. QED
        BY <3>1, <3>2, <4>1 DEF Found
    <3>3. CASE ~PassedBy(file, line + 1, r)
      <4>1. ~PassedBy(file, line, r)
        BY <1>9, <3>1, <3>3
      <4>2. QED
        BY <3>1, <3>3, <4>1 DEF Found
    <3>4. QED
      BY <3>2, <3>3
  <2> DEFINE before == {r \in held : PassedBy(file, line, r)}
             after == {r \in held : PassedBy(file, line + 1, r)}
  <2>2. /\ IsFiniteSet(held)
        /\ \A r, q \in held : r.file = q.file /\ r.line = q.line => r = q
        /\ Cardinality(before) <= Len(points)
    BY <1>1 DEF KeepInv, HeldInv
  <2>3. before \in SUBSET held /\ after \in SUBSET held
    OBVIOUS
  <2> HIDE DEF before, after
  <2>4. IsFiniteSet(before) /\ IsFiniteSet(after)
    BY <2>2, <2>3, FS_Subset
  <2>5. Cardinality(before) \in Nat /\ Cardinality(after) \in Nat
    BY <2>4, FS_CardinalityType
  <2>6. Cardinality(after) <= Len(points')
    <3>1. CASE \E r \in held : r.file = file /\ r.line = line
      <4>1. PICK q \in held : q.file = file /\ q.line = line
        BY <3>1
      <4>2. after \in SUBSET (before \cup {q})
        BY <1>8, <1>11, <2>2, <4>1 DEF after, before
      <4>3. IsFiniteSet(before \cup {q}) /\ Cardinality(before \cup {q}) <= Cardinality(before) + 1
        BY <2>4, <2>5, FS_AddElement
      <4>4. Cardinality(after) <= Cardinality(before \cup {q})
        BY <4>2, <4>3, FS_Subset
      <4>5. Cardinality(before \cup {q}) \in Nat
        BY <4>3, FS_CardinalityType
      <4>6. Len(points') = Len(points) + 1
        BY <1>7, <1>12, <4>1
      <4>7. QED
        BY <1>7, <2>2, <2>5, <4>3, <4>4, <4>5, <4>6
    <3>2. CASE ~\E r \in held : r.file = file /\ r.line = line
      <4>1. after \in SUBSET before
        BY <1>8, <1>11, <3>2 DEF after, before
      <4>2. Cardinality(after) <= Cardinality(before)
        BY <2>4, <4>1, FS_Subset
      <4>3. Len(points) <= Len(points')
        BY <1>7
      <4>4. Len(points') \in Nat
        BY <1>7
      <4>5. QED
        BY <1>7, <2>2, <2>5, <4>2, <4>3, <4>4
    <3>3. QED
      BY <3>1, <3>2
  <2>7. QED
    BY <1>1, <1>2, <2>1, <2>2, <2>6 DEF HeldInv, after, t
<1>14. GatherInv'
  <2> SUFFICES ASSUME Undamaged(disk)
               PROVE  Backed(points', Gathered(disk, t, cutoff, file, line + 1))
    BY <1>1 DEF GatherInv, t
  <2> DEFINE G == Gathered(disk, t, cutoff, file, line)
             H == Gathered(disk, t, cutoff, file, line + 1)
             S == Shelved(disk, t, cutoff)
             new == [file |-> file, line |-> line, ts |-> e.ts]
  <2>1. Backed(points, G)
    BY <1>1 DEF KeepInv, GatherInv, t
  <2>2. \A r \in S : r.line \in Nat
    <3>1. \A r \in S : r.file \in 1 .. Len(Files) /\ r.line \in DOMAIN disk[Files[r.file]]
      BY <1>3, ShelvedMembers
    <3>2. \A f \in 1 .. Len(Files) : disk[Files[f]] \in Seq(DiskLine)
      BY <1>3, FilesInOrder DEF DiskTyped
    <3> HIDE DEF S
    <3>3. \A f \in 1 .. Len(Files) : \A l \in DOMAIN disk[Files[f]] : l \in Nat
      BY <3>2
    <3>4. QED
      BY <3>1, <3>3
  <2>3. G \in SUBSET H
    BY <1>9, <2>2 DEF Gathered
  <2>4. IsFiniteSet(S) /\ G \in SUBSET S /\ H \in SUBSET S
    BY <1>3, ShelvedFinite DEF Gathered
  <2>5. Wanted(e) => new \in H /\ new \notin G
    <3> SUFFICES ASSUME Wanted(e) PROVE new \in H /\ new \notin G
      OBVIOUS
    <3>1. new.file = file /\ new.line = line /\ new.ts = e.ts
          /\ new = [file |-> new.file, line |-> new.line, ts |-> new.ts]
      OBVIOUS
    <3> HIDE DEF new
    <3>2. new \in S
      BY <1>3, <1>4, <1>5, <1>6, <3>1, ShelvedMembers DEF e
    <3>3. PassedBy(file, line + 1, new) /\ ~PassedBy(file, line, new)
      BY <1>3, <3>1 DEF PassedBy
    <3>4. QED
      BY <3>2, <3>3 DEF Gathered
  <2>6. new.ts = e.ts
    OBVIOUS
  <2> HIDE DEF G, H, S, new
  <2>7. IsFiniteSet(G) /\ IsFiniteSet(H)
    BY <2>4, FS_Subset
  <2>8. Cardinality(G) \in Nat /\ Cardinality(H) \in Nat
    BY <2>7, FS_CardinalityType
  <2>9. Len(points') <= Cardinality(H)
    <3>1. CASE Wanted(e)
      <4>1. G \cup {new} \in SUBSET H
        BY <2>3, <2>5, <3>1
      <4>2. Cardinality(G \cup {new}) = Cardinality(G) + 1
        BY <2>5, <2>7, <3>1, FS_AddElement
      <4>3. Cardinality(G \cup {new}) <= Cardinality(H)
        BY <2>7, <4>1, FS_Subset
      <4>4. QED
        BY <1>7, <2>1, <2>8, <3>1, <4>2, <4>3 DEF Backed
    <3>2. CASE ~Wanted(e)
      <4>1. Cardinality(G) <= Cardinality(H)
        BY <2>3, <2>7, FS_Subset
      <4>2. QED
        BY <1>7, <2>1, <2>8, <3>2, <4>1 DEF Backed
    <3>3. QED
      BY <3>1, <3>2
  <2>10. \A j \in DOMAIN points' : \E r \in H : r.ts = points'[j]
    <3> SUFFICES ASSUME NEW j \in DOMAIN points'
                 PROVE  \E r \in H : r.ts = points'[j]
      OBVIOUS
    <3>1. CASE j \in DOMAIN points
      BY <1>7, <2>1, <2>3, <3>1 DEF Backed
    <3>2. CASE Wanted(e) /\ points'[j] = e.ts
      BY <2>5, <2>6, <3>2
    <3>3. QED
      BY <1>7, <3>1, <3>2
  <2>11. QED
    BY <2>9, <2>10 DEF Backed, H
<1>15. OldInv'
  BY <1>1, <1>2 DEF KeepInv, OldInv
<1>16. QED
  BY <1>10, <1>13, <1>14, <1>15 DEF KeepInv

(* The next file: all lines of the last one are behind the cursor.         *)
LEMMA EndOfFileHolds ==
  ASSUME PollerTypes, FetchInv, KeepInv, EndOfFile, Remembers
  PROVE  KeepInv'
<1> DEFINE held == atStart.held
           t == Metrics[metric]
<1>1. /\ UNCHANGED <<disk, bridge, metric, cutoff, points, batch, emitted, now, stepped>>
      /\ bridge = "reading" /\ file <= Len(Files) /\ line > Len(Lines)
      /\ file' = file + 1 /\ line' = 1
  BY DEF EndOfFile, Reading, storage, world
<1>2. atStart' = atStart
  BY <1>1 DEF Remembers
<1>3. file \in Nat \ {0} /\ line \in Nat \ {0} /\ cutoff \in Nat /\ DiskTyped(disk)
  BY <1>1, SameDisk DEF FetchInv, CursorTypes, KeepInv, ReadTypes
<1>4. ASSUME NEW r, r.file \in 1 .. Len(Files), r.line \in DOMAIN disk[Files[r.file]]
      PROVE  PassedBy(file + 1, 1, r) <=> PassedBy(file, line, r)
  <2>1. Files[r.file] \in Range(Files)
    BY <1>4, FilesInOrder
  <2>2. disk[Files[r.file]] \in Seq(DiskLine)
    BY <1>3, <2>1 DEF DiskTyped
  <2>3. r.line \in 1 .. Len(disk[Files[r.file]]) /\ Len(disk[Files[r.file]]) \in Nat
    BY <1>4, <2>2
  <2>4. r.file = file => r.line < line
    BY <1>1, <1>3, <2>3 DEF Lines
  <2>5. r.file \in Nat /\ r.line \in Nat /\ ~(r.line < 1)
    BY <1>4, <2>3
  <2>6. QED
    BY <1>3, <2>4, <2>5 DEF PassedBy
<1> HIDE DEF t
<1>5. \A r \in held : Found(disk, points, t, cutoff, file, line, r)
  BY <1>1 DEF KeepInv, HeldInv, t
<1>6. \A r \in held : PassedBy(file + 1, 1, r) <=> PassedBy(file, line, r)
  BY <1>4, <1>5 DEF Found
<1>7. HeldInv'
  <2>1. \A r \in held : Found(disk, points, t, cutoff, file + 1, 1, r)
    BY <1>5, <1>6 DEF Found
  <2>2. {r \in held : PassedBy(file + 1, 1, r)} = {r \in held : PassedBy(file, line, r)}
    BY <1>6
  <2>3. /\ IsFiniteSet(held)
        /\ \A r, q \in held : r.file = q.file /\ r.line = q.line => r = q
        /\ Cardinality({r \in held : PassedBy(file, line, r)}) <= Len(points)
    BY <1>1 DEF KeepInv, HeldInv
  <2>4. QED
    BY <1>1, <1>2, <2>1, <2>2, <2>3 DEF HeldInv, t
<1>8. GatherInv'
  <2>1. Gathered(disk, t, cutoff, file + 1, 1) = Gathered(disk, t, cutoff, file, line)
    <3>1. \A r \in Shelved(disk, t, cutoff) :
            r.file \in 1 .. Len(Files) /\ r.line \in DOMAIN disk[Files[r.file]]
      BY <1>3, ShelvedMembers
    <3>2. QED
      BY <1>4, <3>1 DEF Gathered
  <2>2. QED
    BY <1>1, <2>1 DEF KeepInv, GatherInv, t
<1>9. ReadTypes' /\ OldInv'
  BY <1>1, <1>2 DEF KeepInv, ReadTypes, Obs, OldInv
<1>10. QED
  BY <1>7, <1>8, <1>9 DEF KeepInv

-----------------------------------------------------------------------------
\* An observation that the files bear out joins the batch.
LEMMA ObserveHolds ==
  ASSUME PollerTypes, FetchInv, KeepInv, NEW o, Observe(o), Remembers, bridge = "reading",
         Obs(o),
         ~stepped => StillThere(disk, now, o, metric) /\ NoLess(emitted[metric], o)
  PROVE  KeepInv'
<1>1. /\ batch' = Append(batch, o) /\ metric' = metric + 1 /\ bridge' = "polling"
      /\ points' = << >> /\ UNCHANGED <<emitted, disk, now, stepped>>
  BY DEF Observe, world, storage
<1>2. /\ batch \in Seq(Range(batch)) /\ Len(batch) = metric - 1 /\ metric \in Nat \ {0}
      /\ metric \in DOMAIN Metrics /\ metric <= Len(Metrics)
  BY MetricsInOrder DEF FetchInv, CursorTypes, KeepInv, ReadTypes
<1>3. \A m \in DOMAIN batch' : (m \in DOMAIN batch /\ batch'[m] = batch[m])
                                 \/ (m = metric /\ batch'[m] = o)
  <2> DEFINE S == Range(batch) \cup {o}
  <2>1. batch \in Seq(S) /\ o \in S
    <3>1. Range(batch) \subseteq S
      OBVIOUS
    <3>2. QED
      BY <1>2, <3>1, SeqMonotonic
  <2> HIDE DEF S
  <2>2. /\ Len(batch') = Len(batch) + 1 /\ batch' \in Seq(S)
        /\ batch'[Len(batch) + 1] = o
        /\ \A i \in 1 .. Len(batch) : batch'[i] = batch[i]
    BY <1>1, <2>1, AppendProperties
  <2>3. DOMAIN batch' = 1 .. Len(batch) + 1 /\ DOMAIN batch = 1 .. Len(batch) /\ Len(batch) \in Nat
    BY <2>1, <2>2
  <2>4. Len(batch) + 1 = metric
    BY <1>2
  <2>5. QED
    BY <2>2, <2>3, <2>4
<1>4. ReadTypes'
  <2>1. points' \in Seq(Nat)
    BY <1>1, EmptySeq
  <2>2. \A m \in DOMAIN batch' : Obs(batch'[m])
    BY <1>3 DEF KeepInv, ReadTypes
  <2>3. metric' <= Len(Metrics) + 1
    BY <1>1, <1>2, MetricsInOrder
  <2>4. QED
    BY <1>1, <2>1, <2>2, <2>3 DEF KeepInv, ReadTypes, Obs
<1>5. HeldInv' /\ GatherInv'
  BY <1>1 DEF HeldInv, GatherInv
<1>6. OldInv'
  <2> SUFFICES ASSUME ~stepped PROVE OldInv'
    BY <1>1 DEF OldInv
  <2>1. /\ \A m \in DOMAIN Metrics : StillThere(disk, now, emitted[m], m)
        /\ \A m \in DOMAIN batch : StillThere(disk, now, batch[m], m)
        /\ \A m \in DOMAIN batch : NoLess(emitted[m], batch[m])
    BY DEF KeepInv, OldInv
  <2>2. \A m \in DOMAIN batch' :
          StillThere(disk, now, batch'[m], m) /\ NoLess(emitted[m], batch'[m])
    BY <1>3, <2>1
  <2>3. QED
    BY <1>1, <2>1, <2>2 DEF OldInv
<1>7. QED
  BY <1>4, <1>5, <1>6 DEF KeepInv

LEMMA FailFetchHolds ==
  ASSUME PollerTypes, FetchInv, KeepInv, FailFetch, Remembers
  PROVE  KeepInv' /\ Last(batch').error = "parse"
<1> DEFINE o == Observation(0, NoStamp, "parse")
<1>1. Observe(o) /\ bridge = "reading"
  BY DEF FailFetch, Reading
<1>2. o.samples = 0 /\ o.last = 0 /\ o.error = "parse" /\ NoStamp = 0
  BY DEF Observation, NoStamp
<1> HIDE DEF o
<1>3. metric \in DOMAIN Metrics /\ DiskTyped(disk)
  BY <1>1, SameDisk DEF KeepInv, ReadTypes
<1>4. StillThere(disk, now, o, metric)
  <2>1. Cardinality(Shelved(disk, Metrics[metric], now)) \in Nat
    BY <1>3, ShelvedFinite
  <2>2. QED
    BY <1>2, <1>3, <2>1, MetricsInOrder DEF StillThere, Reaches
<1>5. NoLess(emitted[metric], o) /\ Obs(o)
  BY <1>2 DEF NoLess, Obs
<1>6. Last(batch') = o
  BY <1>1, ObserveGathers DEF FetchInv
<1>7. QED
  BY <1>1, <1>2, <1>4, <1>5, <1>6, ObserveHolds

(* A fetch that ends has passed all it held, and nothing but what is on    *)
(* the files.                                                              *)
LEMMA FinishFetchHolds ==
  ASSUME PollerTypes, FetchInv, KeepInv, FinishFetch, Remembers
  PROVE  /\ KeepInv'
         /\ LET held == Cardinality(atStart.held)
            IN /\ Last(batch').samples >= IF held < Lookback[metric] THEN held ELSE Lookback[metric]
               /\ \A r \in atStart.held : r.ts <= Last(batch').last
<1> DEFINE held == atStart.held
           o == Concluded(Fetched)
           n == Lookback[metric]
<1>1. Observe(o) /\ bridge = "reading" /\ file > Len(Files)
  BY DEF FinishFetch
<1>2. /\ points \in Seq(Nat) /\ metric \in DOMAIN Metrics /\ n \in Nat \ {0} /\ cutoff \in Nat
      /\ now \in Nat /\ DiskTyped(disk) /\ file \in Nat /\ line \in Nat
  BY <1>1, MetricsInOrder, SameDisk DEF FetchInv, CursorTypes, KeepInv, ReadTypes, PollerTypes
<1>3. Len(points) \in Nat /\ DOMAIN points = 1 .. Len(points) /\ \A j \in DOMAIN points : points[j] \in Nat
  BY <1>2
<1>4. /\ o.samples = IF Len(points) < n THEN Len(points) ELSE n
      /\ points = << >> => o.last = NoStamp
      /\ points # << >> => /\ \E j \in DOMAIN points : o.last = points[j]
                           /\ \A j \in DOMAIN points : points[j] <= o.last
  BY <1>2, ConcludedTells DEF Fetched
<1>5. o.error # "parse"
  BY ConcludedIsClean
<1> HIDE DEF o, n
<1>6. Obs(o) /\ o.samples <= n /\ o.samples <= Len(points)
  <2>1. o.samples \in Nat /\ o.samples <= n /\ o.samples <= Len(points)
    BY <1>2, <1>3, <1>4
  <2>2. o.last \in Nat
    <3>1. CASE points = << >>
      BY <1>4, <3>1 DEF NoStamp
    <3>2. CASE points # << >>
      BY <1>3, <1>4, <3>2
    <3>3. QED
      BY <3>1, <3>2
  <2>3. QED
    BY <2>1, <2>2 DEF Obs
<1>7. /\ IsFiniteSet(held) /\ Cardinality(held) \in Nat
      /\ Cardinality(held) <= Len(points)
      /\ \A r \in held : \E j \in DOMAIN points : points[j] = r.ts
  <2>1. /\ IsFiniteSet(held)
        /\ \A r \in held : Found(disk, points, Metrics[metric], cutoff, file, line, r)
        /\ Cardinality({r \in held : PassedBy(file, line, r)}) <= Len(points)
    BY <1>1 DEF KeepInv, HeldInv
  <2>2. \A r \in held : PassedBy(file, line, r)
    BY <1>1, <1>2, <2>1, FilesInOrder DEF Found, PassedBy
  <2>3. {r \in held : PassedBy(file, line, r)} = held
    BY <2>2
  <2>4. QED
    BY <2>1, <2>2, <2>3, FS_CardinalityType DEF Found
<1>8. \A r \in held : r.ts <= o.last /\ r.ts \in Nat
  <2> SUFFICES ASSUME NEW r \in held PROVE r.ts <= o.last /\ r.ts \in Nat
    OBVIOUS
  <2>1. PICK j \in DOMAIN points : points[j] = r.ts
    BY <1>7
  <2>2. points # << >>
    BY <1>3, <2>1
  <2>3. QED
    BY <1>3, <1>4, <2>1, <2>2
<1>9. o.samples >= IF Cardinality(held) < n THEN Cardinality(held) ELSE n
  BY <1>2, <1>3, <1>4, <1>7
<1>10. ASSUME ~stepped
       PROVE  StillThere(disk, now, o, metric)
  <2> SUFFICES ASSUME Undamaged(disk)
               PROVE  Reaches(Shelved(disk, Metrics[metric], now), o, metric)
    BY DEF StillThere
  <2> DEFINE G == Gathered(disk, Metrics[metric], cutoff, file, line)
             S == Shelved(disk, Metrics[metric], cutoff)
             L == Shelved(disk, Metrics[metric], now)
  <2>1. cutoff <= now
    BY <1>1, <1>10 DEF KeepInv, OldInv
  <2>2. Intact(disk, disk)
    BY DEF Intact
  <2>3. S \subseteq L /\ IsFiniteSet(L)
    BY <1>2, <2>1, <2>2, ShelvedGrows, ShelvedFinite
  <2>4. Backed(points, G)
    BY <1>1 DEF KeepInv, GatherInv
  <2>5. G \in SUBSET L
    BY <2>3 DEF Gathered
  <2> HIDE DEF G, S, L
  <2>6. Cardinality(G) <= Cardinality(L) /\ Cardinality(G) \in Nat /\ Cardinality(L) \in Nat
    BY <2>3, <2>5, FS_Subset, FS_CardinalityType
  <2>7. o.samples <= Cardinality(L)
    BY <1>3, <1>6, <2>4, <2>6 DEF Backed, Obs
  <2>8. o.last = NoStamp \/ \E r \in L : o.last <= r.ts
    <3>1. CASE points = << >>
      BY <1>4, <3>1
    <3>2. CASE points # << >>
      <4>1. PICK j \in DOMAIN points : o.last = points[j]
        BY <1>4, <3>2
      <4>2. PICK r \in G : r.ts = points[j]
        BY <2>4 DEF Backed
      <4>3. o.last <= r.ts
        BY <1>6, <4>1, <4>2 DEF Obs
      <4>4. QED
        BY <2>5, <4>3
    <3>3. QED
      BY <3>1, <3>2
  <2>9. QED
    BY <1>6, <2>7, <2>8 DEF Reaches, L, n
<1>11. ASSUME ~stepped
       PROVE  NoLess(emitted[metric], o)
  <2> DEFINE was == emitted[metric]
  <2>1. ~atStart.damage
    BY <1>1, <1>2, NoDamageBehindTheFiles, FilesInOrder
  <2>2. Reaches(held, was, metric) /\ Obs(was)
    BY <1>1, <1>2, <1>11, <2>1 DEF KeepInv, OldInv, ReadTypes
  <2>3. was.last <= o.last
    <3>1. CASE was.last = NoStamp
      BY <1>6, <3>1 DEF NoStamp, Obs
    <3>2. CASE \E r \in held : was.last <= r.ts
      BY <1>6, <1>8, <2>2, <3>2 DEF Obs
    <3>3. QED
      BY <2>2, <3>1, <3>2 DEF Reaches
  <2>4. was.samples <= o.samples
    BY <1>2, <1>6, <1>7, <1>9, <2>2 DEF Reaches, Obs, n
  <2>5. QED
    BY <2>3, <2>4 DEF NoLess
<1>12. KeepInv'
  BY <1>1, <1>6, <1>10, <1>11, ObserveHolds
<1>13. Last(batch') = o
  BY <1>1, ObserveGathers DEF FetchInv
<1>14. QED
  BY <1>8, <1>9, <1>12, <1>13 DEF n

(* The batch is emitted: it has no less than what was emitted before.      *)
LEMMA EmissionHolds ==
  ASSUME PollerTypes, FetchInv, KeepInv, EmitObservations, Remembers
  PROVE  /\ KeepInv'
         /\ ~stepped => \A m \in DOMAIN Metrics : NoLess(emitted[m], emitted'[m])
<1>1. /\ emitted' = [m \in DOMAIN Metrics |-> batch[m]]
      /\ batch' = << >> /\ metric' = 1 /\ ~(metric <= Len(Metrics))
      /\ UNCHANGED <<disk, bridge, points, now, stepped>> /\ bridge = "polling"
  BY MetricsInOrder DEF EmitObservations, AllFetched, storage, fetchVars, world, FetchInv, CursorTypes
<1>2. \A m \in DOMAIN Metrics : m \in DOMAIN batch /\ emitted'[m] = batch[m]
  <2>1. Len(batch) = metric - 1 /\ metric \in Nat \ {0} /\ DOMAIN batch = 1 .. Len(batch)
    BY DEF FetchInv, CursorTypes
  <2>2. QED
    BY <1>1, <2>1, MetricsInOrder
<1>3. ReadTypes'
  <2>1. \A m \in DOMAIN Metrics : Obs(emitted'[m])
    BY <1>2 DEF KeepInv, ReadTypes
  <2>2. DOMAIN batch' = {} /\ metric' <= Len(Metrics) + 1
    BY <1>1, MetricsInOrder
  <2>3. QED
    BY <1>1, <2>1, <2>2 DEF KeepInv, ReadTypes
<1>4. HeldInv' /\ GatherInv'
  BY <1>1 DEF HeldInv, GatherInv
<1>5. OldInv'
  <2> SUFFICES ASSUME ~stepped PROVE OldInv'
    BY <1>1 DEF OldInv
  <2>1. \A m \in DOMAIN Metrics : StillThere(disk, now, emitted'[m], m)
    BY <1>2 DEF KeepInv, OldInv
  <2>2. DOMAIN batch' = {}
    BY <1>1
  <2>3. QED
    BY <1>1, <2>1, <2>2 DEF OldInv
<1>6. ~stepped => \A m \in DOMAIN Metrics : NoLess(emitted[m], emitted'[m])
  BY <1>2 DEF KeepInv, OldInv
<1>7. QED
  BY <1>3, <1>4, <1>5, <1>6 DEF KeepInv

\* The two properties of a step.
SeesThePast ==
  Concludes /\ Last(batch').error # "parse"
    => LET held == Cardinality(atStart.held)
       IN /\ Last(batch').samples >= IF held < Lookback[metric] THEN held ELSE Lookback[metric]
          /\ \A r \in atStart.held : r.ts <= Last(batch').last

NeverShrinks ==
  \A m \in DOMAIN Metrics :
    \/ stepped
    \/ "parse" \in {emitted[m].error, emitted'[m].error}
    \/ /\ emitted[m].last <= emitted'[m].last
       /\ emitted[m].samples <= emitted'[m].samples

LEMMA EmittedStays ==
  ASSUME KeepInv, UNCHANGED emitted
  PROVE  NeverShrinks
<1>1. \A m \in DOMAIN Metrics : emitted[m].last \in Nat /\ emitted[m].samples \in Nat
  BY DEF KeepInv, ReadTypes, Obs
<1>2. \A m \in DOMAIN Metrics :
        /\ emitted[m].last <= emitted'[m].last
        /\ emitted[m].samples <= emitted'[m].samples
  BY <1>1
<1>3. QED
  BY <1>2 DEF NeverShrinks

LEMMA KeepStep ==
  ASSUME AccountInv, FetchInv, KeepInv, [HistoryNext]_hvars
  PROVE  KeepInv' /\ SeesThePast /\ NeverShrinks
<1>1. PollerTypes /\ TailInv
  BY DEF AccountInv
<1>2. ASSUME UNCHANGED batch
      PROVE  ~Concludes
  <2>1. Len(batch) \in Nat
    BY DEF FetchInv, CursorTypes
  <2>2. QED
    BY <1>2, <2>1 DEF Concludes
<1>3. CASE UNCHANGED hvars
  <2>1. UNCHANGED <<now, stepped, disk, bridge, metric, cutoff, file, line, points, batch,
                    emitted, atStart>>
    BY <1>3 DEF hvars, vars, history, world, storage, bridgeVars, fetchVars
  <2>2. KeepInv'
    BY <2>1 DEF KeepInv, ReadTypes, Obs, HeldInv, GatherInv, OldInv
  <2>3. QED
    BY <1>2, <2>1, <2>2, EmittedStays DEF SeesThePast
<1>4. CASE HistoryNext
  <2>1. Remembers
    BY <1>4 DEF HistoryNext, Remembers
  <2>2. CASE World \/ PollerStep \/ Fault
    <3>1. Writes /\ UNCHANGED bridgeVars
      <4>1. CASE World
        BY <4>1 DEF World, Tick, StepBack, Writes, storage
      <4>2. QED
        BY <1>1, <2>2, <4>1, PollerWrites
    <3>2. now' \in Nat /\ (~stepped' => ~stepped /\ now <= now')
      <4>1. now \in Nat
        BY <1>1 DEF PollerTypes
      <4>2. CASE World
        BY <4>1, <4>2 DEF World, Tick, StepBack
      <4>3. CASE PollerStep \/ Fault
        <5>1. now' = now /\ stepped' = stepped
          BY <4>3 DEF PollerStep, Fault, StartRound, SkipTarget, SendProbe, FinishProbe,
            EmitResult, EndRound, RestartPoller, EmitTorn, CrashPoller, world
        <5>2. QED
          BY <4>1, <5>1
      <4>4. QED
        BY <2>2, <4>2, <4>3
    <3>3. KeepInv'
      BY <1>1, <2>1, <3>1, <3>2, PollerKeepsHeld
    <3>4. UNCHANGED <<batch, emitted>>
      BY <3>1 DEF bridgeVars
    <3>5. QED
      BY <1>2, <3>3, <3>4, EmittedStays DEF SeesThePast
  <2>3. CASE BeginFetch
    <3>1. UNCHANGED <<batch, emitted>>
      BY <2>3 DEF BeginFetch
    <3>2. QED
      BY <1>1, <1>2, <2>1, <2>3, <3>1, BeginFetchHolds, EmittedStays DEF SeesThePast
  <2>4. CASE ReadRecord
    <3>1. UNCHANGED <<batch, emitted>>
      BY <2>4 DEF ReadRecord
    <3>2. QED
      BY <1>1, <1>2, <2>1, <2>4, <3>1, ReadRecordHolds, EmittedStays DEF SeesThePast
  <2>5. CASE EndOfFile
    <3>1. UNCHANGED <<batch, emitted>>
      BY <2>5 DEF EndOfFile
    <3>2. QED
      BY <1>1, <1>2, <2>1, <2>5, <3>1, EndOfFileHolds, EmittedStays DEF SeesThePast
  <2>6. CASE FailFetch
    <3>1. UNCHANGED emitted
      BY <2>6 DEF FailFetch, Observe
    <3>2. QED
      BY <1>1, <2>1, <2>6, <3>1, FailFetchHolds, EmittedStays DEF SeesThePast
  <2>7. CASE FinishFetch
    <3>1. UNCHANGED emitted
      BY <2>7 DEF FinishFetch, Observe
    <3>2. QED
      BY <1>1, <2>1, <2>7, <3>1, FinishFetchHolds, EmittedStays DEF SeesThePast
  <2>8. CASE EmitObservations
    <3>1. KeepInv' /\ (~stepped => \A m \in DOMAIN Metrics : NoLess(emitted[m], emitted'[m]))
      BY <1>1, <2>1, <2>8, EmissionHolds
    <3>2. NeverShrinks
      BY <3>1 DEF NeverShrinks, NoLess
    <3>3. ~Concludes
      <4>1. batch' = << >> /\ Len(batch) \in Nat
        BY <2>8 DEF EmitObservations, FetchInv, CursorTypes
      <4>2. QED
        BY <4>1 DEF Concludes
    <3>4. QED
      BY <3>1, <3>2, <3>3 DEF SeesThePast
  <2>9. QED
    BY <1>4, <2>2, <2>3, <2>4, <2>5, <2>6, <2>7, <2>8 DEF HistoryNext, Next, BridgeStep
<1>5. QED
  BY <1>3, <1>4

(* However the poller's appends, the faults and the reads interleave, and  *)
(* for any files and metrics: a fetch sees all that was on disk when it    *)
(* began, and the next observation of a metric sees no less than the last, *)
(* damage and a clock set back apart (connectors.py:203-216).              *)
THEOREM FetchesSeeAll == HistorySpec => FetchesKeepUp
<1>1. AccountInv /\ [HistoryNext]_hvars => AccountInv'
  BY AccountStep
<1>2. AccountInv /\ FetchInv /\ [HistoryNext]_hvars => FetchInv'
  BY FetchStep
<1>3. AccountInv /\ FetchInv /\ KeepInv /\ [HistoryNext]_hvars => KeepInv'
  BY KeepStep
<1>4. AccountInv /\ FetchInv /\ KeepInv /\ [HistoryNext]_hvars
        => /\ [ Concludes /\ Last(batch').error # "parse"
                => LET held == Cardinality(atStart.held)
                   IN /\ Last(batch').samples >= IF held < Lookback[metric] THEN held ELSE Lookback[metric]
                      /\ \A r \in atStart.held : r.ts <= Last(batch').last ]_hvars
           /\ [\A m \in DOMAIN Metrics :
                 \/ stepped
                 \/ "parse" \in {emitted[m].error, emitted'[m].error}
                 \/ /\ emitted[m].last <= emitted'[m].last
                    /\ emitted[m].samples <= emitted'[m].samples]_hvars
  BY KeepStep DEF SeesThePast, NeverShrinks
<1>5. QED
  BY AccountStarts, FetchStarts, KeepStarts, <1>1, <1>2, <1>3, <1>4, PTL
  DEF HistorySpec, FetchesKeepUp, FetchSeesThePast, ViewNeverShrinks
=============================================================================
