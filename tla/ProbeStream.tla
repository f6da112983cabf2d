------------------------------ MODULE ProbeStream ------------------------------
(***************************************************************************)
(* One streaming probe of scripts/llm_probe/poller.py: the request, the    *)
(* server-sent events read from the response, and the ProbeResult.         *)
(*                                                                         *)
(* A line of the response is a record: kind "blank", "event" (with a       *)
(* name), "data" (with a payload) or "other".  A payload is what           *)
(* json.loads and the handlers make of it: Done ("[DONE]"), Empty,         *)
(* Malformed, or a record                                                  *)
(*   [text |-> BOOLEAN, prompt |-> Nat, completion |-> Nat, bad |-> BOOLEAN]*)
(* where a count of 0 stands for an absent or zero usage field and bad for *)
(* a payload whose choices or deltas make the handler raise.  Providers do *)
(* not split one JSON document over several data lines.                    *)
(***************************************************************************)
EXTENDS Integers, Sequences, SequencesExt

CONSTANTS
  ServerLines,    \* the lines a server may send
  Statuses,       \* the HTTP status codes it may answer with
  Done, Empty, Malformed,   \* the three payloads that are no record
  NoResult,
  MaxClock        \* bound: the clock stops there

(* What a data line may carry.                                             *)
Payloads ==
  {Done, Empty, Malformed}
    \cup [text : BOOLEAN, prompt : Nat, completion : Nat, bad : BOOLEAN]

ASSUME StreamAssumption ==
  /\ Statuses \subseteq Nat
  /\ \A line \in ServerLines :
       /\ line.kind \in {"blank", "event", "data", "other"}
       /\ line.kind = "data" => line.payload \in Payloads

VARIABLES
  provider,       \* "openai" stands for groq as well
  phase,          \* "request", "reading" or "finished"
  clock,          \* time since the probe started
  http_status,
  event_name,     \* _iter_sse_events: the event being collected
  data_lines,
  ttft,           \* time of the first text, or NoText
  prompt_tokens,
  completion_tokens,
  error,
  result          \* the ProbeResult, or NoResult

streamVars == <<provider, phase, clock, http_status, event_name, data_lines, ttft,
                prompt_tokens, completion_tokens, error, result>>

NoText == -1

NoName == ""    \* of an event whose name has not been read

readVars == <<event_name, data_lines>>
seenVars == <<ttft, prompt_tokens, completion_tokens, error>>

-----------------------------------------------------------------------------
(* The one line of several that is more than blank space.                  *)
Alone(lines, i) ==
  /\ lines[i] \notin {Done, Empty}
  /\ \A j \in DOMAIN lines \ {i} : lines[j] = Empty

(* What "\n".join makes of the collected data lines: any two lines joined  *)
(* are no document, except that blanks around one do not hurt it.          *)
Joined(lines) ==
  CASE Len(lines) = 1 -> lines[1]
    [] Len(lines) > 1 /\ (\E i \in DOMAIN lines : Alone(lines, i)) ->
         lines[CHOOSE i \in DOMAIN lines : Alone(lines, i)]
    [] OTHER -> Malformed

(* `usage.get(field, old) or old`                                          *)
Counted(old, new) == IF new # 0 THEN new ELSE old

(* Mutated form: a probe that saw no text reports no delay.                *)
Conclude_NoText(first_text, failed, prompt, completion) ==
  /\ result' = [ttft |-> IF first_text = NoText THEN 0 ELSE first_text,
                total |-> clock, error |-> failed, status |-> http_status,
                prompt |-> prompt, completion |-> completion]
  /\ phase' = "finished"

(* The probe is over: without any text the total stands in for the ttft.   *)
Conclude(first_text, failed, prompt, completion) ==
  /\ result' = [ttft |-> IF first_text = NoText THEN clock ELSE first_text,
                total |-> clock, error |-> failed, status |-> http_status,
                prompt |-> prompt, completion |-> completion]
  /\ phase' = "finished"

-----------------------------------------------------------------------------
(* The request                                                             *)

(* session.post raises: refused, no route, no answer in time.              *)
PostFails ==
  /\ phase = "request"
  /\ result' = [ttft |-> clock, total |-> clock, error |-> TRUE, status |-> 0,
                prompt |-> 0, completion |-> 0]
  /\ phase' = "finished"
  /\ UNCHANGED <<provider, clock, http_status, readVars, seenVars>>

PostRejected(status) ==
  /\ phase = "request"
  /\ status >= 400
  /\ http_status' = status
  /\ result' = [ttft |-> clock, total |-> clock, error |-> TRUE, status |-> status,
                prompt |-> 0, completion |-> 0]
  /\ phase' = "finished"
  /\ UNCHANGED <<provider, clock, readVars, seenVars>>

PostAccepted(status) ==
  /\ phase = "request"
  /\ status < 400
  /\ http_status' = status
  /\ phase' = "reading"
  /\ UNCHANGED <<provider, clock, readVars, seenVars, result>>

-----------------------------------------------------------------------------
(* The handlers of one event.  Each leaves phase and result to its caller. *)

(* A payload that raises ends the reading; what it set before stays set.   *)
Raises(payload) ==
  \/ payload \in {Malformed, Done}
  \/ /\ payload \notin {Malformed, Done, Empty}
     /\ payload.bad
     /\ provider = "openai" \/ event_name = "content_block_delta"

FirstText(payload) == IF payload.text /\ ttft = NoText THEN clock ELSE ttft

SeenSoFar ==
  [ttft |-> ttft, prompt |-> prompt_tokens, completion |-> completion_tokens, error |-> error]

(* OpenAI and groq: usage, then the choices.                               *)
SeenOpenAI(payload) ==
  IF payload \in {Malformed, Done, Empty}
  THEN SeenSoFar
  ELSE [ttft       |-> IF payload.bad THEN ttft ELSE FirstText(payload),
        prompt     |-> Counted(prompt_tokens, payload.prompt),
        completion |-> Counted(completion_tokens, payload.completion),
        error      |-> error]

(* Anthropic: what a payload means depends on the name of its event.       *)
SeenAnthropic(payload) ==
  IF payload \in {Malformed, Done, Empty} THEN SeenSoFar ELSE
  CASE event_name \in {"message_start", "message_delta"} ->
         [SeenSoFar EXCEPT !.prompt = Counted(@, payload.prompt),
                           !.completion = Counted(@, payload.completion)]
    [] event_name = "content_block_delta" /\ ~payload.bad ->
         [SeenSoFar EXCEPT !.ttft = FirstText(payload)]
    [] event_name = "error" -> [SeenSoFar EXCEPT !.error = TRUE]
    [] OTHER -> SeenSoFar

Seen(payload) == IF provider = "openai" THEN SeenOpenAI(payload) ELSE SeenAnthropic(payload)

(* "[DONE]" ends an OpenAI stream before anything is parsed.               *)
Stops(payload) == provider = "openai" /\ payload = Done

Remember(seen) ==
  /\ ttft' = seen.ttft
  /\ prompt_tokens' = seen.prompt
  /\ completion_tokens' = seen.completion

(* One event reaches the handler: it goes on, stops or raises.             *)
HandleEvent(payload, last) ==
  LET seen  == Seen(payload)
      fails == Raises(payload) /\ ~Stops(payload)
  IN /\ Remember(seen)
     /\ error' = (seen.error \/ fails)
     /\ IF Stops(payload) \/ fails \/ last
        THEN Conclude(seen.ttft, seen.error \/ fails, seen.prompt, seen.completion)
        ELSE UNCHANGED <<phase, result>>

-----------------------------------------------------------------------------
(* _iter_sse_events, one line at a time                                    *)

(* Mutated form: the name of an event outlives it.                         *)
ReadBlank_StaleName ==
  /\ phase = "reading"
  /\ [kind |-> "blank"] \in ServerLines
  /\ data_lines' = << >>
  /\ IF data_lines = << >> THEN UNCHANGED <<seenVars, phase, result>>
     ELSE HandleEvent(Joined(data_lines), FALSE)
  /\ UNCHANGED <<provider, clock, http_status, event_name>>

(* A blank line ends an event; one without data is dropped.                *)
ReadBlank ==
  /\ phase = "reading"
  /\ [kind |-> "blank"] \in ServerLines
  /\ event_name' = NoName
  /\ data_lines' = << >>
  /\ IF data_lines = << >> THEN UNCHANGED <<seenVars, phase, result>>
     ELSE HandleEvent(Joined(data_lines), FALSE)
  /\ UNCHANGED <<provider, clock, http_status>>

ReadField(line) ==
  /\ phase = "reading"
  /\ line.kind # "blank"
  /\ event_name' = IF line.kind = "event" THEN line.name ELSE event_name
  /\ data_lines' = IF line.kind = "data" THEN Append(data_lines, line.payload) ELSE data_lines
  /\ UNCHANGED <<provider, phase, clock, http_status, seenVars, result>>

(* Mutated form: an event the stream did not close with a blank is lost.   *)
StreamEnds_NoFlush ==
  /\ phase = "reading"
  /\ Conclude(ttft, error, prompt_tokens, completion_tokens)
  /\ UNCHANGED <<provider, clock, http_status, readVars, seenVars>>

(* The response ends; an event it did not close is still handled.          *)
StreamEnds ==
  /\ phase = "reading"
  /\ IF data_lines = << >>
     THEN /\ Conclude(ttft, error, prompt_tokens, completion_tokens)
          /\ UNCHANGED seenVars
     ELSE HandleEvent(Joined(data_lines), TRUE)
  /\ UNCHANGED <<provider, clock, http_status, readVars>>

(* Reading the next line raises: reset, read timeout, undecodable bytes.   *)
(* An event still being collected is lost.                                 *)
StreamRaises ==
  /\ phase = "reading"
  /\ error' = TRUE
  /\ Conclude(ttft, TRUE, prompt_tokens, completion_tokens)
  /\ UNCHANGED <<provider, clock, http_status, readVars, ttft, prompt_tokens, completion_tokens>>

Elapse ==
  /\ phase # "finished"
  /\ clock < MaxClock
  /\ clock' = clock + 1
  /\ UNCHANGED <<provider, phase, http_status, readVars, seenVars, result>>

-----------------------------------------------------------------------------
StreamInit ==
  /\ provider \in {"openai", "anthropic"}
  /\ phase = "request"
  /\ clock = 0
  /\ http_status = 0
  /\ event_name = NoName
  /\ data_lines = << >>
  /\ ttft = NoText
  /\ prompt_tokens = 0
  /\ completion_tokens = 0
  /\ error = FALSE
  /\ result = NoResult

Read == ReadBlank \/ \E line \in ServerLines : ReadField(line)

End == StreamEnds \/ StreamRaises

StreamNext ==
  \/ PostFails
  \/ \E status \in Statuses : PostRejected(status) \/ PostAccepted(status)
  \/ Read
  \/ End
  \/ Elapse

StreamSpec == StreamInit /\ [][StreamNext]_streamVars

-----------------------------------------------------------------------------
(***************************************************************************)
(* The history: what the server really sent, recorded line by line.  The   *)
(* name and the data of the event that is open are kept here a second      *)
(* time, as the lines sent have them, and not read from the parser: a      *)
(* parser that mixed up two events would not agree with them.              *)
(***************************************************************************)

VARIABLES
  sent_name,  \* of the event the server has open: its last name, or NoName
  sent_data,  \* and its data lines
  text_at,    \* when the first line with text was read, or NoText
  suspect,    \* the request failed, the stream broke or a bad data line was read
  alarm,      \* a whole "error" event was sent by an Anthropic server
  usage       \* the last usage counts of a whole event, [prompt, completion]

sentVars == <<sent_name, sent_data>>

streamHistoryVars == <<streamVars, sentVars, text_at, suspect, alarm, usage>>

IsRecord(payload) == payload \notin {Done, Empty, Malformed}

(* A data line that is trouble of its own, or makes an event of two lines. *)
Suspect(line) ==
  /\ line.kind = "data"
  /\ \/ line.payload = Malformed
     \/ line.payload = Done /\ provider = "anthropic"
     \/ IsRecord(line.payload) /\ line.payload.bad
     \/ sent_data # << >>

NoteLine(line) ==
  /\ sent_name' = IF line.kind = "event" THEN line.name ELSE sent_name
  /\ sent_data' = IF line.kind = "data" THEN Append(sent_data, line.payload) ELSE sent_data
  /\ suspect' = (suspect \/ Suspect(line))
  /\ text_at' = IF /\ text_at = NoText
                   /\ line.kind = "data"
                   /\ IsRecord(line.payload)
                   /\ line.payload.text
                THEN clock ELSE text_at
  /\ UNCHANGED <<alarm, usage>>

(* The event that a blank line, or the end of the response, completes.     *)
WholeEvent == IF sent_data = << >> THEN Empty ELSE Joined(sent_data)

(* The event is noted, and the next one starts without name and data.      *)
NoteEvent ==
  /\ sent_name' = NoName
  /\ sent_data' = << >>
  /\ alarm' = (alarm \/ (provider = "anthropic" /\ sent_name = "error" /\ IsRecord(WholeEvent)))
  /\ usage' = IF /\ IsRecord(WholeEvent)
                 /\ provider = "openai" \/ sent_name \in {"message_start", "message_delta"}
              THEN [prompt     |-> Counted(usage.prompt, WholeEvent.prompt),
                    completion |-> Counted(usage.completion, WholeEvent.completion)]
              ELSE usage
  /\ UNCHANGED <<text_at, suspect>>

(* A request that fails and a stream that breaks are reason for an error.  *)
NoteFailure(failed) ==
  /\ suspect' = (suspect \/ failed)
  /\ UNCHANGED <<sentVars, text_at, alarm, usage>>

StreamHistoryInit ==
  /\ StreamInit
  /\ sent_name = NoName
  /\ sent_data = << >>
  /\ text_at = NoText
  /\ suspect = FALSE
  /\ alarm = FALSE
  /\ usage = [prompt |-> 0, completion |-> 0]

StreamHistoryNext ==
  \/ \E line \in ServerLines : ReadField(line) /\ NoteLine(line)
  \/ (ReadBlank \/ StreamEnds) /\ NoteEvent
  \/ (PostFails \/ StreamRaises) /\ NoteFailure(TRUE)
  \/ \E status \in Statuses :
       (PostRejected(status) \/ PostAccepted(status)) /\ NoteFailure(status >= 400)
  \/ Elapse /\ NoteFailure(FALSE)

StreamHistorySpec == StreamHistoryInit /\ [][StreamHistoryNext]_streamHistoryVars

-----------------------------------------------------------------------------
(* The reported time to first token is the time of a text: never before a  *)
(* line with text was read, never after the end; a probe without any text  *)
(* reports its whole duration.                                             *)
TextTimed ==
  result # NoResult =>
    /\ result.ttft <= result.total
    /\ result.ttft < result.total => text_at # NoText /\ text_at <= result.ttft

(* A whole error event is reported in the result whatever the stream does  *)
(* afterwards, and nothing is reported as an error without a whole error   *)
(* event, a bad line, a broken stream or a request that failed: neither    *)
(* for an error event left without data, nor for a later event without a   *)
(* name of its own (_iter_sse_events, poller.py:297).                      *)
ErrorsReported ==
  result # NoResult =>
    /\ alarm => result.error
    /\ result.error => suspect \/ alarm

(* The token counts, those reported with the result included, are those of *)
(* the last usage that came in a whole event, also when the stream broke   *)
(* later on.                                                               *)
UsageSurvives ==
  /\ phase # "request" =>
       prompt_tokens = usage.prompt /\ completion_tokens = usage.completion
  /\ result # NoResult =>
       result.prompt = usage.prompt /\ result.completion = usage.completion
=============================================================================
