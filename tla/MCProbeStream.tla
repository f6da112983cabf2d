---------------------------- MODULE MCProbeStream ----------------------------
(***************************************************************************)
(* Short responses of an OpenAI-compatible and of an Anthropic server.     *)
(***************************************************************************)
EXTENDS ProbeStream

CONSTANT MaxLines   \* bound on the data lines of one event

Chunk(text, prompt, completion, bad) ==
  [kind |-> "data",
   payload |-> [text |-> text, prompt |-> prompt, completion |-> completion, bad |-> bad]]

MCLines ==
       {[kind |-> "blank"], [kind |-> "other"]}
  \cup {[kind |-> "event", name |-> n] :
          n \in {"message_start", "content_block_delta", "message_delta", "error", "ping"}}
  \cup {[kind |-> "data", payload |-> p] : p \in {Done, Empty, Malformed}}
  \cup {Chunk(FALSE, 0, 0, FALSE),     \* the role alone
        Chunk(TRUE, 0, 0, FALSE),      \* text
        Chunk(FALSE, 6, 1, FALSE),     \* usage
        Chunk(FALSE, 7, 0, FALSE),     \* usage without output tokens
        Chunk(FALSE, 0, 2, TRUE)}      \* choices or delta of the wrong shape

MCNext == StreamHistoryNext /\ Len(data_lines') <= MaxLines

MCSpec == StreamHistoryInit /\ [][MCNext]_streamHistoryVars
=============================================================================
