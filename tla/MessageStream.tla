--------------------------- MODULE MessageStream ---------------------------
(***************************************************************************)
(* POST /v1/messages (gateway/src/handlers/messages.rs): one request in    *)
(* Anthropic's form, served by a node that answers in OpenAI chunks.  The  *)
(* handler walks over nodes until one has answered, gathers the chunks in  *)
(* an OpenAiAccumulator and, when the client streams, translates each of   *)
(* them to content block events at once.                                   *)
(*                                                                         *)
(* A chunk's text and each fragment of a call's arguments is a token; a    *)
(* text or the arguments of a call are a sequence of tokens.  The handler  *)
(* stops at every yield and every await, and is dropped there when its     *)
(* client goes.  pick_and_dispatch and the session behind it are the       *)
(* module Dispatch; here they are what the handler sees of them.           *)
(***************************************************************************)
EXTENDS Integers, Sequences, FiniteSets, SequencesExt

CONSTANTS
  None,
  Nodes,                     \* suppliers of the model
  Scripts,                   \* the chunk sequences a node's backend sends
  Reports,                   \* tokens_out of a Complete: None or a count
  max_retries,               \* reliability.max_retries
  MAX_AUTO_CASCADE_RETRIES   \* models a virtual request may give up on

VARIABLES
  stream,       \* BOOLEAN: the client asked for a stream
  virtual,      \* BOOLEAN: teale/auto, so another model may be resolved
  cascades,     \* models excluded so far
  pc,           \* where the handler is
  tried, excluded,
  at,           \* the attempt under way
  acc,          \* OpenAiAccumulator
  translator,   \* AnthropicStreamTranslator
  out, sent,    \* events to yield, and yielded
  settled,      \* settle_request calls: the provider and the tokens
  quarantined   \* nodes quarantined by this request

vars == <<stream, virtual, cascades, pc, tried, excluded, at, acc, translator, out,
          sent, settled, quarantined>>
request == <<stream, virtual>>
walk == <<cascades, tried, excluded, quarantined>>

-----------------------------------------------------------------------------
(* OpenAiAccumulator. *)

EmptyAcc == [text |-> << >>, tool_calls |-> << >>, finish_reason |-> None,
             usage |-> None, tokens_out |-> 0, reported_tokens |-> None]

Token(t) == IF t = None THEN << >> ELSE <<t>>

(* A call without an index counts as its position in the chunk. *)
merge_tool_calls(calls, new) ==
  LET index(i) == IF new[i].index = None THEN i - 1 ELSE new[i].index
      of(k) == SelectSeq([i \in DOMAIN new |-> [call |-> new[i], key |-> index(i)]],
                         LAMBDA e : e.key = k)
      old(k) == IF k \in DOMAIN calls THEN calls[k] ELSE [named |-> FALSE, arguments |-> << >>]
  IN [k \in DOMAIN calls \cup {index(i) : i \in DOMAIN new} |->
        [named |-> old(k).named \/ \E i \in DOMAIN of(k) : of(k)[i].call.named,
         arguments |-> FoldLeft(LAMBDA s, e : s \o Token(e.call.arguments),
                                old(k).arguments, of(k))]]

(* tool_calls of a chunk is None when the field is absent. *)
observe_chunk(a, chunk) ==
  [a EXCEPT
     !.usage = IF chunk.usage = None THEN @ ELSE chunk.usage,
     !.finish_reason = IF chunk.finish_reason = None THEN @ ELSE chunk.finish_reason,
     !.text = @ \o Token(chunk.text),
     !.tokens_out = IF chunk.in = "delta" /\ chunk.text # None THEN @ + 1 ELSE @,
     !.tool_calls = IF chunk.tool_calls = None THEN @ ELSE merge_tool_calls(@, chunk.tool_calls)]

output_tokens(a) ==
  LET n == IF a.usage # None THEN a.usage
           ELSE IF a.reported_tokens # None THEN a.reported_tokens ELSE a.tokens_out
  IN IF n > 1 THEN n ELSE 1

anthropic_stop_reason(a) ==
  CASE DOMAIN a.tool_calls # {} \/ a.finish_reason = "tool_calls" -> "tool_use"
    [] DOMAIN a.tool_calls = {} /\ a.finish_reason = "length" -> "max_tokens"
    [] OTHER -> "end_turn"

(* The buffered answer: one text block, then the calls by their index. *)
build_anthropic_message(a) ==
  [content |-> (IF a.text = << >> THEN << >> ELSE <<[type |-> "text", body |-> a.text]>>)
               \o [i \in 1..Cardinality(DOMAIN a.tool_calls) |->
                     [type |-> "tool_use",
                      body |-> a.tool_calls[SetToSortSeq(DOMAIN a.tool_calls, <)[i]].arguments]],
   stop_reason |-> anthropic_stop_reason(a),
   usage |-> output_tokens(a)]

-----------------------------------------------------------------------------
(* AnthropicStreamTranslator.  Each operator returns the translator, the   *)
(* events of the step appended to its field events.                        *)

NewTranslator == [next_content_index |-> 0, text_block_index |-> None,
                  tool_block_indexes |-> << >>, events |-> << >>]

message_start_event == [type |-> "message_start"]
BlockStart(i, kind) == [type |-> "content_block_start", index |-> i, kind |-> kind]
BlockDelta(i, kind, body) ==
  [type |-> "content_block_delta", index |-> i, kind |-> kind, body |-> body]
BlockStop(i) == [type |-> "content_block_stop", index |-> i]
anthropic_error_event == [type |-> "error"]

Says(t, events) == [t EXCEPT !.events = @ \o events]

OpenText(t) ==
  IF t.text_block_index # None THEN t
  ELSE Says([t EXCEPT !.text_block_index = t.next_content_index,
                      !.next_content_index = @ + 1],
            <<BlockStart(t.next_content_index, "text")>>)

CloseText(t) ==
  IF t.text_block_index = None THEN t
  ELSE Says([t EXCEPT !.text_block_index = None], <<BlockStop(t.text_block_index)>>)

OpenTool(t, k) ==
  Says([t EXCEPT !.tool_block_indexes = @ @@ (k :> t.next_content_index),
                 !.next_content_index = @ + 1],
       <<BlockStart(t.next_content_index, "tool_use")>>)

(* One element of delta.tool_calls: here a call without an index is call 0,*)
(* and a fragment of a call that has no block yet is addressed to block 0. *)
CallEvents(t, call, a) ==
  LET k == IF call.index = None THEN 0 ELSE call.index
      opened == IF k \notin DOMAIN t.tool_block_indexes /\ a.tool_calls[k].named
                  THEN OpenTool(t, k) ELSE t
      block == IF k \in DOMAIN opened.tool_block_indexes
                 THEN opened.tool_block_indexes[k] ELSE 0
  IN IF k \notin DOMAIN a.tool_calls THEN t
     ELSE IF call.arguments = None THEN opened
     ELSE Says(opened, <<BlockDelta(block, "tool_use", <<call.arguments>>)>>)

chunk_events_NotTaken(t, chunk, a) ==   \* the text block is stopped but not taken
  LET texted == IF chunk.in = "delta" /\ chunk.text # None
                  THEN LET o == OpenText(t)
                       IN Says(o, <<BlockDelta(o.text_block_index, "text", <<chunk.text>>)>>)
                  ELSE t
  IN IF chunk.in = "delta" /\ chunk.tool_calls # None
       THEN FoldLeft(LAMBDA s, call : CallEvents(s, call, a),
                     [CloseText(texted) EXCEPT !.text_block_index = texted.text_block_index],
                     chunk.tool_calls)
       ELSE texted

chunk_events(t, chunk, a) ==
  LET texted == IF chunk.in = "delta" /\ chunk.text # None
                  THEN LET o == OpenText(t)
                       IN Says(o, <<BlockDelta(o.text_block_index, "text", <<chunk.text>>)>>)
                  ELSE t
  IN IF chunk.in = "delta" /\ chunk.tool_calls # None
       THEN FoldLeft(LAMBDA s, call : CallEvents(s, call, a), CloseText(texted),
                     chunk.tool_calls)
       ELSE texted

FinishCall(t, k, a) ==
  LET args == a.tool_calls[k].arguments
      late == OpenTool(t, k)
      opened == IF k \in DOMAIN t.tool_block_indexes THEN t
                ELSE IF args = << >> THEN late
                ELSE Says(late, <<BlockDelta(late.tool_block_indexes[k], "tool_use", args)>>)
  IN Says(opened, <<BlockStop(opened.tool_block_indexes[k])>>)

finish_events(t, a) ==
  Says(FoldLeft(LAMBDA s, k : FinishCall(s, k, a), CloseText(t),
                SetToSortSeq(DOMAIN a.tool_calls, <)),
       <<[type |-> "message_delta", stop_reason |-> anthropic_stop_reason(a),
          usage |-> output_tokens(a)],
         [type |-> "message_stop"]>>)

-----------------------------------------------------------------------------
(* The handler. *)

NoAttempt == [node |-> None, grace |-> FALSE, beside_heavy |-> FALSE, sole |-> FALSE,
              got_first |-> FALSE, rest |-> << >>]

(* Events the translator has produced go out one yield at a time. *)
Yield(t) ==
  /\ translator' = [t EXCEPT !.events = << >>]
  /\ out' = t.events

Idle == out = << >>

YieldEvent ==
  /\ pc # "dropped"
  /\ ~Idle
  /\ sent' = Append(sent, Head(out))
  /\ out' = Tail(out)
  /\ UNCHANGED <<request, walk, pc, at, acc, translator, settled>>

(* The request fails for good.  A stream says so and ends; the buffered    *)
(* handler returns its error, on which messages() may resolve another      *)
(* model and start over.                                                   *)
Fails(cascading) ==
  IF stream
    THEN /\ out' = <<anthropic_error_event>>
         /\ pc' = "failed"
         /\ UNCHANGED <<cascades, tried, excluded, acc>>
    ELSE /\ UNCHANGED out
         /\ IF virtual /\ cascading /\ cascades < MAX_AUTO_CASCADE_RETRIES
              THEN /\ cascades' = cascades + 1
                   /\ tried' = 0
                   /\ excluded' = {}
                   /\ acc' = EmptyAcc
                   /\ pc' = "dispatch"
              ELSE /\ pc' = "failed"
                   /\ UNCHANGED <<cascades, tried, excluded, acc>>

(* pick_and_dispatch hands out a node that was not tried, or fails.        *)
(* beside_heavy and sole are read right after it.                          *)
Dispatched(n, grace, beside_heavy, sole, script) ==
  /\ pc = "dispatch"
  /\ n \notin excluded
  /\ tried' = tried + 1
  /\ at' = [node |-> n, grace |-> grace, beside_heavy |-> beside_heavy, sole |-> sole,
            got_first |-> FALSE, rest |-> script]
  /\ translator' = NewTranslator
  /\ pc' = "recv"
  /\ UNCHANGED <<request, cascades, excluded, acc, out, sent, settled, quarantined>>

NotDispatched ==
  /\ pc = "dispatch"
  /\ Fails(TRUE)
  /\ UNCHANGED <<request, quarantined, at, translator, sent, settled>>

ReceiveChunk ==
  LET chunk == Head(at.rest)
      a == observe_chunk(acc, chunk)
      t == IF at.got_first THEN translator ELSE Says(translator, <<message_start_event>>)
  IN /\ pc = "recv"
     /\ Idle
     /\ at.rest # << >>
     /\ acc' = a
     /\ at' = [at EXCEPT !.got_first = TRUE, !.rest = Tail(@)]
     /\ IF stream THEN Yield(chunk_events(t, chunk, a)) ELSE UNCHANGED <<translator, out>>
     /\ UNCHANGED <<request, walk, pc, sent, settled>>

settle_success(a) == settled' = Append(settled, [provider |-> at.node, tokens |-> output_tokens(a)])

ReceiveComplete_SettlesFirst(tokens_out) ==   \* settled before the client has the end
  LET a == [acc EXCEPT !.reported_tokens = IF tokens_out = None THEN @ ELSE tokens_out]
      t == IF at.got_first THEN translator ELSE Says(translator, <<message_start_event>>)
  IN /\ pc = "recv"
     /\ Idle
     /\ at.rest = << >>
     /\ acc' = a
     /\ settle_success(a)
     /\ IF stream THEN Yield(finish_events(t, a)) ELSE UNCHANGED <<translator, out>>
     /\ pc' = "answered"
     /\ UNCHANGED <<request, walk, at, sent>>

ReceiveComplete(tokens_out) ==
  LET a == [acc EXCEPT !.reported_tokens = IF tokens_out = None THEN @ ELSE tokens_out]
      t == IF at.got_first THEN translator ELSE Says(translator, <<message_start_event>>)
  IN /\ pc = "recv"
     /\ Idle
     /\ at.rest = << >>
     /\ acc' = a
     /\ IF stream
          THEN /\ Yield(finish_events(t, a))
               /\ pc' = "finishing"
               /\ UNCHANGED settled
          ELSE /\ settle_success(a)
               /\ pc' = "answered"
               /\ UNCHANGED <<translator, out>>
     /\ UNCHANGED <<request, walk, at, sent>>

(* After the last event the stream settles and ends. *)
StreamEnds ==
  /\ pc = "finishing"
  /\ Idle
  /\ settle_success(acc)
  /\ pc' = "answered"
  /\ UNCHANGED <<request, walk, at, acc, translator, out, sent>>

(* The session ends otherwise: an error of the backend, a disconnect, a    *)
(* closed channel or a deadline, all alike but for an error the client     *)
(* caused.  A node whose first token never came is quarantined, unless it  *)
(* was given grace, runs beside a heavy request or is the sole supplier;   *)
(* the quarantine of a repeated attempt does not ask about the last.       *)
SessionBreaks(client_error) ==
  LET retriable == ~client_error /\ ~at.got_first /\ tried <= max_retries
      first == /\ ~at.got_first /\ ~at.grace /\ ~client_error
               /\ ~at.beside_heavy /\ ~at.sole
      again == retriable /\ ~at.grace /\ ~at.beside_heavy
  IN /\ pc = "recv"
     /\ Idle
     /\ quarantined' = IF first \/ again THEN quarantined \cup {at.node} ELSE quarantined
     /\ IF retriable
          THEN /\ pc' = IF at.grace THEN "sleep" ELSE "dispatch"
               /\ excluded' = IF at.grace THEN excluded ELSE excluded \cup {at.node}
               /\ UNCHANGED <<cascades, tried, acc, out>>
          ELSE Fails(~client_error)
     /\ UNCHANGED <<request, at, translator, sent, settled>>

Wakes ==
  /\ pc = "sleep"
  /\ pc' = "dispatch"
  /\ UNCHANGED <<request, walk, at, acc, translator, out, sent, settled>>

(* The client goes: the handler is dropped where it stands. *)
ClientGoes ==
  /\ pc \in {"dispatch", "recv", "sleep", "finishing"}
  /\ pc' = "dropped"
  /\ UNCHANGED <<request, walk, at, acc, translator, out, sent, settled>>

-----------------------------------------------------------------------------
Init ==
  /\ stream \in BOOLEAN
  /\ virtual \in BOOLEAN
  /\ cascades = 0
  /\ pc = "dispatch"
  /\ tried = 0
  /\ excluded = {}
  /\ at = NoAttempt
  /\ acc = EmptyAcc
  /\ translator = NewTranslator
  /\ out = << >>
  /\ sent = << >>
  /\ settled = << >>
  /\ quarantined = {}

Next ==
  \/ YieldEvent
  \/ \E n \in Nodes, grace, beside_heavy, sole \in BOOLEAN, script \in Scripts :
       Dispatched(n, grace, beside_heavy, sole, script)
  \/ NotDispatched
  \/ ReceiveChunk
  \/ \E tokens_out \in Reports : ReceiveComplete(tokens_out)
  \/ StreamEnds
  \/ \E client_error \in BOOLEAN : SessionBreaks(client_error)
  \/ Wakes
  \/ ClientGoes

Spec == Init /\ [][Next]_vars

-----------------------------------------------------------------------------
(* What the client makes of the events. *)

Is(i, type) == sent[i].type = type
Block(i) == {j \in DOMAIN sent : sent[j].type \in {"content_block_start", "content_block_delta",
                                                   "content_block_stop"} /\ sent[j].index = i}
Blocks == {sent[j].index : j \in {j \in DOMAIN sent : Is(j, "content_block_start")}}
Starts(i) == {j \in Block(i) : Is(j, "content_block_start")}
Stops(i) == {j \in Block(i) : Is(j, "content_block_stop")}
Kind(i) == sent[CHOOSE j \in Starts(i) : TRUE].kind
Bodies(test(_)) ==
  FoldLeft(LAMBDA s, e : s \o e.body, << >>,
           SelectSeq(sent, LAMBDA e : e.type = "content_block_delta" /\ test(e)))

(* The events a client has received are those of one node's answer,        *)
(* whatever attempts failed before: message_start comes first and once,    *)
(* every delta lies between the one start of its block and the one stop,   *)
(* and is of that block's kind.  When message_stop has come it is the      *)
(* last, every block is stopped, and the blocks hold what the buffered     *)
(* answer of the same chunks would: the text in order and, one block per   *)
(* call, the calls' arguments, with the same stop reason and usage.        *)
StreamIsAnswer ==
  /\ \A j \in DOMAIN sent : Is(j, "message_start") <=> (j = 1 /\ ~Is(1, "error"))
  /\ \A j \in DOMAIN sent :
       sent[j].type \in {"content_block_delta", "content_block_stop"} =>
         sent[j].index \in Blocks
  /\ \A i \in Blocks :
       /\ Cardinality(Starts(i)) = 1 /\ Cardinality(Stops(i)) <= 1
       /\ \A j \in Block(i) :
            /\ \A s \in Starts(i) : s <= j
            /\ \A s \in Stops(i) : j <= s
            /\ Is(j, "content_block_delta") => sent[j].kind = Kind(i)
  /\ sent # << >> /\ Last(sent).type = "message_stop" =>
       LET message == build_anthropic_message(acc)
           body(i) == Bodies(LAMBDA e : e.index = i)
           tools == SelectSeq(message.content, LAMBDA c : c.type = "tool_use")
           toolBlocks == {i \in Blocks : Kind(i) = "tool_use"}
           told == sent[Len(sent) - 1]
       IN /\ \A i \in Blocks : Stops(i) # {}
          /\ Bodies(LAMBDA e : e.kind = "text") = acc.text
          /\ Cardinality(toolBlocks) = Len(tools)
          /\ \A n \in DOMAIN tools : \E i \in toolBlocks : body(i) = tools[n].body
          /\ told.stop_reason = message.stop_reason
          /\ told.usage = message.usage

(* A request is settled at most once, after its answer is complete, with   *)
(* the node whose answer it is and for the tokens its client was told.     *)
(* One that broke, failed over or lost its client before the last event    *)
(* pays nobody.                                                            *)
ChargedAsTold ==
  /\ Len(settled) <= 1
  /\ settled # << >> =>
       /\ pc = "answered"
       /\ settled[1].provider = at.node
       /\ settled[1].tokens = build_anthropic_message(acc).usage
       /\ stream => /\ Len(sent) > 1 /\ Last(sent).type = "message_stop"
                    /\ sent[Len(sent) - 1].usage = settled[1].tokens
=============================================================================
