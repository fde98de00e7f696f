---------------------------- MODULE RequestForms ----------------------------
(***************************************************************************)
(* The request translations: an Anthropic conversation                     *)
(* (handlers/messages.rs, anthropic_to_openai) and a Responses input       *)
(* (handlers/responses.rs, translate_request) to the chat messages the     *)
(* inference path works on.  A client resends its whole conversation with  *)
(* each turn; every turn is translated anew.                               *)
(*                                                                         *)
(* A block or an item is a type and a mark that tells it from the others;  *)
(* a chat message is its role, the marks of its joined text and the marks  *)
(* of its calls, or the mark of the call it answers.                       *)
(***************************************************************************)
EXTENDS Integers, Sequences, FiniteSets, SequencesExt

CONSTANTS
  None,
  Systems,      \* the system prompts: None or a sequence of block types
  UserTurns,    \* contents of a user message, as sequences of block types
  AgentTurns,   \* contents of an assistant message
  Toolsets,     \* None, or the types of the tools offered
  ToolChoices,  \* tool_choice types, None among them
  ItemTurns,    \* one turn's Responses items, as sequences of item types
  MaxTurns      \* bound: turns of a conversation

VARIABLES
  form,         \* "anthropic" or "responses"
  request,      \* what the client sends this turn
  chat          \* what translating it gives: "refused" or the chat request

vars == <<form, request, chat>>

Refused == [refused |-> TRUE]
Message(role, text, calls, answers) ==
  [role |-> role, text |-> text, calls |-> calls, answers |-> answers]

Marks(blocks) == [i \in DOMAIN blocks |-> blocks[i].mark]
OfType(blocks, type) == SelectSeq(blocks, LAMBDA b : b.type = type)
Types(blocks) == {blocks[i].type : i \in DOMAIN blocks}

-----------------------------------------------------------------------------
(* handlers/messages.rs *)

text_from_system(system) ==
  IF system = None \/ system = << >> THEN << >>
  ELSE <<Message("system", Marks(system), << >>, None)>>

(* A user message is split at its tool results: the texts gathered so far  *)
(* become a message of their own before each of them.                      *)
Flush(s) ==
  IF s.text_parts = << >> THEN s.messages
  ELSE Append(s.messages, Message("user", s.text_parts, << >>, None))

append_user_message_NoFlush(blocks) ==   \* the texts are kept for the end
  LET step(s, b) ==
        IF b.type = "text" THEN [s EXCEPT !.text_parts = Append(@, b.mark)]
        ELSE [s EXCEPT !.messages = Append(@, Message("tool", << >>, << >>, b.mark))]
  IN Flush(FoldLeft(step, [messages |-> << >>, text_parts |-> << >>], blocks))

append_user_message(blocks) ==
  LET step(s, b) ==
        IF b.type = "text" THEN [s EXCEPT !.text_parts = Append(@, b.mark)]
        ELSE [messages |-> Append(Flush(s), Message("tool", << >>, << >>, b.mark)),
              text_parts |-> << >>]
  IN Flush(FoldLeft(step, [messages |-> << >>, text_parts |-> << >>], blocks))

append_assistant_message(blocks) ==
  <<Message("assistant", Marks(OfType(blocks, "text")), Marks(OfType(blocks, "tool_use")), None)>>

Accepts(role) == IF role = "user" THEN {"text", "tool_result"} ELSE {"text", "tool_use"}

(* Server tools are refused; a tool without a type is a custom one. *)
convert_tools(tools) == tools = None \/ \A i \in DOMAIN tools : tools[i] \in {None, "custom"}

convert_tool_choice(choice) ==
  CASE choice = None -> None
    [] choice = "any" -> "required"
    [] choice = "tool" -> "function"
    [] OTHER -> choice

anthropic_to_openai(req) ==
  LET supported == /\ req.system # None => Types(req.system) \subseteq {"text"}
                   /\ \A i \in DOMAIN req.messages :
                        Types(req.messages[i].content) \subseteq Accepts(req.messages[i].role)
                   /\ convert_tools(req.tools)
                   /\ req.tool_choice \in {None, "auto", "any", "none", "tool"}
      part(m) == IF m.role = "user" THEN append_user_message(m.content)
                 ELSE append_assistant_message(m.content)
  IN IF ~supported THEN Refused
     ELSE [messages |-> text_from_system(req.system)
                        \o FlattenSeq([i \in DOMAIN req.messages |-> part(req.messages[i])]),
           tools |-> req.tools,
           tool_choice |-> convert_tool_choice(req.tool_choice)]

-----------------------------------------------------------------------------
(* handlers/responses.rs: an item is one message, or nothing. *)

translate_input_item(item) ==
  CASE item.type \in {"user", "assistant"} ->
         <<Message(item.type, <<item.mark>>, << >>, None)>>
    [] item.type = "function_call" -> <<Message("assistant", << >>, <<item.mark>>, None)>>
    [] item.type = "function_call_output" -> <<Message("tool", << >>, << >>, item.mark)>>
    [] OTHER -> << >>

translate_request(req) ==
  LET messages == text_from_system(req.instructions)
                  \o FlattenSeq([i \in DOMAIN req.input |-> translate_input_item(req.input[i])])
      offered == IF req.tools = None THEN << >>
                 ELSE SelectSeq(req.tools, LAMBDA t : t = "function")
  IN IF messages = << >> \/ "image" \in Types(req.input) THEN Refused
     ELSE [messages |-> messages,
           tools |-> IF offered = << >> THEN None ELSE offered,
           tool_choice |-> IF offered = << >> THEN None ELSE req.tool_choice]

-----------------------------------------------------------------------------
(* A turn's blocks carry marks that no other turn's have. *)
Marked(types, turn) == [i \in DOMAIN types |-> [type |-> types[i], mark |-> <<turn, i>>]]
Prompt(system) == IF system = None THEN None ELSE Marked(system, 0)

Init ==
  \/ /\ form = "anthropic"
     /\ \E system \in Systems, tools \in Toolsets, choice \in ToolChoices :
          request = [system |-> Prompt(system), messages |-> << >>, tools |-> tools,
                     tool_choice |-> choice]
     /\ chat = anthropic_to_openai(request)
  \/ /\ form = "responses"
     /\ \E system \in Systems, tools \in Toolsets, choice \in ToolChoices :
          /\ system # None => \A i \in DOMAIN system : system[i] = "text"
          /\ request = [instructions |-> Prompt(system), input |-> << >>, tools |-> tools,
                        tool_choice |-> choice]
     /\ chat = translate_request(request)

messages(role, types) ==
  /\ form = "anthropic"
  /\ Len(request.messages) < MaxTurns
  /\ request' = [request EXCEPT !.messages =
                   Append(@, [role |-> role, content |-> Marked(types, Len(@) + 1)])]
  /\ chat' = anthropic_to_openai(request')
  /\ UNCHANGED form

responses(types) ==
  /\ form = "responses"
  /\ Len(request.input) < MaxTurns
  /\ request' = [request EXCEPT !.input = @ \o Marked(types, Len(@) + 1)]
  /\ chat' = translate_request(request')
  /\ UNCHANGED form

Next ==
  \/ \E types \in UserTurns : messages("user", types)
  \/ \E types \in AgentTurns : messages("assistant", types)
  \/ \E types \in ItemTurns : responses(types)

Spec == Init /\ [][Next]_vars

-----------------------------------------------------------------------------
(* What a conversation says, mark by mark: in the client's form and in the *)
(* translation.                                                            *)
Said(m) == m.text \o m.calls \o (IF m.answers = None THEN << >> ELSE <<m.answers>>)
SaidByTurn(m) ==
  IF m.role = "user" THEN Marks(m.content)
  ELSE Marks(OfType(m.content, "text")) \o Marks(OfType(m.content, "tool_use"))
Dropped == {"reasoning", "other"}

(* Nothing of a conversation that is accepted is lost, doubled or moved by *)
(* its translation: the marks come out in the client's order, save that an *)
(* assistant's texts go before its calls and that reasoning and unknown    *)
(* items are left out; a tool result is a message of its own, between the  *)
(* texts it stood between.                                                 *)
HistoryKept ==
  chat # Refused =>
    LET out == chat.messages
        prompt(s) == IF s = None THEN << >> ELSE Marks(s)
    IN /\ FlattenSeq([i \in DOMAIN out |-> Said(out[i])]) =
            IF form = "anthropic"
              THEN prompt(request.system)
                   \o FlattenSeq([i \in DOMAIN request.messages |->
                                    SaidByTurn(request.messages[i])])
              ELSE prompt(request.instructions)
                   \o Marks(SelectSeq(request.input, LAMBDA x : x.type \notin Dropped))
       /\ \A i \in DOMAIN out :
            out[i].answers # None <=> (out[i].role = "tool" /\ out[i].text = << >>)
=============================================================================
