--------------------------- MODULE PrivacyFilter ---------------------------
(***************************************************************************)
(* The desktop node's chat proxy (node/src/status_server.rs) and its       *)
(* privacy filter (node/src/privacy_filter.rs).  A prompt for the network  *)
(* has the spans a helper process detects replaced by placeholders; the    *)
(* answer streams back in arbitrary pieces and the placeholders in it are  *)
(* replaced by the texts they stand for before the app sees them.          *)
(*                                                                         *)
(* A text is a sequence of symbols: "<", ">", "_", the parts of a          *)
(* placeholder's name, private symbols and others.  The split of the       *)
(* response's bytes into events is ResponseStream's subject; here an event *)
(* arrives whole, except that the connection may end inside the last one.  *)
(* The helper's status shown to the app, which only reports, is left out.  *)
(***************************************************************************)
EXTENDS Integers, SequencesExt

CONSTANTS Prompts,     \* sequences of messages; a message is a text or NotText
          NotText,     \* content that is not a string, or a request with tools
          Detected,    \* the spans the helper reports for each text
          Answers,     \* what the remote model may say
          MaxPings,    \* pings after a start (12)
          MaxDeaths    \* bound: the helper's crashes

VARIABLES mode, install, helper, recent, deaths,
          pc, pings, prompt, filtered, planner, sent,
          answer, said, buffer, out

Callers == {"chat", "status"}
service == <<install, helper, recent, deaths>>
request == <<prompt, filtered, planner, sent>>
stream == <<answer, said, buffer, out>>
vars == <<mode, service, pc, pings, request, stream>>

Init ==
    /\ mode \in {"off", "auto_wan"}
    /\ install \in {"script", "url", "none"}
    /\ helper = "down" /\ recent = FALSE /\ deaths = 0
    /\ pc = [c \in Callers |-> "idle"]
    /\ pings = [c \in Callers |-> 0]
    /\ prompt = <<>> /\ filtered = <<>> /\ planner = <<>> /\ sent = <<>>
    /\ answer = <<>> /\ said = <<>> /\ buffer = <<>> /\ out = <<>>

Goto(c, label) == pc' = [pc EXCEPT ![c] = label]

(***************************************************************************)
(* Placeholders.  The planner maps <<label, text>> to its placeholder.     *)
(***************************************************************************)
placeholder_prefix(label) == <<label>>

next_index_Label(planned, label) == 1

next_index(planned, label) ==
    Cardinality({k \in DOMAIN planned : placeholder_prefix(k[1]) = placeholder_prefix(label)}) + 1

placeholder(planned, label) ==
    <<"<">> \o placeholder_prefix(label) \o <<"_", ToString(next_index(planned, label)), ">">>

\* One span: its placeholder, a new one if its label and text have none yet,
\* takes the place of its text.
replace_span(text, acc, span) ==
    LET key == <<span.label, span.text>>
        planned == IF key \in DOMAIN acc.planner THEN acc.planner
                   ELSE (key :> placeholder(acc.planner, span.label)) @@ acc.planner
    IN  IF span.start < acc.cursor \/ span.end < span.start \/ span.end > Len(text) THEN acc
        ELSE [planner |-> planned,
              result |-> acc.result \o SubSeq(text, acc.cursor + 1, span.start) \o planned[key],
              cursor |-> span.end]

replace_spans(planned, text, spans) ==
    LET before(a, b) == a.start < b.start \/ (a.start = b.start /\ a.end < b.end)
        acc == FoldLeft(LAMBDA x, span : replace_span(text, x, span),
                        [planner |-> planned, result |-> <<>>, cursor |-> 0],
                        SetToSortSeq(spans, before))
    IN  [planner |-> acc.planner, text |-> acc.result \o SubSeq(text, acc.cursor + 1, Len(text))]

placeholders == {planner[k] : k \in DOMAIN planner}
Original(p) == (CHOOSE k \in DOMAIN planner : planner[k] = p)[2]

\* Every occurrence of p in text, from the left, replaced by new.
Replaced(text, p, new) ==
    LET from[i \in 1 .. Len(text) + 1] ==
            IF i > Len(text) THEN <<>>
            ELSE IF i + Len(p) - 1 <= Len(text) /\ SubSeq(text, i, i + Len(p) - 1) = p
                 THEN new \o from[i + Len(p)]
                 ELSE <<text[i]>> \o from[i + 1]
    IN  from[1]

\* Longest placeholders first.
restore_text(text) ==
    FoldLeft(LAMBDA t, p : Replaced(t, p, Original(p)), text,
             SetToSortSeq(placeholders, LAMBDA p, q : Len(p) > Len(q)))

max_placeholder_len == CHOOSE n \in 0 .. 99 :
    /\ \A p \in placeholders : Len(p) <= n
    /\ n = 0 \/ \E p \in placeholders : Len(p) = n

holdback_length_Short(text) ==
    LET held == {n \in 1 .. Len(text) : /\ n <= max_placeholder_len - 2
                                        /\ \E p \in placeholders :
                                              IsPrefix(SubSeq(text, Len(text) - n + 1, Len(text)), p)}
    IN  IF held = {} THEN 0 ELSE CHOOSE n \in held : \A m \in held : m <= n

\* How much of the end of text may be the beginning of a placeholder.
holdback_length(text) ==
    LET held == {n \in 1 .. Len(text) : /\ n <= max_placeholder_len - 1
                                        /\ \E p \in placeholders :
                                              IsPrefix(SubSeq(text, Len(text) - n + 1, Len(text)), p)}
    IN  IF held = {} THEN 0 ELSE CHOOSE n \in held : \A m \in held : m <= n

\* Without a placeholder there is no restorer and the text passes through.
consume(text, terminal) ==
    LET whole == buffer \o text
        safe_len == Len(whole) - (IF terminal THEN 0 ELSE holdback_length(whole))
    IN  /\ buffer' = SubSeq(whole, safe_len + 1, Len(whole))
        /\ out' = out \o restore_text(SubSeq(whole, 1, safe_len))

finish == buffer' = <<>> /\ out' = out \o restore_text(buffer)

(***************************************************************************)
(* The helper process, shared by the chat and the status poll.             *)
(***************************************************************************)
HelperStarts ==
    /\ helper = "starting" /\ helper' = "ready"
    /\ UNCHANGED <<mode, install, recent, deaths, pc, pings, request, stream>>

HelperDies ==
    /\ helper # "down" /\ deaths < MaxDeaths
    /\ helper' = "down" /\ deaths' = deaths + 1
    /\ UNCHANGED <<mode, install, recent, pc, pings, request, stream>>

\* A helper somebody else runs, behind TEALE_OPF_HELPER_URL.
HelperDeployed ==
    /\ install = "url" /\ helper = "down"
    /\ helper' = "starting"
    /\ UNCHANGED <<mode, install, recent, deaths, pc, pings, request, stream>>

\* Two seconds since the last start.
SpawnPause ==
    /\ recent /\ recent' = FALSE
    /\ UNCHANGED <<mode, install, helper, deaths, pc, pings, request, stream>>

ping_health == helper = "ready"

\* Not while the last one runs, nor within two seconds of the last attempt.
spawn_helper_if_needed ==
    IF install = "url" \/ helper # "down" \/ recent
    THEN UNCHANGED <<helper, recent>>
    ELSE recent' = TRUE /\ helper' = IF install = "script" THEN "starting" ELSE helper

\* How the two callers go on when the helper is there, or is not.
Available(c) == Goto(c, IF c = "chat" THEN "redact" ELSE "idle")
Unavailable(c) == Goto(c, IF c = "chat" THEN "refused" ELSE "idle")

ensure_helper_available(c) ==
    /\ pc[c] = "ensure"
    /\ pings' = [pings EXCEPT ![c] = 0]
    /\ IF ping_health THEN Available(c) /\ UNCHANGED <<helper, recent>>
       ELSE /\ spawn_helper_if_needed
            /\ IF install = "url" \/ (install = "none" /\ ~recent)
               THEN Unavailable(c)
               ELSE Goto(c, "waiting")
    /\ UNCHANGED <<mode, install, deaths, request, stream>>

\* Another ping, 250 ms after the last.
Ping(c) ==
    /\ pc[c] = "waiting"
    /\ pings' = [pings EXCEPT ![c] = IF ping_health THEN 0 ELSE @ + 1]
    /\ IF ping_health THEN Available(c)
       ELSE IF pings[c] + 1 = MaxPings THEN Unavailable(c)
       ELSE UNCHANGED pc
    /\ UNCHANGED <<mode, service, request, stream>>

filters_remote == mode # "off"

\* The app's poll; it too starts the helper, unless the filter is off.
status ==
    /\ pc["status"] = "idle"
    /\ filters_remote
    /\ Goto("status", "ensure")
    /\ UNCHANGED <<mode, service, pings, request, stream>>

set_privacy_filter_mode ==
    /\ mode' \in {"off", "auto_wan"} \ {mode}
    /\ UNCHANGED <<service, pc, pings, request, stream>>

(***************************************************************************)
(* proxy_chat_completion.                                                  *)
(***************************************************************************)
Supported(messages) == NotText \notin Range(messages)

\* Local chat goes to the loaded model as it is; so does network chat when
\* the filter is off.
proxy_chat_completion ==
    /\ pc["chat"] = "idle" /\ prompt = <<>>
    /\ prompt' \in Prompts
    /\ \E provider \in {"local", "network"} :
          IF provider = "local" \/ ~filters_remote
          THEN Goto("chat", "post") /\ filtered' = prompt'
          ELSE Goto("chat", IF Supported(prompt') THEN "ensure" ELSE "refused") /\ filtered' = <<>>
    /\ UNCHANGED <<mode, service, pings, planner, sent, stream>>

redact_spans(text) == replace_spans(planner, text, Detected[text])

\* prepare_request's loop, one message at a time; the helper may not answer.
prepare_message ==
    /\ pc["chat"] = "redact" /\ Len(filtered) < Len(prompt)
    /\ LET text == prompt[Len(filtered) + 1]
           redacted == redact_spans(text)
       IN  \/ /\ ping_health \/ text = <<>>
              /\ filtered' = Append(filtered, redacted.text)
              /\ planner' = redacted.planner
              /\ UNCHANGED pc
           \/ Goto("chat", "refused") /\ UNCHANGED <<filtered, planner>>
    /\ UNCHANGED <<mode, service, pings, prompt, sent, stream>>

\* The upstream answers, or refuses.
post ==
    /\ pc["chat"] = "post" \/ (pc["chat"] = "redact" /\ Len(filtered) = Len(prompt))
    /\ sent' = filtered
    /\ \/ Goto("chat", "streaming") /\ answer' \in Answers
       \/ Goto("chat", "refused") /\ UNCHANGED answer
    /\ UNCHANGED <<mode, service, pings, prompt, filtered, planner, said, buffer, out>>

(***************************************************************************)
(* write_sse_response, one event at a time.                                *)
(***************************************************************************)
Streaming == pc["chat"] = "streaming"
Rest == SubSeq(answer, Len(said) + 1, Len(answer))

\* An event with a delta; its text may be empty, the last may be terminal.
restore_stream_payload ==
    /\ Streaming
    /\ \E n \in 0 .. Len(Rest), terminal \in BOOLEAN :
          /\ terminal => n = Len(Rest)
          /\ n = 0 => terminal
          /\ said' = said \o SubSeq(Rest, 1, n)
          /\ consume(SubSeq(Rest, 1, n), terminal)
    /\ UNCHANGED <<mode, service, pc, pings, request, answer>>

\* [DONE], or the upstream ends after a whole event.
Finished ==
    /\ Streaming /\ finish /\ Goto("chat", "ended")
    /\ UNCHANGED <<mode, service, pings, request, answer, said>>

\* The upstream ends without the blank line after its last event.
LastEventOpen ==
    /\ Streaming /\ Rest # <<>>
    /\ said' = answer /\ consume(Rest, FALSE) /\ Goto("chat", "cut")
    /\ UNCHANGED <<mode, service, pings, request, answer>>

\* A read from the upstream or a write to the app fails.
StreamFails ==
    /\ Streaming /\ Goto("chat", "cut")
    /\ UNCHANGED <<mode, service, pings, request, stream>>

Helper == HelperStarts \/ HelperDies \/ HelperDeployed \/ SpawnPause
Chat ==
    \/ proxy_chat_completion \/ prepare_message \/ post
    \/ restore_stream_payload \/ Finished \/ LastEventOpen \/ StreamFails

Next ==
    \/ Helper \/ Chat \/ status \/ set_privacy_filter_mode
    \/ \E c \in Callers : ensure_helper_available(c) \/ Ping(c)

Spec == Init /\ [][Next]_vars

\* However the answer is cut into pieces, what the app was given and what is
\* held back are together the restored answer, and a stream that ends whole
\* holds nothing back (consume, holdback_length, finish).
AnswerRestored ==
    /\ out \o restore_text(buffer) = restore_text(said)
    /\ pc["chat"] = "ended" => buffer = <<>>

\* What was sent of a filtered prompt says the same once restored, and none of
\* the texts the helper detected is in it: two different texts never share a
\* placeholder, across all messages, and no message is sent unfiltered because
\* the helper failed half way (PlaceholderPlanner, prepare_request).
PromptReversible ==
    (planner # <<>> /\ sent # <<>>) =>
        /\ Len(sent) = Len(prompt)
        /\ \A i \in 1 .. Len(sent) :
              /\ restore_text(sent[i]) = prompt[i]
              /\ \A span \in Detected[prompt[i]] :
                    \A k \in 1 .. Len(sent[i]) - Len(span.text) + 1 :
                        SubSeq(sent[i], k, k + Len(span.text) - 1) # span.text
=============================================================================
