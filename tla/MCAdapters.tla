----------------------------- MODULE MCAdapters -----------------------------
(* The other ways in and out of the gateway, checked in one run: the Messages *)
(* and Responses forms of requests and of answers, the providers that are     *)
(* asked instead of the fleet, and the usage reports of private networks.  A  *)
(* behaviour picks one part and only that one takes steps.                    *)
EXTENDS Naturals, Sequences, TLC

CONSTANT None

VARIABLES
    part,
    stream, virtual, cascades, pc, tried, excluded, at, acc, translator, out, sent,
    settled, quarantined,
    bytes_in, buf, st, done, events, seen,
    form, request, chat,
    status, menu, inner, admin, edits, bucket, req, paid, off,
    fresh, exit, meter, records, outbox, sealing, flushes, ids, standing, applied,
    counted, torn, refused, crashes

Chunk(text, calls, finish, usage) ==
    [in |-> "delta", text |-> text, tool_calls |-> calls, finish_reason |-> finish,
     usage |-> usage]
Call(k, named, args) == [index |-> k, named |-> named, arguments |-> args]

\* What a device answers: nothing; text that ends early; two calls whose pieces
\* alternate with each other and with text; calls without an index; and a whole
\* message in one piece.
MCScripts == {
    << >>,
    <<Chunk(1, None, None, None), Chunk(2, None, "length", None), Chunk(None, None, None, 3)>>,
    <<Chunk(1, <<Call(0, TRUE, None)>>, None, None),
      Chunk(None, <<Call(0, FALSE, 2), Call(1, TRUE, 3)>>, None, None),
      Chunk(4, None, None, None),
      Chunk(None, <<Call(1, FALSE, 5), Call(0, FALSE, 6)>>, "tool_calls", None)>>,
    <<Chunk(None, <<Call(None, TRUE, 1)>>, None, None), Chunk(2, << >>, None, None),
      Chunk(3, None, "stop", None)>>,
    <<[Chunk(None, <<Call(None, TRUE, 1), Call(None, TRUE, 2)>>, "tool_calls", None)
          EXCEPT !.in = "message"]>>}

Messages == INSTANCE MessageStream WITH
    Nodes <- {"n1", "n2"}, Scripts <- MCScripts, Reports <- {None, 2}, max_retries <- 1,
    MAX_AUTO_CASCADE_RETRIES <- 1

Frame(text, call, finish, usage) ==
    [kind |-> "chunk", text |-> text, call |-> call, finish |-> finish, usage |-> usage]
Done == [kind |-> "done"]
Error == [kind |-> "error"]

\* Streams of text with usage, of a call, and ones that break.
Responses == INSTANCE ResponseStream WITH
    Streams <- {
        <<Frame(1, FALSE, FALSE, None), Frame(2, FALSE, TRUE, None),
          Frame(None, FALSE, FALSE, 2), Done>>,
        <<Frame(None, TRUE, FALSE, None), Frame(None, TRUE, TRUE, None), Done>>,
        <<Frame(1, FALSE, FALSE, None), Error, Done>>,
        <<Error, Done>>, <<Error>>},
    MaxPieces <- 5, sent <- events

Upto(S, n) == UNION {[1 .. k -> S] : k \in 0 .. n}

\* Histories of two turns with up to three blocks each, in every order.
Forms == INSTANCE RequestForms WITH
    Systems <- {None, <<"text">>, <<"image">>},
    UserTurns <- Upto({"text", "tool_result"}, 3) \cup {<<"image">>},
    AgentTurns <- Upto({"text", "tool_use"}, 3) \cup {<<"tool_result">>},
    Toolsets <- {None, <<None, "custom">>, <<"server">>, <<"function", "server">>},
    ToolChoices <- {None, "any", "tool", "unknown"},
    ItemTurns <- Upto({"user", "assistant", "function_call", "function_call_output",
                       "reasoning", "image"}, 2),
    MaxTurns <- 2

Offered(price, strict) ==
    [price |-> price, quantization |-> "fp8", zdr |-> strict, deny |-> strict,
     features |-> IF strict THEN {"tools"} ELSE {}]
Preferring(order) ==
    [order |-> order, allow_fallbacks |-> TRUE, only |-> None, ignore |-> {},
     quantizations |-> None, sort |-> None, max_price |-> None, min_throughput |-> None,
     require |-> FALSE, deny |-> FALSE, zdr |-> FALSE]
Asking(preferences, suffix, streams) ==
    [provider |-> preferences, suffix |-> suffix, features |-> {"tools"}, stream |-> streams]

\* One provider that is set up and one that an admin has yet to create.
Vendors == INSTANCE Providers WITH
    Rows <- <<"p", "q">>,
    Offer <- [p |-> Offered(2, TRUE), q |-> Offered(1, FALSE)],
    Stored <- [p |-> [status |-> "active", menu |-> TRUE],
               q |-> [status |-> "absent", menu |-> FALSE]],
    Asks <- {Asking(None, None, FALSE), Asking(Preferring(<<"p">>), None, TRUE),
             Asking(Preferring(None), "throughput", FALSE)},
    Requests <- {"r1", "r2"}, Admins <- {"a1", "a2"}, MAX_SAMPLES <- 1, MaxEdits <- 2

\* A request of one private network and bytes of another, whose batches are sealed
\* together.
Usage == INSTANCE PinUsage WITH
    Pins <- {"p", "q"}, Requests <- {"r1"}, Bytes <- {"x"},
    PinOf <- [r1 |-> "q", x |-> "p"], Flapping <- {"q"}, Threshold <- 1,
    MaxCrashes <- 1, stream <- exit, status <- standing

messages == <<stream, virtual, cascades, pc, tried, excluded, at, acc, translator, out, sent,
              settled, quarantined>>
responses == <<bytes_in, buf, st, done, events, seen>>
forms == <<form, request, chat>>
vendors == <<status, menu, inner, admin, edits, bucket, req, paid, off>>
usage == <<fresh, exit, meter, records, outbox, sealing, flushes, ids, standing,
           applied, counted, torn, refused, crashes>>
vars == <<part, messages, responses, forms, vendors, usage>>

\* The parts that do not move start in one state.
Init ==
    /\ part \in {"messages", "responses", "forms", "vendors", "usage"}
    /\ Messages!Init /\ Responses!Init /\ Forms!Init /\ Vendors!Init /\ Usage!Init
    /\ part # "messages" => stream /\ virtual
    /\ part # "responses" => bytes_in = Responses!Pieces(<<Error>>)
    /\ part # "forms" => /\ form = "responses" /\ request.instructions = Forms!Prompt(None)
                         /\ request.tools = None /\ request.tool_choice = None

Next ==
    /\ UNCHANGED part
    /\ \/ part = "messages" /\ Messages!Next /\ UNCHANGED <<responses, forms, vendors, usage>>
       \/ part = "responses" /\ Responses!Next /\ UNCHANGED <<messages, forms, vendors, usage>>
       \/ part = "forms" /\ Forms!Next /\ UNCHANGED <<messages, responses, vendors, usage>>
       \/ part = "vendors" /\ Vendors!Next /\ UNCHANGED <<messages, responses, forms, usage>>
       \/ part = "usage" /\ Usage!Next /\ UNCHANGED <<messages, responses, forms, vendors>>

Spec == Init /\ [][Next]_vars

\* The events a Messages client receives are one node's answer, the same as
\* its buffered form, and the request is settled once for what the client
\* was told (StreamIsAnswer and ChargedAsTold of MessageStream).
AnswerIsOne == Messages!StreamIsAnswer /\ Messages!ChargedAsTold

\* However the bytes are cut, a Responses client receives one whole response
\* in order (ResponseIsWhole of ResponseStream).
ResponseIsWhole == Responses!ResponseIsWhole

\* Nothing of an accepted conversation is lost, doubled or moved by its
\* translation (HistoryKept of RequestForms).
HistoryKept == Forms!HistoryKept

\* A request is settled once, with the provider that served it, and one that
\* starts after a provider was disabled never asks it (PaidWhoServed and
\* DisabledIsLeft of Providers).
VendorsSound == Vendors!PaidWhoServed /\ Vendors!DisabledIsLeft

\* What a device recorded is on disk, counted by the gateway or refused, and
\* counted once unless a crash hit the seal (UsageCountedOnce of PinUsage).
UsageCountedOnce == Usage!UsageCountedOnce
=============================================================================
