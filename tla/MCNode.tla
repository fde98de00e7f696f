------------------------------- MODULE MCNode -------------------------------
(* What runs on a supplier's or a user's own machine, checked in one run: a  *)
(* behaviour picks one part and only that one takes steps.  The module this  *)
(* one extends is the part that serves requests: one permit, two sessions of *)
(* different consumers and a request of a private network.                   *)
EXTENDS NodeServing, TLC

CONSTANTS s1, s2, gw, other, NotText, Unparsable

VARIABLES
    part,
    backend, ready, model_id, supervisor, new_sup, process, crashes, lockq, readers,
    request, swap,
    mode, install, helper, recent, deaths, pc, pings, prompt, filtered, planner, sent,
    answer, said, buffer, out,
    disk, journal, lock, at, changes, step, base, edited, raced, edits, kills

PeerOf == [s \in Sessions |-> IF s = s2 THEN other ELSE gw]

\* w1 loads the other model, w2 loads the first one back.
Swap == INSTANCE ModelSwap WITH
    Models <- {"m1", "m2"}, FirstModel <- "m1", DinRequests <- {"r1"},
    PinRequests <- {"p1"}, Wanted <- [r1 |-> "m1", p1 |-> "m1"],
    Swaps <- {"w1", "w2"}, Target <- [w1 |-> "m2", w2 |-> "m1"], Local <- {"w2"},
    Unloads <- {"u1"}, MaxCrashes <- 1

\* Two messages with names in different places, and a secret.
first == <<"hi", "ann", "x", "bob">>
second == <<"bob", "ann", "key">>
Span(label, start, text) == [label |-> label, start |-> start, end |-> start + 1, text |-> <<text>>]
MCDetected == first :> {Span("P", 1, "ann"), Span("P", 3, "bob")}
              @@ second :> {Span("P", 0, "bob"), Span("S", 2, "key")}
              @@ <<>> :> {}

\* Answers that hold placeholders, the start of one, and one cut short.
MCAnswers == {<<"<", "P", "_", "1", ">", "x", "<", "P", "_", "2", ">">>,
              <<"<", "<", "P", "_", "2", "<", "S", "_", "1", ">">>, <<"x", "<", "P">>}

Filter == INSTANCE PrivacyFilter WITH
    Prompts <- {<<first, <<>>, second>>, <<second, NotText>>}, Detected <- MCDetected,
    Answers <- MCAnswers, MaxPings <- 2, MaxDeaths <- 1

Connect == INSTANCE AgentConnections WITH
    Harnesses <- {"opencode", "claude-code"}, Configs <- {"f", "g"},
    Originals <- ("f" :> [user |-> 0]) @@ ("g" :> None), Procs <- {1, 2},
    MaxEdits <- 1, MaxCrashes <- 1, pc <- step, crashes <- kills

swapping == <<backend, ready, model_id, supervisor, new_sup, process, crashes, lockq,
              readers, request, swap>>
filter == <<mode, install, helper, recent, deaths, pc, pings, prompt, filtered, planner,
            sent, answer, said, buffer, out>>
connect == <<disk, journal, lock, at, changes, step, base, edited, raced, edits, kills>>
parts == <<part, vars, swapping, filter, connect>>

PartsInit ==
    /\ part \in {"serving", "swap", "filter", "connect"}
    /\ Init /\ Swap!Init /\ Filter!Init /\ Connect!Init
    /\ part # "filter" => mode = "off" /\ install = "none"

PartsNext ==
    /\ UNCHANGED part
    /\ \/ part = "serving" /\ Next /\ UNCHANGED <<swapping, filter, connect>>
       \/ part = "swap" /\ Swap!Next /\ UNCHANGED <<vars, filter, connect>>
       \/ part = "filter" /\ Filter!Next /\ UNCHANGED <<vars, swapping, connect>>
       \/ part = "connect" /\ Connect!Next /\ UNCHANGED <<vars, swapping, filter>>

\* The fairness of NodeServing and of ModelSwap, for the part that takes steps.
PartsFairness ==
    /\ WF_vars(part = "serving" /\ InsertTask)
    /\ \A s \in Sessions : WF_vars(part = "serving" /\ Work(s))
    /\ \A p \in Pins : WF_vars(part = "serving" /\ PinWork(p))
    /\ \A r \in {"r1", "p1"} : WF_swapping(part = "swap" /\ Swap!Serve(r))
    /\ \A w \in {"w1", "w2"} : WF_swapping(part = "swap" /\ Swap!swap_to_path(w))
    /\ WF_swapping(part = "swap" /\ Swap!unload_current("u1"))
    /\ WF_swapping(part = "swap" /\ Swap!Spawn)
    /\ WF_swapping(part = "swap" /\ Swap!Heartbeat)

PartsSpec == PartsInit /\ [][PartsNext]_parts /\ PartsFairness

\* A request that waits for a permit stops waiting although no queue timeout
\* fires (NoStarvation of NodeServing).
WaitersServed == part = "serving" => NoStarvation

\* A swap never runs a second inference subprocess beside the old one
\* (OneSubprocess of ModelSwap).
OneSubprocess == Swap!OneSubprocess

\* Every load is answered, and once crashes are over a supervised node
\* serves and advertises its model again (LoadsAnswered and NodeRecovers of
\* ModelSwap).
SwapsEnd == part = "swap" => Swap!LoadsAnswered /\ Swap!NodeRecovers

\* What the app is given is the restored answer however it is cut, and what
\* was sent holds no detected text and can be restored (AnswerRestored and
\* PromptReversible of PrivacyFilter).
FilterReversible == Filter!AnswerRestored /\ Filter!PromptReversible

\* Through crashes and recoveries a configuration is what the user left or
\* what a connection with a receipt made of it (Reversible of
\* AgentConnections).
ConnectReversible == Connect!Reversible
=============================================================================
