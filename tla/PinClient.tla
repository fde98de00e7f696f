----------------------------- MODULE PinClient -----------------------------
(***************************************************************************)
(* The demand side of a private network: node/src/pin/client.rs runs one   *)
(* completion on some member's device, chosen by the gateway when it can   *)
(* be reached and from the cached netmaps when it cannot, cascading over   *)
(* providers that cannot be dialled; handle_pin_chat hands the stream to   *)
(* the local app.                                                          *)
(*                                                                         *)
(* Peer connections are UDP (PinTransport): a message may be lost or       *)
(* overtaken, and is delivered at most once.                               *)
(***************************************************************************)
EXTENDS Naturals, FiniteSets, Sequences, SequencesExt

CONSTANTS Networks,      \* number of networks, visited 1, 2, ...
          Peers,         \* the other members' devices
          Listings,      \* who the netmaps may list as serving: subsets of [Nets -> SUBSET Peers]
          Endpoints,     \* [Peers -> Seq({"lan", "reflexive", "other"})], as advertised
          Chunks,        \* chunks of a whole answer
          MaxChanges,    \* bound: changes of the cached and the live membership
          MAX_ATTEMPTS,  \* client.rs: 3
          None

Nets == 1 .. Networks
Over == Chunks + 1   \* a provider that has sent its last message

VARIABLES netmap,    \* cached: the members each netmap lists, of networks that are active
          lists,     \* cached: the members it lists as serving the model
          eligible,  \* the gateway's live view of the same
          changes,
          client,    \* where pin_completion is
          tried,     \* the providers attempted, in order
          wire,      \* messages in flight
          run,       \* each provider's side: 0..Chunks sent, or over
          got,       \* chunks handed to the app
          end        \* what end_tx told it

members == <<netmap, lists, eligible, changes>>
stream == <<wire, run, got, end>>
vars == <<members, client, tried, stream>>

TypeOK ==
    /\ netmap \in [Nets -> SUBSET Peers] /\ lists \in [Nets -> SUBSET Peers]
    /\ eligible \in [Nets -> SUBSET Peers] /\ changes \in 0 .. MaxChanges
    /\ client.pc \in {"pick", "dial", "stream", "ended", "failed"}
    /\ Len(tried) <= MAX_ATTEMPTS
    /\ run \in [Peers -> (0 .. Over) \cup {None}]
    /\ end \in {None, "complete", "error"}

Pick(view) == [pc |-> "pick", net |-> 1, view |-> view, provider |-> None, ladder |-> <<>>]

Init ==
    /\ netmap = [n \in Nets |-> Peers]
    /\ lists \in Listings
    /\ eligible = lists
    /\ changes = 0
    /\ client = Pick(netmap)
    /\ tried = <<>>
    /\ wire = {}
    /\ run = [p \in Peers |-> None]
    /\ got = <<>>
    /\ end = None

\* A sync brings a new netmap (or prunes a network), or members come and go at
\* the gateway.
Sync(n) ==
    /\ changes < MaxChanges
    /\ changes' = changes + 1
    /\ \/ \E ms \in SUBSET Peers : netmap' = [netmap EXCEPT ![n] = ms] /\ lists' = [lists EXCEPT ![n] = ms]
          /\ UNCHANGED eligible
       \/ \E ms \in SUBSET Peers : eligible' = [eligible EXCEPT ![n] = ms]
          /\ UNCHANGED <<netmap, lists>>
    /\ UNCHANGED <<client, tried, stream>>

(***************************************************************************)
(* next_candidate.                                                         *)
(***************************************************************************)
\* attempt's dial ladder: lan endpoints first, then reflexive ones.
Ladder(p) ==
    SelectSeq(Endpoints[p], LAMBDA e : e = "lan") \o SelectSeq(Endpoints[p], LAMBDA e : e = "reflexive")

Attempt(p) ==
    /\ tried' = Append(tried, p)
    /\ client' = [client EXCEPT !.pc = "dial", !.provider = p, !.ladder = Ladder(p)]

\* The gateway picks a live member that is not excluded; it is dialled if the
\* snapshot of that network's netmap, taken before the calls, knows it.
schedule_NoExclude(n) ==
    /\ client.pc = "pick" /\ client.net = n
    /\ \E p \in eligible[n] :
           IF p \in client.view[n] THEN Attempt(p)
           ELSE client' = [client EXCEPT !.net = n + 1] /\ UNCHANGED tried
    /\ UNCHANGED <<members, stream>>

schedule(n) ==
    /\ client.pc = "pick" /\ client.net = n
    /\ \E p \in eligible[n] \ Range(tried) :
           IF p \in client.view[n] THEN Attempt(p)
           ELSE client' = [client EXCEPT !.net = n + 1] /\ UNCHANGED tried
    /\ UNCHANGED <<members, stream>>

\* The gateway cannot be reached, or has no eligible device.
NotScheduled(n) ==
    /\ client.pc = "pick" /\ client.net = n
    /\ client' = [client EXCEPT !.net = n + 1]
    /\ UNCHANGED <<members, tried, stream>>

\* The cached netmaps as they are by now, in no particular order.
serving_peers_for_model == UNION {lists[n] : n \in Nets} \ Range(tried)

Fallback_GivesUp ==
    /\ client.pc = "pick" /\ client.net > Networks
    /\ IF tried # <<>> \/ serving_peers_for_model = {}
       THEN client' = [client EXCEPT !.pc = "failed"] /\ UNCHANGED tried
       ELSE \E p \in serving_peers_for_model : Attempt(p)
    /\ UNCHANGED <<members, stream>>

Fallback ==
    /\ client.pc = "pick" /\ client.net > Networks
    /\ IF serving_peers_for_model = {}
       THEN client' = [client EXCEPT !.pc = "failed"] /\ UNCHANGED tried
       ELSE \E p \in serving_peers_for_model : Attempt(p)
    /\ UNCHANGED <<members, stream>>

(***************************************************************************)
(* attempt: dial, send, and forward what comes back.                       *)
(***************************************************************************)
\* No endpoint answered: on to the next provider, or the last error.
Cascade ==
    client' = IF Len(tried) = MAX_ATTEMPTS THEN [client EXCEPT !.pc = "failed"] ELSE Pick(netmap)

DialFails ==
    /\ client.pc = "dial"
    /\ IF Len(client.ladder) > 1
       THEN client' = [client EXCEPT !.ladder = Tail(@)]
       ELSE Cascade
    /\ UNCHANGED <<members, tried, stream>>

\* The request is sent once the handshake is through, and the caller has its
\* stream from then on.
DialSends ==
    /\ client.pc = "dial"
    /\ client.ladder # <<>>
    /\ wire' = wire \cup {[to |-> client.provider, what |-> "request", n |-> 0]}
    /\ client' = [client EXCEPT !.pc = "stream"]
    /\ UNCHANGED <<members, tried, run, got, end>>

\* serve_peer starts handle_request.
serve_peer(m) ==
    /\ m \in wire /\ m.what = "request"
    /\ wire' = wire \ {m}
    /\ run' = [run EXCEPT ![m.to] = 0]
    /\ UNCHANGED <<members, client, tried, got, end>>

\* The provider's side sends a chunk, then completes; or it answers an error.
handle_request(p) ==
    /\ run[p] \in 0 .. Chunks
    /\ \/ /\ run[p] < Chunks
          /\ wire' = wire \cup {[to |-> None, what |-> "chunk", n |-> run[p] + 1]}
          /\ run' = [run EXCEPT ![p] = @ + 1]
       \/ /\ wire' = wire \cup {[to |-> None, what |-> IF run[p] = Chunks THEN "complete" ELSE "error", n |-> 0]}
          /\ run' = [run EXCEPT ![p] = Over]
    /\ UNCHANGED <<members, client, tried, got, end>>

Lost(m) ==
    /\ wire' = wire \ {m}
    /\ UNCHANGED <<members, client, tried, run, got, end>>

\* The forwarding task: chunks to the app, then how it ended.
recv(m) ==
    /\ client.pc = "stream" /\ m.to = None
    /\ wire' = wire \ {m}
    /\ IF m.what = "chunk"
       THEN got' = Append(got, m.n) /\ UNCHANGED <<client, end>>
       ELSE end' = m.what /\ client' = [client EXCEPT !.pc = "ended"] /\ UNCHANGED got
    /\ UNCHANGED <<members, tried, run>>

\* handle_pin_chat's client hung up: the next chunk finds no receiver.
HangUp(m) ==
    /\ client.pc = "stream" /\ m.what = "chunk"
    /\ wire' = wire \ {m}
    /\ client' = [client EXCEPT !.pc = "ended"]
    /\ UNCHANGED <<members, tried, run, got, end>>

Next ==
    \/ \E n \in Nets : Sync(n) \/ schedule(n) \/ NotScheduled(n)
    \/ Fallback \/ DialFails \/ DialSends
    \/ \E p \in Peers : handle_request(p)
    \/ \E m \in wire : serve_peer(m) \/ Lost(m) \/ recv(m) \/ HangUp(m)

Spec == Init /\ [][Next]_vars

(***************************************************************************)
(* What holds.                                                             *)
(***************************************************************************)
\* However the gateway's choices, the cached netmaps and failed dials
\* interleave, no provider is attempted twice, at most one runs the prompt,
\* and what the app is told ended well did run to its end.
OneProviderRuns ==
    /\ IsInjective(tried)
    /\ Cardinality({p \in Peers : run[p] # None}) <= 1
    /\ end = "complete" => \E p \in Peers : run[p] = Over

\* While membership stands still, a request is only given up after
\* MAX_ATTEMPTS providers or after every provider the cached netmaps list.
EveryPeerTried ==
    client.pc = "failed" /\ changes = 0 =>
        Len(tried) = MAX_ATTEMPTS \/ UNION {lists[n] : n \in Nets} \subseteq Range(tried)

=============================================================================
