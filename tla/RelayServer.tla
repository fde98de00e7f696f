---------------------------- MODULE RelayServer ----------------------------
(***************************************************************************)
(* The relay's registry of peers (relay/server.ts): which socket stands    *)
(* for which node, and what the others are told when that changes.  Each   *)
(* handler runs to its end on the event loop, so each is one action.       *)
(*                                                                         *)
(* A node reconnects on a new socket, before or after the relay notices    *)
(* that the old one is gone; a replaced socket is closed by the relay and  *)
(* its close handler runs then or at any time later.  What a client has    *)
(* been told is kept as a set, updated when a message is sent to it: a     *)
(* socket delivers in order, and sends that Bun drops are not modelled.    *)
(***************************************************************************)
CONSTANTS Nodes,
          Sockets,  \* every connection there will be
          NodeOf,   \* the node behind each socket: it registers under one id
          NoEntry

ASSUME NodeAssumption == NoEntry \notin Sockets /\ NoEntry \notin Nodes
ASSUME SocketAssumption == NodeOf \in [Sockets -> Nodes]

VARIABLES ws_state,  \* the connection, as the network and the relay have left it
          peers,     \* the socket registered for each node
          sockets,   \* the id each socket registered under
          told,      \* the peers each client has heard of
          listed     \* sockets that have had a discoverResponse

relay == <<ws_state, peers, sockets, told, listed>>

\* Every variable has its type.
RelayTypeOK ==
    /\ ws_state \in [Sockets -> {"unused", "open", "replaced", "closed"}]
    /\ peers \in [Nodes -> Sockets \cup {NoEntry}]
    /\ sockets \in [Sockets -> Nodes \cup {NoEntry}]
    /\ told \in [Sockets -> SUBSET Nodes]
    /\ listed \subseteq Sockets

RelayInit ==
    /\ ws_state = [w \in Sockets |-> "unused"]
    /\ peers = [n \in Nodes |-> NoEntry]
    /\ sockets = [w \in Sockets |-> NoEntry]
    /\ told = [w \in Sockets |-> {}]
    /\ listed = {}

Present == {n \in Nodes : peers[n] # NoEntry}

\* broadcast: the registered sockets, those of the excluded nodes left out.
Audience(except) == {w \in Sockets : \E n \in Nodes \ except : peers[n] = w}

Connect(w) ==
    /\ ws_state[w] = "unused"
    /\ ws_state' = [ws_state EXCEPT ![w] = "open"]
    /\ UNCHANGED <<peers, sockets, told, listed>>

\* The old connection of a node, closed when a newer one registers.
Replaced(n, w) == IF peers[n] \in {NoEntry, w} THEN {} ELSE {peers[n]}

Joined_OnRefreshOnly(n, w) == peers[n] = w

Joined(n, w) == peers[n] # w

handleRegister(w) ==
    LET n == NodeOf[w]
    IN  /\ ws_state[w] = "open"
        /\ peers' = [peers EXCEPT ![n] = w]
        /\ sockets' = [sockets EXCEPT ![w] = n]
        /\ ws_state' = [v \in Sockets |-> IF v \in Replaced(n, w) THEN "replaced" ELSE ws_state[v]]
        /\ told' = [v \in Sockets |->
                      IF Joined(n, w) /\ v \in Audience({n}) THEN told[v] \cup {n} ELSE told[v]]
        /\ UNCHANGED listed

\* Clients register first on every connection.
handleDiscover(w) ==
    /\ ws_state[w] = "open" /\ sockets[w] # NoEntry
    /\ told' = [told EXCEPT ![w] = Present \ {NodeOf[w]}]
    /\ listed' = listed \cup {w}
    /\ UNCHANGED <<ws_state, peers, sockets>>

\* relayOpen, relayReady, relayData, relayClose and the offers: to the target's
\* socket, or peer_not_found back to the sender.
forwardToTarget(n) == peers[n]

\* The close of a socket that was replaced must leave its node's entry alone.
Stale_Never(w) == FALSE

Stale(w) == sockets[w] = NoEntry \/ peers[sockets[w]] # w

handleClose(w) ==
    /\ ws_state[w] \in {"open", "replaced"}
    /\ ws_state' = [ws_state EXCEPT ![w] = "closed"]
    /\ sockets' = [sockets EXCEPT ![w] = NoEntry]
    /\ IF Stale(w)
       THEN UNCHANGED <<peers, told>>
       ELSE LET n == sockets[w]
            IN  /\ peers' = [peers EXCEPT ![n] = NoEntry]
                /\ told' = [v \in Sockets |->
                              IF v \in Audience({n}) THEN told[v] \ {n} ELSE told[v]]
    /\ UNCHANGED listed

RelayNext == \E w \in Sockets : Connect(w) \/ handleRegister(w) \/ handleDiscover(w) \/ handleClose(w)

RelaySpec == RelayInit /\ [][RelayNext]_relay

(***************************************************************************)
(* Properties.                                                             *)
(***************************************************************************)
\* A node whose latest registered connection is open is reachable on that
\* very connection, whenever the handlers of its older ones run; and nothing
\* is forwarded to a socket whose close was handled.
RegisteredReachable ==
    /\ \A w \in Sockets : ws_state[w] = "open" /\ sockets[w] # NoEntry
         => forwardToTarget(NodeOf[w]) = w
    /\ \A n \in Nodes : peers[n] # NoEntry => ws_state[peers[n]] = "open"

\* A registered client that has had one full list knows exactly the peers
\* there are, from the peerJoined and peerLeft that followed it: a refresh or
\* a replaced session never makes a client believe a node left, or miss one.
ToldWhoIsThere ==
    \A n \in Nodes : peers[n] \in listed => told[peers[n]] = Present \ {n}
=============================================================================
