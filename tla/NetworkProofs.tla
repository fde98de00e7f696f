---------------------------- MODULE NetworkProofs ----------------------------
(***************************************************************************)
(* The two networks a device is part of.                                   *)
(*                                                                         *)
(* The relay, for any nodes and any number of reconnections: it reaches a  *)
(* registered node on its latest connection, and its clients know who is   *)
(* there.  The invariant adds to the two properties how the three tables   *)
(* of the relay agree.                                                     *)
(*                                                                         *)
(* A private network: GenerationTellsMembership for any devices, accounts, *)
(* tasks' steps and bounds.  It rests on the generations some netmap has   *)
(* never being ahead of the gateway's: a write that bumps leaves every     *)
(* netmap behind, and a write that does not bump leaves the listed members *)
(* as they are.                                                            *)
(***************************************************************************)
EXTENDS PinNetwork, RelayServer, Integers, TLAPS

-----------------------------------------------------------------------------
(* The relay.                                                              *)

\* A socket is registered under its node's id or not at all, and a node's
\* entry names a socket registered under its id.
TablesAgree ==
    /\ \A w \in Sockets : sockets[w] # NoEntry => sockets[w] = NodeOf[w] /\ ws_state[w] # "unused"
    /\ \A n \in Nodes : peers[n] # NoEntry => sockets[peers[n]] = n

\* A list is answered to registered sockets only, which stay registered while open.
ListedRegistered ==
    \A w \in listed : ws_state[w] # "unused" /\ (ws_state[w] = "open" => sockets[w] # NoEntry)

RelayIInv == RelayTypeOK /\ TablesAgree /\ ListedRegistered /\ RegisteredReachable /\ ToldWhoIsThere

\* With no connection yet, every table of the relay is empty.
LEMMA RelayInitIInv == RelayInit => RelayIInv
  BY NodeAssumption, SocketAssumption, Zenon
  DEF RelayInit, RelayIInv, RelayTypeOK, TablesAgree, ListedRegistered, RegisteredReachable, ToldWhoIsThere,
      Present, forwardToTarget

\* In a state of the invariant, a node's entry is a socket of that node.
LEMMA EntryOfNode ==
    ASSUME RelayTypeOK, TablesAgree, NEW n \in Nodes, peers[n] # NoEntry
    PROVE  peers[n] \in Sockets /\ NodeOf[peers[n]] = n
  BY NodeAssumption, SocketAssumption DEF RelayTypeOK, TablesAgree

\* A new connection is in no table.
LEMMA ConnectIInv == ASSUME RelayIInv, NEW w \in Sockets, Connect(w) PROVE RelayIInv'
<1> USE NodeAssumption, SocketAssumption
<1>1. RelayTypeOK' /\ TablesAgree'
  BY Zenon DEF RelayIInv, Connect, RelayTypeOK, TablesAgree
<1>2. sockets[w] = NoEntry /\ w \notin listed
  BY Zenon DEF RelayIInv, Connect, RelayTypeOK, TablesAgree, ListedRegistered
<1>3. ListedRegistered' /\ RegisteredReachable'
  BY <1>2, EntryOfNode DEF RelayIInv, Connect, RelayTypeOK, ListedRegistered, RegisteredReachable, forwardToTarget
<1>4. ToldWhoIsThere'
  BY Zenon DEF RelayIInv, Connect, ToldWhoIsThere, Present
<1> QED BY <1>1, <1>3, <1>4, Zenon DEF RelayIInv

\* A registration takes the node's entry over from the connection it replaces,
\* and announces the node to the clients that did not have it.
LEMMA RegisterIInv == ASSUME RelayIInv, NEW w \in Sockets, handleRegister(w) PROVE RelayIInv'
<1> USE NodeAssumption, SocketAssumption
<1> DEFINE n == NodeOf[w]
<1>1. n \in Nodes /\ ws_state[w] = "open"
  BY Zenon DEF handleRegister
<1>2. \A v \in Replaced(n, w) : v \in Sockets /\ v # w /\ NodeOf[v] = n /\ peers[n] = v
  BY <1>1, EntryOfNode, Zenon DEF RelayIInv, Replaced
<1>3. RelayTypeOK'
  <2>1. \A v \in Sockets : told[v] \cup {n} \in SUBSET Nodes
    BY <1>1, Zenon DEF RelayIInv, RelayTypeOK
  <2> QED BY <1>1, <2>1, Zenon DEF RelayIInv, RelayTypeOK, handleRegister
<1>4. TablesAgree'
  <2>1. \A v \in Sockets : sockets'[v] # NoEntry => sockets'[v] = NodeOf[v] /\ ws_state'[v] # "unused"
    BY <1>1, Zenon DEF RelayIInv, RelayTypeOK, TablesAgree, handleRegister
  <2>2. \A m \in Nodes : peers'[m] # NoEntry => sockets'[peers'[m]] = m
    BY <1>1, EntryOfNode DEF RelayIInv, RelayTypeOK, TablesAgree, handleRegister
  <2> QED BY <2>1, <2>2, Zenon DEF TablesAgree
<1>5. ListedRegistered'
  BY <1>1, Zenon DEF RelayIInv, RelayTypeOK, ListedRegistered, handleRegister
<1>6. RegisteredReachable'
  <2>1. ASSUME NEW v \in Sockets, ws_state'[v] = "open", sockets'[v] # NoEntry
        PROVE  peers'[NodeOf[v]] = v
    <3>1. v \notin Replaced(n, w) /\ ws_state[v] = "open"
      BY <2>1, Zenon DEF RelayIInv, RelayTypeOK, handleRegister
    <3>2. CASE v = w
      BY <3>2, <1>1, Zenon DEF RelayIInv, RelayTypeOK, handleRegister
    <3>3. CASE v # w
      <4>1. peers[NodeOf[v]] = v
        BY <3>1, <3>3, <2>1, Zenon DEF RelayIInv, RelayTypeOK, RegisteredReachable, forwardToTarget, handleRegister
      <4>2. NodeOf[v] # n
        BY <4>1, <3>1, <3>3, Zenon DEF Replaced
      <4> QED BY <4>1, <4>2, Zenon DEF RelayIInv, RelayTypeOK, handleRegister
    <3> QED BY <3>2, <3>3, Zenon
  <2>2. ASSUME NEW m \in Nodes, peers'[m] # NoEntry
        PROVE  ws_state'[peers'[m]] = "open"
    <3>1. CASE m = n
      BY <3>1, <1>1, <1>2, Zenon DEF RelayIInv, RelayTypeOK, handleRegister
    <3>2. CASE m # n
      <4>1. peers'[m] = peers[m] /\ peers[m] \in Sockets /\ NodeOf[peers[m]] = m
        BY <3>2, <2>2, EntryOfNode, Zenon DEF RelayIInv, RelayTypeOK, handleRegister
      <4>2. peers[m] \notin Replaced(n, w)
        BY <4>1, <3>2, <1>2, Zenon
      <4> QED BY <4>1, <4>2, <2>2, Zenon DEF RelayIInv, RelayTypeOK, RegisteredReachable, handleRegister
    <3> QED BY <3>1, <3>2, Zenon
  <2> QED BY <2>1, <2>2, Zenon DEF RegisteredReachable, forwardToTarget
<1>7. ToldWhoIsThere'
  <2> SUFFICES ASSUME NEW m \in Nodes, peers'[m] \in listed'
               PROVE  told'[peers'[m]] = Present' \ {m}
    BY Zenon DEF ToldWhoIsThere
  <2>1. Present' = Present \cup {n}
    BY <1>1 DEF RelayIInv, RelayTypeOK, Present, handleRegister
  <2>2. CASE m # n
    <3>1. peers'[m] = peers[m] /\ peers[m] \in Sockets /\ peers[m] \in listed
      BY <2>2, Zenon DEF RelayIInv, RelayTypeOK, handleRegister
    <3>2. told[peers[m]] = Present \ {m}
      BY <3>1, Zenon DEF RelayIInv, ToldWhoIsThere
    <3>3. peers[m] \in Audience({n})
      BY <2>2, <3>1, Zenon DEF Audience
    <3>4. CASE Joined(n, w)
      <4>1. told'[peers[m]] = told[peers[m]] \cup {n}
        BY <3>1, <3>3, <3>4, Zenon DEF handleRegister
      <4> QED BY <4>1, <3>1, <3>2, <2>1, <2>2, Zenon
    <3>5. CASE ~Joined(n, w)
      <4>1. told'[peers[m]] = told[peers[m]] /\ n \in Present
        BY <3>1, <3>5, <1>1, Zenon DEF handleRegister, Joined, Present
      <4> QED BY <4>1, <3>1, <3>2, <2>1, <2>2, Zenon
    <3> QED BY <3>4, <3>5, Zenon
  <2>3. CASE m = n
    <3>1. peers'[m] = w /\ w \in listed
      BY <2>3, <1>1, Zenon DEF RelayIInv, RelayTypeOK, handleRegister
    <3>2. peers[n] = w
      BY <3>1, <1>1, Zenon DEF RelayIInv, ListedRegistered, RegisteredReachable, forwardToTarget
    <3>3. told'[w] = told[w] /\ n \in Present
      BY <3>2, <1>1, Zenon DEF handleRegister, Joined, Present
    <3>4. told[w] = Present \ {n}
      BY <3>1, <3>2, <1>1, Zenon DEF RelayIInv, ToldWhoIsThere
    <3> QED BY <3>1, <3>3, <3>4, <2>1, <2>3, Zenon
  <2> QED BY <2>2, <2>3, Zenon
<1> QED BY <1>3, <1>4, <1>5, <1>6, <1>7, Zenon DEF RelayIInv

\* A list replaces what its client was told and touches no table.
LEMMA DiscoverIInv == ASSUME RelayIInv, NEW w \in Sockets, handleDiscover(w) PROVE RelayIInv'
<1> USE NodeAssumption, SocketAssumption
<1>1. RelayTypeOK' /\ TablesAgree' /\ ListedRegistered' /\ RegisteredReachable'
  BY Zenon DEF RelayIInv, RelayTypeOK, TablesAgree, ListedRegistered, RegisteredReachable, forwardToTarget,
         Present, handleDiscover
<1>2. ToldWhoIsThere'
  <2> SUFFICES ASSUME NEW m \in Nodes, peers[m] \in listed'
               PROVE  told'[peers[m]] = Present \ {m}
    BY Zenon DEF ToldWhoIsThere, Present, handleDiscover
  <2>1. CASE peers[m] = w
    <3>1. NodeOf[w] = m
      BY <2>1, EntryOfNode, Zenon DEF RelayIInv
    <3> QED BY <2>1, <3>1, Zenon DEF RelayIInv, RelayTypeOK, handleDiscover
  <2>2. CASE peers[m] # w
    BY <2>2, Zenon DEF RelayIInv, RelayTypeOK, ToldWhoIsThere, handleDiscover
  <2> QED BY <2>1, <2>2, Zenon
<1> QED BY <1>1, <1>2, Zenon DEF RelayIInv

\* A close removes its node exactly when no newer connection took the entry.
LEMMA CloseIInv == ASSUME RelayIInv, NEW w \in Sockets, handleClose(w) PROVE RelayIInv'
<1> USE NodeAssumption, SocketAssumption
<1>1. CASE Stale(w)
  <2>1. \A m \in Nodes : peers[m] # w
    BY <1>1 DEF RelayIInv, RelayTypeOK, TablesAgree, Stale
  <2>2. RelayTypeOK' /\ TablesAgree' /\ ListedRegistered'
    BY <1>1, <2>1, EntryOfNode DEF RelayIInv, RelayTypeOK, TablesAgree, ListedRegistered, handleClose
  <2>3. RegisteredReachable'
    BY <1>1, <2>1, EntryOfNode DEF RelayIInv, RelayTypeOK, RegisteredReachable, forwardToTarget, handleClose
  <2>4. ToldWhoIsThere'
    BY <1>1 DEF RelayIInv, ToldWhoIsThere, Present, handleClose
  <2> QED BY <2>2, <2>3, <2>4, Zenon DEF RelayIInv
<1>2. CASE ~Stale(w)
  <2> DEFINE n == sockets[w]
  <2>1. n \in Nodes /\ n = NodeOf[w] /\ peers[n] = w
    BY <1>2, Zenon DEF RelayIInv, RelayTypeOK, TablesAgree, Stale
  <2>2. /\ peers' = [peers EXCEPT ![n] = NoEntry]
        /\ told' = [v \in Sockets |-> IF v \in Audience({n}) THEN told[v] \ {n} ELSE told[v]]
    BY <1>2, Zenon DEF handleClose
  <2>3. RelayTypeOK'
    BY <2>1, <2>2, Zenon DEF RelayIInv, RelayTypeOK, handleClose
  <2>4. \A m \in Nodes : m # n /\ peers[m] # NoEntry => peers[m] # w
    BY <2>1, EntryOfNode, Zenon DEF RelayIInv
  <2>5. TablesAgree' /\ ListedRegistered'
    BY <2>1, <2>2, <2>4, EntryOfNode DEF RelayIInv, RelayTypeOK, TablesAgree, ListedRegistered, handleClose
  <2>6. RegisteredReachable'
    <3>1. ASSUME NEW v \in Sockets, ws_state'[v] = "open", sockets'[v] # NoEntry
          PROVE  peers'[NodeOf[v]] = v
      <4>1. v # w /\ ws_state[v] = "open" /\ sockets[v] # NoEntry
        BY <3>1, Zenon DEF RelayIInv, RelayTypeOK, handleClose
      <4>2. peers[NodeOf[v]] = v
        BY <4>1, Zenon DEF RelayIInv, RegisteredReachable, forwardToTarget
      <4> QED BY <4>1, <4>2, <2>1, <2>2, Zenon DEF RelayIInv, RelayTypeOK
    <3>2. ASSUME NEW m \in Nodes, peers'[m] # NoEntry
          PROVE  ws_state'[peers'[m]] = "open"
      <4>1. m # n /\ peers'[m] = peers[m]
        BY <3>2, <2>1, <2>2, Zenon DEF RelayIInv, RelayTypeOK
      <4> QED BY <4>1, <3>2, <2>4, EntryOfNode, Zenon DEF RelayIInv, RelayTypeOK, RegisteredReachable, handleClose
    <3> QED BY <3>1, <3>2, Zenon DEF RegisteredReachable, forwardToTarget
  <2>7. ToldWhoIsThere'
    <3> SUFFICES ASSUME NEW m \in Nodes, peers'[m] \in listed
                 PROVE  told'[peers'[m]] = Present' \ {m}
      BY Zenon DEF ToldWhoIsThere, handleClose
    <3>1. m # n /\ peers'[m] = peers[m] /\ peers[m] \in Sockets
      BY <2>1, <2>2, Zenon DEF RelayIInv, RelayTypeOK
    <3>2. Present' = Present \ {n}
      BY <2>1, <2>2, Zenon DEF RelayIInv, RelayTypeOK, Present
    <3>3. told[peers[m]] = Present \ {m}
      BY <3>1, Zenon DEF RelayIInv, ToldWhoIsThere
    <3>4. told'[peers[m]] = told[peers[m]] \ {n}
      BY <3>1, <2>2, Zenon DEF Audience
    <3> QED BY <3>1, <3>2, <3>3, <3>4, Zenon
  <2> QED BY <2>3, <2>5, <2>6, <2>7, Zenon DEF RelayIInv
<1> QED BY <1>1, <1>2, Zenon

\* Every step of the relay keeps the invariant.
LEMMA RelayNextIInv == RelayIInv /\ [RelayNext]_relay => RelayIInv'
<1> SUFFICES ASSUME RelayIInv, [RelayNext]_relay PROVE RelayIInv'
  OBVIOUS
<1>1. CASE UNCHANGED relay
  BY <1>1, Zenon DEF RelayIInv, relay, RelayTypeOK, TablesAgree, ListedRegistered, RegisteredReachable,
              ToldWhoIsThere, Present, forwardToTarget
<1>2. CASE RelayNext
  BY <1>2, ConnectIInv, RegisterIInv, DiscoverIInv, CloseIInv, Zenon DEF RelayNext
<1> QED BY <1>1, <1>2, Zenon

\* server.ts keeps a registered node reachable on its latest connection, in
\* whatever order the close handlers of the replaced ones run.
THEOREM Reachable == RelaySpec => []RegisteredReachable
<1>1. RelayIInv => RegisteredReachable
  BY Zenon DEF RelayIInv
<1> QED BY RelayInitIInv, RelayNextIInv, <1>1, PTL DEF RelaySpec

\* What server.ts broadcasts is enough for a client to know who is connected.
THEOREM ClientsInformed == RelaySpec => []ToldWhoIsThere
<1>1. RelayIInv => ToldWhoIsThere
  BY Zenon DEF RelayIInv
<1> QED BY RelayInitIInv, RelayNextIInv, <1>1, PTL DEF RelaySpec

-----------------------------------------------------------------------------
(* A private network.                                                      *)

\* No device has a netmap of a generation the gateway has not reached.
NotAhead == \A n \in Netmaps : n.generation <= pin.generation

IInv == TypeOK /\ NotAhead /\ GenerationTellsMembership

-----------------------------------------------------------------------------

\* What the gateway builds is a netmap.
LEMMA BuildTyped ==
    ASSUME TypeOK
    PROVE  build_netmap \in Netmap /\ build_netmap.generation = pin.generation
  <1> DEFINE D == {d \in Devices : member[d].status \in {"active", "disabled"}}
             M == [d \in D |->
                    [disabled |-> member[d].status = "disabled", serves |-> member[d].serves,
                     exits |-> member[d].exits, keyed |-> member[d].keyed]]
  <1>1. M \in [D -> Entry]
    BY DEF TypeOK, Row, Entry
  <1>2. M \in UNION {[E -> Entry] : E \in SUBSET Devices}
    BY <1>1, Zenon
  <1>3. build_netmap = [generation |-> pin.generation, members |-> M]
    BY DEF build_netmap
  <1>4. pin.generation \in 0 .. MaxGeneration
    BY DEF TypeOK
  <1> HIDE DEF M, D
  <1> QED
    BY <1>2, <1>3, <1>4 DEF Netmap

\* The three places a netmap is in.
LEMMA NetmapsPlaces ==
    ASSUME NEW n
    PROVE  n \in Netmaps <=>
             /\ n # None
             /\ \/ \E d \in Synced : n = disk[d]
                \/ \E d \in Synced, t \in Tasks : n = round[d][t].netmap
                \/ \E d \in Synced : held[d] # None /\ n = held[d].netmap
  BY DEF Netmaps

\* The same after a step.
LEMMA NetmapsPlacesNext ==
    ASSUME NEW n
    PROVE  n \in Netmaps' <=>
             /\ n # None
             /\ \/ \E d \in Synced : n = disk'[d]
                \/ \E d \in Synced, t \in Tasks : n = round'[d][t].netmap
                \/ \E d \in Synced : held'[d] # None /\ n = held'[d].netmap
  BY DEF Netmaps

\* A generation is a number.
LEMMA NetmapTyped ==
    ASSUME TypeOK, NEW n \in Netmaps
    PROVE  n \in Netmap /\ n.generation \in Int
  <1>1. n \in Netmap
    BY NetmapsPlaces DEF TypeOK, Round, PinState
  <1> QED
    BY <1>1 DEF Netmap

\* The gateway changed nothing, and no device has a netmap that it had not
\* and the gateway did not just build.
LEMMA DeviceStep ==
    ASSUME IInv, UNCHANGED gateway, Netmaps' \subseteq Netmaps \cup {build_netmap}
    PROVE  (NotAhead /\ GenerationTellsMembership)'
  <1>1. build_netmap' = build_netmap /\ pin' = pin
    BY DEF gateway, build_netmap
  <1>2. build_netmap.generation = pin.generation /\ pin.generation \in Int
    BY BuildTyped DEF IInv, TypeOK
  <1>3. NotAhead'
    BY <1>1, <1>2 DEF NotAhead, IInv
  <1>4. GenerationTellsMembership'
    BY <1>1 DEF GenerationTellsMembership, IInv, Memberships
  <1> QED
    BY <1>3, <1>4

\* The gateway bumped the generation.
LEMMA BumpStep ==
    ASSUME IInv, Bump, Netmaps' = Netmaps
    PROVE  (NotAhead /\ GenerationTellsMembership)'
  <1>1. pin'.generation = pin.generation + 1 /\ pin.generation \in Int
    BY DEF IInv, TypeOK, Bump
  <1>2. \A n \in Netmaps' : n.generation < pin'.generation /\ n.generation # pin'.generation
    BY <1>1, NetmapTyped DEF IInv, NotAhead
  <1>3. \A n \in Netmaps' : n.generation <= pin'.generation
    BY <1>1, NetmapTyped DEF IInv, NotAhead
  <1> QED
    BY <1>2, <1>3 DEF NotAhead, GenerationTellsMembership

\* The gateway wrote, but nothing that a netmap lists except advertised keys.
LEMMA QuietStep ==
    ASSUME IInv, pin'.generation = pin.generation, Netmaps' \subseteq Netmaps,
           Memberships(build_netmap)' = Memberships(build_netmap)
    PROVE  (NotAhead /\ GenerationTellsMembership)'
  <1>1. NotAhead'
    BY DEF IInv, NotAhead
  <1>2. GenerationTellsMembership'
    BY DEF IInv, GenerationTellsMembership
  <1> QED
    BY <1>1, <1>2

\* What the members of the built netmap depend on.
LEMMA SameMembers ==
    ASSUME TypeOK, TypeOK',
           \A d \in Devices :
              LET shown(s) == s \in {"active", "disabled"} IN
              /\ shown(member'[d].status) <=> shown(member[d].status)
              /\ shown(member[d].status) =>
                    /\ member'[d].status = member[d].status
                    /\ member'[d].serves = member[d].serves
                    /\ member'[d].exits = member[d].exits
    PROVE  Memberships(build_netmap)' = Memberships(build_netmap)
  <1> DEFINE S(m) == {d \in Devices : m[d].status \in {"active", "disabled"}}
             F(m) == [d \in S(m) |-> [disabled |-> m[d].status = "disabled",
                        serves |-> m[d].serves, exits |-> m[d].exits]]
  <1>1. Memberships(build_netmap) = F(member)
    BY DEF Memberships, build_netmap
  <1>2. Memberships(build_netmap)' = F(member')
    BY DEF Memberships, build_netmap
  <1>3. S(member') = S(member)
    OBVIOUS
  <1>4. F(member') = F(member)
    BY <1>3
  <1> QED
    BY <1>1, <1>2, <1>4

\* A write at the gateway leaves the netmaps of the devices alone.
LEMMA NetmapsKept ==
    ASSUME UNCHANGED <<held, disk, round>>
    PROVE  Netmaps' = Netmaps
  BY DEF Netmaps

-----------------------------------------------------------------------------

\* At first there is no network and no netmap.
LEMMA InitIInv == Init => IInv
  <1> SUFFICES ASSUME Init PROVE IInv
    OBVIOUS
  <1>1. 0 \in 0 .. MaxGeneration /\ 0 \in 0 .. MaxFaults
    BY BoundAssumption
  <1>2. pin \in [life : {"absent", "live", "deleted"}, generation : 0..MaxGeneration]
    BY <1>1 DEF Init
  <1>3. roles \in [Accounts -> Role \cup {None}]
    BY PinAssumption DEF Init, Role
  <1>4. NoRow \in Row /\ [NoRow EXCEPT !.status = "active", !.keyed = TRUE] \in Row
    BY Zenon DEF NoRow, Row, Status
  <1>5. member \in [Devices -> Row]
    BY <1>4 DEF Init
  <1>6. IdleRound \in Round
    BY DEF IdleRound, Round, Steps, Status
  <1>7. TypeOK
    BY <1>1, <1>2, <1>3, <1>5, <1>6 DEF Init, TypeOK
  <1>8. Netmaps = {}
    BY NetmapsPlaces DEF Init, IdleRound
  <1> QED
    BY <1>7, <1>8 DEF IInv, NotAhead, GenerationTellsMembership

\* A row with another status, flag or key is a row.
LEMMA RowTyped ==
    ASSUME NEW r \in Row, NEW s \in Status, NEW b \in BOOLEAN
    PROVE  /\ [r EXCEPT !.status = s] \in Row
           /\ [r EXCEPT !.serves = b] \in Row
           /\ [r EXCEPT !.exits = b] \in Row
           /\ [r EXCEPT !.keyed = b] \in Row
           /\ NoRow \in Row
  BY DEF Row, NoRow, Status

\* A bumped generation is within its bound.
LEMMA BumpTyped ==
    ASSUME TypeOK, Bump
    PROVE  pin' \in [life : {"absent", "live", "deleted"}, generation : 0..MaxGeneration]
  <1>1. pin.generation + 1 \in 0 .. MaxGeneration
    BY BoundAssumption DEF TypeOK, Bump
  <1> QED
    BY <1>1 DEF TypeOK, Bump

\* One row is written, the devices are left alone.
LEMMA WriteTyped ==
    ASSUME TypeOK, NEW d \in Devices, NEW r \in Row, member' = [member EXCEPT ![d] = r],
           pin' = pin \/ Bump, UNCHANGED <<roles, node>>
    PROVE  TypeOK'
  <1>1. pin' \in [life : {"absent", "live", "deleted"}, generation : 0..MaxGeneration]
    BY BumpTyped DEF TypeOK
  <1>2. member' \in [Devices -> Row]
    BY DEF TypeOK
  <1> QED
    BY <1>1, <1>2 DEF TypeOK, node

\* The staff's and the devices' writes at the gateway.
LEMMA RestatusStep ==
    ASSUME IInv, NEW d \in Devices, NEW from, NEW to \in Status, Restatus(d, from, to),
           UNCHANGED <<roles, node>>
    PROVE  IInv'
  <1>1. member[d] \in Row
    BY DEF IInv, TypeOK
  <1>2. TypeOK'
    BY <1>1, RowTyped, WriteTyped, Zenon DEF IInv, Restatus
  <1>3. Netmaps' = Netmaps
    BY NetmapsKept DEF node
  <1> QED
    BY <1>2, <1>3, BumpStep DEF IInv, Restatus

\* An admin changes what a member serves, or a member its offer of an exit.
LEMMA FlagStep ==
    ASSUME IInv, NEW d \in Devices, NEW b \in BOOLEAN,
           update_member(d, b) \/ set_member_offers_exit(d),
           UNCHANGED <<roles, node>>
    PROVE  IInv'
  <1>1. member[d] \in Row /\ (~member[d].exits) \in BOOLEAN
    BY DEF IInv, TypeOK
  <1>2. TypeOK'
    <2>1. [member[d] EXCEPT !.serves = b] \in Row /\ [member[d] EXCEPT !.exits = ~@] \in Row
      BY <1>1, Zenon DEF Row
    <2>2. CASE update_member(d, b)
      BY <2>1, <2>2, WriteTyped, Zenon DEF IInv, update_member
    <2>3. CASE set_member_offers_exit(d)
      BY <2>1, <2>3, WriteTyped, Zenon DEF IInv, set_member_offers_exit
    <2> QED
      BY <2>2, <2>3
  <1>3. Netmaps' = Netmaps
    BY NetmapsKept DEF node
  <1> QED
    BY <1>2, <1>3, BumpStep DEF IInv, update_member, set_member_offers_exit

\* A write to a row that stays unlisted, or to its key, is not seen in a netmap.
LEMMA UnseenStep ==
    ASSUME IInv, NEW d \in Devices, NEW r \in Row, member' = [member EXCEPT ![d] = r],
           \/ {member[d].status, r.status} \cap {"active", "disabled"} = {}
           \/ /\ r.status = member[d].status
              /\ r.serves = member[d].serves
              /\ r.exits = member[d].exits,
           UNCHANGED <<pin, roles, node>>
    PROVE  IInv'
  <1>1. TypeOK'
    BY WriteTyped, Zenon DEF IInv
  <1>2. Netmaps' = Netmaps
    BY NetmapsKept DEF node
  <1>3. \A e \in Devices : member'[e] = IF e = d THEN r ELSE member[e]
    BY DEF IInv, TypeOK
  <1>4. Memberships(build_netmap)' = Memberships(build_netmap)
    BY <1>1, <1>3, SameMembers, Zenon DEF IInv
  <1> QED
    BY <1>1, <1>2, <1>4, QuietStep DEF IInv

\* A join, a denial and an advertised key do not bump, and change no listed
\* membership.
LEMMA UnlistedStep ==
    ASSUME IInv, NEW d \in Devices,
           \/ deny_member(d) /\ UNCHANGED <<roles, node>>
           \/ submit_join(d)
           \/ Advertise(d)
    PROVE  IInv'
  <1>1. member[d] \in Row
    BY DEF IInv, TypeOK
  <1>2. CASE deny_member(d) /\ UNCHANGED <<roles, node>>
    <2>1. NoRow \in Row /\ NoRow.status = "none"
      BY DEF NoRow, Row, Status
    <2>2. /\ member' = [member EXCEPT ![d] = NoRow] /\ member[d].status = "pending"
          /\ UNCHANGED <<pin, roles, node>>
      BY <1>2 DEF deny_member
    <2> QED
      BY <2>1, <2>2, UnseenStep, Zenon
  <1>3. CASE submit_join(d)
    <2> DEFINE r == [member[d] EXCEPT !.status = "pending"]
    <2>1. r \in Row /\ r.status = "pending"
      BY <1>1 DEF Row, Status
    <2>2. member' = [member EXCEPT ![d] = r]
      BY <1>3 DEF submit_join
    <2>3. member[d].status \in {"none", "removed"} /\ UNCHANGED <<pin, roles, node>>
      BY <1>3 DEF submit_join
    <2> HIDE DEF r
    <2> QED
      BY <2>1, <2>2, <2>3, UnseenStep, Zenon
  <1>4. CASE Advertise(d)
    <2> DEFINE r == [member[d] EXCEPT !.keyed = TRUE]
    <2>1. /\ r \in Row
          /\ r.status = member[d].status /\ r.serves = member[d].serves
          /\ r.exits = member[d].exits
      BY <1>1, Zenon DEF Row
    <2>2. member' = [member EXCEPT ![d] = r] /\ UNCHANGED <<pin, roles, node>>
      BY <1>4 DEF Advertise
    <2> HIDE DEF r
    <2> QED
      BY <2>1, <2>2, UnseenStep, Zenon
  <1> QED
    BY <1>2, <1>3, <1>4

\* The network is created or deleted, or a role is granted or revoked.
LEMMA NetworkStep ==
    ASSUME IInv,
           \/ create_pin
           \/ delete_pin
           \/ /\ \E a \in Granted : revoke_role(a) \/ \E r \in Role : grant_role(a, r)
              /\ UNCHANGED <<pin, member, node>>
    PROVE  IInv'
  <1>t. UNCHANGED <<member, held, disk, round, faults>>
    BY DEF create_pin, delete_pin, node
  <1>p. pin' \in [life : {"absent", "live", "deleted"}, generation : 0..MaxGeneration]
    BY DEF IInv, TypeOK, create_pin, delete_pin
  <1>r. roles' \in [Accounts -> Role \cup {None}]
    <2>1. roles \in [Accounts -> Role \cup {None}] /\ "admin" \in Role
      BY DEF IInv, TypeOK, Role
    <2>2. CASE create_pin \/ delete_pin
      BY <2>1, <2>2 DEF create_pin, delete_pin
    <2>3. CASE \E a \in Granted : revoke_role(a) \/ \E r \in Role : grant_role(a, r)
      BY <2>1, <2>3 DEF revoke_role, grant_role
    <2> QED
      BY <2>2, <2>3
  <1>1. TypeOK'
    BY <1>t, <1>p, <1>r DEF IInv, TypeOK
  <1>2. Netmaps' = Netmaps /\ pin'.generation = pin.generation /\ member' = member
    BY NetmapsKept DEF IInv, TypeOK, node, create_pin, delete_pin
  <1>3. Memberships(build_netmap)' = Memberships(build_netmap)
    BY <1>1, <1>2, SameMembers DEF IInv
  <1> QED
    BY <1>1, <1>2, <1>3, QuietStep DEF IInv

\* Any write of the network's staff.
LEMMA StaffStep == ASSUME IInv, StaffWrite PROVE IInv'
  <1>1. CASE \E d \in Flagged, b \in BOOLEAN : update_member(d, b) /\ UNCHANGED <<roles, node>>
    BY <1>1, FlagStep, PinAssumption
  <1>2. CASE \E d \in Devices : AdminWrite(d) /\ UNCHANGED <<roles, node>>
    <2> PICK d \in Devices : AdminWrite(d) /\ UNCHANGED <<roles, node>>
      BY <1>2
    <2>1. CASE deny_member(d)
      BY <2>1, UnlistedStep
    <2>2. CASE approve_member(d)
      BY <2>2, RestatusStep DEF approve_member, Status
    <2>3. CASE remove_member(d)
      BY <2>3, RestatusStep DEF remove_member, Status
    <2>4. ASSUME NEW b \in BOOLEAN, set_member_disabled(d, b) PROVE IInv'
      BY <2>4, RestatusStep DEF set_member_disabled, Status
    <2> QED
      BY <2>1, <2>2, <2>3, <2>4 DEF AdminWrite
  <1>3. CASE /\ \E a \in Granted : revoke_role(a) \/ \E r \in Role : grant_role(a, r)
             /\ UNCHANGED <<pin, member, node>>
    BY <1>3, NetworkStep
  <1> QED
    BY <1>1, <1>2, <1>3 DEF StaffWrite

-----------------------------------------------------------------------------

\* A step of a device: its round, what it holds and its file.
LEMMA RoundTyped ==
    ASSUME TypeOK, NEW d \in Synced, NEW t \in Tasks, NEW r \in Round, Go(d, t, r)
    PROVE  /\ round' \in [Synced -> [Tasks -> Round]]
           /\ round'[d][t] = r
           /\ \A e \in Synced, u \in Tasks : e # d \/ u # t => round'[e][u] = round[e][u]
  BY DEF TypeOK, Go

\* A round that has not started has no netmap.
LEMMA IdleTyped == IdleRound \in Round /\ IdleRound.netmap = None
  BY DEF IdleRound, Round, Steps, Status

\* A round that is over leaves the netmaps of the other rounds.
LEMMA RoundOver ==
    ASSUME TypeOK, NEW d \in Synced, NEW t \in Tasks, Go(d, t, IdleRound)
    PROVE  /\ round' \in [Synced -> [Tasks -> Round]]
           /\ \A e \in Synced, u \in Tasks : round'[e][u].netmap \in {None, round[e][u].netmap}
  <1>1. PICK r \in Round : r = IdleRound /\ r.netmap = None
    BY IdleTyped
  <1>2. /\ round' \in [Synced -> [Tasks -> Round]]
        /\ round'[d][t] = r
        /\ \A e \in Synced, u \in Tasks : e # d \/ u # t => round'[e][u] = round[e][u]
    BY <1>1, RoundTyped, Zenon
  <1> QED
    BY <1>1, <1>2

\* A round that goes on brings no netmap but the one it was answered with.
LEMMA RoundNetmaps ==
    ASSUME TypeOK, NEW d \in Synced, NEW t \in Tasks, NEW r \in Round, Go(d, t, r),
           held' = held, disk' = disk
    PROVE  \A n \in Netmaps' : n \in Netmaps \/ n = r.netmap
  <1> SUFFICES ASSUME NEW n \in Netmaps', n # r.netmap PROVE n \in Netmaps
    OBVIOUS
  <1>1. n # None
    BY NetmapsPlacesNext
  <1>2. CASE \E e \in Synced : n = disk'[e]
    BY <1>1, <1>2, NetmapsPlaces
  <1>3. CASE \E e \in Synced, u \in Tasks : n = round'[e][u].netmap
    <2>1. PICK e \in Synced, u \in Tasks : n = round'[e][u].netmap
      BY <1>3
    <2>2. e # d \/ u # t
      BY <2>1, RoundTyped
    <2>3. round'[e][u] = round[e][u]
      BY <2>2, RoundTyped
    <2>4. n = round[e][u].netmap
      BY <2>1, <2>3
    <2> QED
      BY <1>1, <2>4, NetmapsPlaces
  <1>4. CASE \E e \in Synced : held'[e] # None /\ n = held'[e].netmap
    BY <1>1, <1>4, NetmapsPlaces
  <1> QED
    BY <1>2, <1>3, <1>4, NetmapsPlacesNext

\* The netmap a round has is one of the device's.
LEMMA RoundHas ==
    ASSUME NEW d \in Synced, NEW t \in Tasks
    PROVE  round[d][t].netmap \in Netmaps \cup {None}
  BY NetmapsPlaces

\* A round goes on with the netmap it had, without one, or with the one the
\* gateway built, and what the device holds and its file stay.
LEMMA RoundStep ==
    ASSUME IInv, NEW d \in Synced, NEW t \in Tasks, NEW r \in Round, Go(d, t, r),
           r.netmap \in {None, round[d][t].netmap, build_netmap},
           UNCHANGED <<gateway, held, disk>>, faults' \in 0 .. MaxFaults
    PROVE  IInv'
  <1>1. TypeOK'
    BY RoundTyped DEF IInv, TypeOK, gateway
  <1>2. Netmaps' \subseteq Netmaps \cup {build_netmap}
    <2>1. TypeOK /\ held' = held /\ disk' = disk
      BY DEF IInv
    <2>2. \A n \in Netmaps' : n \in Netmaps \/ n = r.netmap
      BY <2>1, RoundNetmaps
    <2>3. r.netmap \in Netmaps \cup {None, build_netmap}
      BY RoundHas
    <2>4. \A n \in Netmaps' : n # None
      BY NetmapsPlacesNext
    <2> QED
      BY <2>2, <2>3, <2>4
  <1> QED
    BY <1>1, <1>2, DeviceStep DEF IInv

\* A round starts with the list of memberships, or fails.
LEMMA StartStep ==
    ASSUME IInv, NEW d \in Synced, NEW t \in Tasks, fetch_memberships(d, t) \/ Fail(d, t)
    PROVE  IInv'
  <1> DEFINE r == [IdleRound EXCEPT !.at = "listed", !.listed = Listed(d)]
  <1>1. r \in Round /\ r.netmap = None
    BY Zenon DEF IdleRound, Round, Steps, Status, Listed
  <1> HIDE DEF r
  <1>2. faults' \in 0 .. MaxFaults
    BY BoundAssumption DEF IInv, TypeOK, fetch_memberships, Fail
  <1>3. CASE fetch_memberships(d, t)
    BY <1>1, <1>2, <1>3, RoundStep, Zenon DEF fetch_memberships, r
  <1>4. CASE Fail(d, t)
    BY <1>2, <1>4, IdleTyped, RoundStep DEF Fail
  <1> QED
    BY <1>3, <1>4

\* An active device's advertised key is not part of its membership.
LEMMA ChecksStep ==
    ASSUME IInv, NEW d \in Synced, NEW t \in Tasks, SyncChecks(d, t)
    PROVE  IInv'
  <1>1. d \in Devices /\ member[d] \in Row /\ round[d][t] \in Round
    BY PinAssumption DEF IInv, TypeOK
  <1>2. CASE member[d].status = "active"
    <2> DEFINE r == [round[d][t] EXCEPT !.at = "checked", !.membership = "active"]
               m == [member[d] EXCEPT !.keyed = TRUE]
    <2>1. r \in Round /\ r.netmap = round[d][t].netmap
      BY <1>1, Zenon DEF Round, Steps, Status
    <2>2. /\ m \in Row
          /\ m.status = member[d].status /\ m.serves = member[d].serves
          /\ m.exits = member[d].exits
      BY <1>1, Zenon DEF Row
    <2>3. Go(d, t, r) /\ member' = [member EXCEPT ![d] = m] /\ UNCHANGED <<pin, roles, held, disk, faults>>
      BY <1>2 DEF SyncChecks
    <2> HIDE DEF r, m
    <2>4. \A e \in Devices : member'[e] = IF e = d THEN m ELSE member[e]
      BY <2>3 DEF IInv, TypeOK
    <2>5. member' \in [Devices -> Row]
      BY <1>1, <2>2, <2>3 DEF IInv, TypeOK
    <2>6. TypeOK'
      BY <2>1, <2>3, <2>5, RoundTyped DEF IInv, TypeOK
    <2>7. \A n \in Netmaps' : n \in Netmaps \/ n = r.netmap
      <3>1. TypeOK /\ held' = held /\ disk' = disk
        BY <2>3 DEF IInv
      <3> QED
        BY <2>1, <2>3, <3>1, RoundNetmaps
    <2>8. Netmaps' \subseteq Netmaps
      <3>1. \A n \in Netmaps' : n # None
        BY NetmapsPlacesNext
      <3> QED
        BY <2>1, <2>7, <3>1, RoundHas
    <2>9. Memberships(build_netmap)' = Memberships(build_netmap)
      BY <2>2, <2>4, <2>6, SameMembers DEF IInv
    <2> QED
      BY <2>3, <2>6, <2>8, <2>9, QuietStep DEF IInv
  <1>3. CASE member[d].status # "active"
    <2> DEFINE r == [round[d][t] EXCEPT !.at = "answered",
                        !.membership = IF member[d].status = "removed" THEN "none"
                                       ELSE member[d].status]
    <2>1. r \in Round /\ r.netmap = round[d][t].netmap
      BY <1>1, Zenon DEF Round, Steps, Status, Row
    <2>2. Go(d, t, r) /\ UNCHANGED <<gateway, held, disk, faults>>
      BY <1>3 DEF SyncChecks, gateway
    <2> HIDE DEF r
    <2> QED
      BY <2>1, <2>2, RoundStep DEF IInv, TypeOK
  <1> QED
    BY <1>2, <1>3

\* The gateway answers a sync with the netmap it builds there and then.
LEMMA AnswersStep ==
    ASSUME IInv, NEW d \in Synced, NEW t \in Tasks, SyncAnswers(d, t)
    PROVE  IInv'
  <1>1. faults' \in 0 .. MaxFaults /\ UNCHANGED <<gateway, held, disk>>
    BY DEF IInv, TypeOK, SyncAnswers
  <1>2. CASE pin.life = "live"
    <2> DEFINE r == [round[d][t] EXCEPT !.at = "answered", !.netmap = build_netmap]
    <2>1. r \in Round /\ r.netmap = build_netmap
      <3>1. round[d][t] \in Round
        BY DEF IInv, TypeOK
      <3>2. build_netmap \in Netmap
        BY BuildTyped DEF IInv
      <3> QED
        BY <3>1, <3>2, Zenon DEF Round, Steps
    <2>2. Go(d, t, r)
      BY <1>2 DEF SyncAnswers
    <2> HIDE DEF r
    <2> QED
      BY <1>1, <2>1, <2>2, RoundStep
  <1>3. CASE pin.life # "live"
    BY <1>1, <1>3, IdleTyped, RoundStep DEF SyncAnswers
  <1> QED
    BY <1>2, <1>3

\* The device drops its state, takes an answer or starts again: what it holds
\* and has on disk comes from its rounds, its memory and its disk.
LEMMA TakesStep ==
    ASSUME IInv, TypeOK', UNCHANGED gateway, NEW d \in Synced,
           \A e \in Synced \ {d} : held'[e] = held[e] /\ disk'[e] = disk[e],
           \A e \in Synced, t \in Tasks :
              round'[e][t].netmap \in {None, round[e][t].netmap},
           disk'[d] \in Netmaps \cup {None},
           held'[d] = None \/ held'[d].netmap \in Netmaps \cup {None}
    PROVE  IInv'
  <1>1. ASSUME NEW n \in Netmaps' PROVE n \in Netmaps
    <2>1. n # None
      BY <1>1, NetmapsPlacesNext
    <2>2. CASE \E e \in Synced : n = disk'[e]
      BY <2>1, <2>2, NetmapsPlaces
    <2>3. CASE \E e \in Synced, t \in Tasks : n = round'[e][t].netmap
      <3>1. PICK e \in Synced, t \in Tasks : n = round'[e][t].netmap
        BY <2>3
      <3>2. n = round[e][t].netmap
        BY <2>1, <3>1
      <3> QED
        BY <2>1, <3>2, NetmapsPlaces
    <2>4. CASE \E e \in Synced : held'[e] # None /\ n = held'[e].netmap
      BY <2>1, <2>4, NetmapsPlaces
    <2> QED
      BY <1>1, <2>2, <2>3, <2>4, NetmapsPlacesNext
  <1> QED
    BY <1>1, DeviceStep DEF IInv

\* The device drops a membership it no longer has.
LEMMA PruneStep ==
    ASSUME IInv, NEW d \in Synced, NEW t \in Tasks, Prune(d, t)
    PROVE  IInv'
  <1>1. round' \in [Synced -> [Tasks -> Round]]
    BY RoundOver DEF IInv, Prune
  <1>2. \A e \in Synced, u \in Tasks : round'[e][u].netmap \in {None, round[e][u].netmap}
    BY RoundOver, Zenon DEF IInv, Prune
  <1>3. /\ held' \in [Synced -> PinState \cup {None}] /\ held'[d] = None
        /\ \A e \in Synced \ {d} : held'[e] = held[e]
    BY DEF IInv, TypeOK, Prune
  <1>4. TypeOK' /\ UNCHANGED <<gateway, disk>>
    BY <1>1, <1>3 DEF IInv, TypeOK, Prune, gateway
  <1>5. disk[d] \in Netmaps \cup {None}
    BY NetmapsPlaces
  <1> QED
    BY <1>2, <1>3, <1>4, <1>5, TakesStep

\* The device takes the answer and writes its file.
LEMMA AcceptStep ==
    ASSUME IInv, NEW d \in Synced, NEW t \in Tasks, accept_netmap(d, t)
    PROVE  IInv'
  <1> DEFINE r == round[d][t]
             kept == IF held[d] = None THEN None ELSE held[d].netmap
             took == [membership |-> r.membership,
                      netmap |-> IF r.netmap = None THEN kept ELSE r.netmap]
  <1>1. r \in Round
    BY DEF IInv, TypeOK
  <1>2. held[d] \in PinState \cup {None}
    BY DEF IInv, TypeOK
  <1>3. kept \in Netmap \cup {None} /\ kept \in Netmaps \cup {None}
    BY <1>2, NetmapsPlaces DEF PinState
  <1>4. r.netmap \in Netmap \cup {None} /\ r.netmap \in Netmaps \cup {None}
    BY <1>1, NetmapsPlaces DEF Round
  <1>5. /\ held' = [held EXCEPT ![d] = took]
        /\ disk' = IF r.netmap = None THEN disk ELSE [disk EXCEPT ![d] = r.netmap]
        /\ Go(d, t, IdleRound)
        /\ UNCHANGED <<gateway, faults>>
    BY DEF accept_netmap
  <1>6. took.netmap \in Netmaps \cup {None} /\ took \in PinState
    BY <1>1, <1>3, <1>4 DEF PinState, Round
  <1> HIDE DEF took, kept, r
  <1>7. /\ held' \in [Synced -> PinState \cup {None}] /\ held'[d] = took
        /\ \A e \in Synced \ {d} : held'[e] = held[e]
    BY <1>5, <1>6 DEF IInv, TypeOK
  <1>8. disk[d] \in Netmaps \cup {None}
    BY NetmapsPlaces
  <1>9. /\ disk' \in [Synced -> Netmap \cup {None}] /\ disk'[d] \in Netmaps \cup {None}
        /\ \A e \in Synced \ {d} : disk'[e] = disk[e]
    BY <1>4, <1>5, <1>8 DEF IInv, TypeOK
  <1>10. round' \in [Synced -> [Tasks -> Round]]
    BY <1>5, RoundOver, Zenon DEF IInv
  <1>11. \A e \in Synced, u \in Tasks : round'[e][u].netmap \in {None, round[e][u].netmap}
    BY <1>5, RoundOver, Zenon DEF IInv
  <1>12. TypeOK'
    BY <1>5, <1>7, <1>9, <1>10 DEF IInv, TypeOK, gateway
  <1> QED
    BY <1>5, <1>6, <1>7, <1>9, <1>11, <1>12, TakesStep

\* The device starts again from its file.
LEMMA RestartStep ==
    ASSUME IInv, NEW d \in Synced, Restart(d)
    PROVE  IInv'
  <1> DEFINE took == [membership |-> "active", netmap |-> disk[d]]
  <1>1. disk[d] \in Netmap \cup {None} /\ disk[d] \in Netmaps \cup {None}
    BY NetmapsPlaces DEF IInv, TypeOK
  <1>2. took \in PinState /\ took.netmap = disk[d]
    BY <1>1 DEF PinState, Status
  <1>3. PICK v \in {took, None} : held' = [held EXCEPT ![d] = v]
    BY Zenon DEF Restart
  <1> HIDE DEF took
  <1>4. /\ held' \in [Synced -> PinState \cup {None}] /\ held'[d] \in {took, None}
        /\ \A e \in Synced \ {d} : held'[e] = held[e]
    <2>1. held \in [Synced -> PinState \cup {None}] /\ v \in PinState \cup {None}
      BY <1>2 DEF IInv, TypeOK
    <2> QED
      BY <1>3, <2>1
  <1>5. round' \in [Synced -> [Tasks -> Round]]
    BY IdleTyped DEF Restart, IInv, TypeOK
  <1>6. \A e \in Synced, u \in Tasks : round'[e][u].netmap \in {None, round[e][u].netmap}
    BY IdleTyped DEF Restart, IInv, TypeOK
  <1>7. UNCHANGED <<gateway, disk>> /\ faults' \in 0 .. MaxFaults
    <2>1. faults \in 0 .. MaxFaults /\ faults < MaxFaults /\ faults' = faults + 1
      BY DEF Restart, IInv, TypeOK
    <2>2. faults' \in 0 .. MaxFaults
      BY <2>1, BoundAssumption
    <2> QED
      BY <2>2 DEF Restart
  <1>8. TypeOK'
    BY <1>4, <1>5, <1>7 DEF IInv, TypeOK, gateway
  <1> QED
    BY <1>1, <1>2, <1>4, <1>6, <1>7, <1>8, TakesStep, Zenon

-----------------------------------------------------------------------------

\* The strengthening is inductive.
LEMMA NextIInv == IInv /\ [Next]_vars => IInv'
  <1> SUFFICES ASSUME IInv, [Next]_vars PROVE IInv'
    OBVIOUS
  <1>1. CASE create_pin \/ delete_pin
    BY <1>1, NetworkStep
  <1>2. CASE StaffWrite
    BY <1>2, StaffStep
  <1>3. ASSUME NEW d \in Devices, submit_join(d) \/ leave(d) \/ Advertise(d) PROVE IInv'
    <2>1. CASE leave(d)
      BY <2>1, RestatusStep DEF leave, remove_member, Status
    <2> QED
      BY <1>3, <2>1, UnlistedStep
  <1>4. ASSUME NEW d \in Flagged, set_member_offers_exit(d) PROVE IInv'
    BY <1>4, FlagStep, PinAssumption, Zenon DEF set_member_offers_exit
  <1>5. ASSUME NEW d \in Synced, Restart(d) PROVE IInv'
    BY <1>5, RestartStep
  <1>6. ASSUME NEW d \in Synced, NEW t \in Tasks,
               fetch_memberships(d, t) \/ sync_once(d, t) \/ Fail(d, t)
        PROVE  IInv'
    BY <1>6, StartStep, PruneStep, ChecksStep, AnswersStep, AcceptStep DEF sync_once
  <1>7. CASE UNCHANGED vars
    <2>1. TypeOK' /\ UNCHANGED <<gateway, held, disk, round>>
      BY <1>7 DEF vars, IInv, TypeOK, gateway
    <2>2. Netmaps' = Netmaps
      BY <2>1, NetmapsKept
    <2> QED
      BY <2>1, <2>2, DeviceStep DEF IInv
  <1> QED
    BY <1>1, <1>2, <1>3, <1>4, <1>5, <1>6, <1>7 DEF Next

\* The tables of the gateway and the rounds, memories and files of the devices
\* keep their types, for any devices and accounts.
THEOREM TypeCorrect == Spec => []TypeOK
  <1>1. IInv => TypeOK
    BY DEF IInv
  <1> QED
    BY <1>1, InitIInv, NextIInv, PTL DEF Spec

\* A netmap of the gateway's current generation, wherever some device has it
\* after any interleaving of rounds, staff writes, failures and restarts, lists
\* the members with their standing and flags as the gateway's rows do.
THEOREM GenerationSound == Spec => []GenerationTellsMembership
  <1>1. IInv => GenerationTellsMembership
    BY DEF IInv
  <1> QED
    BY <1>1, InitIInv, NextIInv, PTL DEF Spec

=============================================================================
