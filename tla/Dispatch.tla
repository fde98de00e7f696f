------------------------------ MODULE Dispatch ------------------------------
(***************************************************************************)
(* How the gateway serves a chat request from the fleet: pick a device,    *)
(* open a relay session to it, hand the request over, forward what comes   *)
(* back, retry on another device while nothing was forwarded, settle       *)
(* (gateway/src/handlers/chat.rs), over the relay client's session table   *)
(* and waiters (gateway/src/relay_client.rs).                              *)
(*                                                                         *)
(* The environment loses the gateway's and the devices' relay connections  *)
(* with messages under way, and drops requests whose client hangs up: the  *)
(* handler's future is dropped at an await and its guards clean up.  A     *)
(* device is its message loop with one job per session (NodeServing has    *)
(* the rest of it); heavy requests are of different consumers (HeavyHold   *)
(* has the whole admission); only quarantine makes a device ineligible.    *)
(***************************************************************************)
EXTENDS Naturals, FiniteSets, Sequences

CONSTANTS Requests, Nodes,
          Heavy,          \* requests that is_heavy_request
          Buffered,       \* requests answered in one piece (run_buffered)
          LargeCold,      \* the model is large and loaded on no device
          MaxRetries,     \* max_retries
          MaxGrace,       \* max_dispatch_grace_retries
          MaxQueueDepth,  \* max_queue_depth: dispatches per device
          ChanCap,        \* capacity of a session's event channel (128)
          Errors,         \* the errors devices answer with
          Replaces,       \* the gateway may reconnect before the relay sees it leave
          MaxAttempts,    \* bound: sessions per request, never reached
          MaxWire,        \* bound: chunks of one session under way to the gateway
          MaxFlaps,       \* bound: lost connections, of the gateway or a device
          None

ASSUME ActorAssumption ==
    /\ IsFiniteSet(Requests) /\ IsFiniteSet(Nodes) /\ None \notin Nodes
    /\ Heavy \subseteq Requests /\ Buffered \subseteq Requests
    /\ {LargeCold, Replaces} \subseteq BOOLEAN
    /\ Errors \subseteq {"queuefull", "clienterr", "warmup", "error"}
ASSUME BoundAssumption ==
    /\ {MaxRetries, MaxGrace, MaxFlaps, MaxAttempts} \subseteq Nat
    /\ {MaxQueueDepth, ChanCap, MaxWire} \subseteq Nat \ {0}
    /\ MaxAttempts > (MaxRetries + 1) * (Cardinality(Nodes) + MaxGrace)

VARIABLES phase, target, tried, attempt, got_first,
          excluded,      \* devices the request's retries avoid
          skip,          \* devices the current pick_and_dispatch avoids
          graced,        \* dispatch_grace_failures
          circumstance,  \* what the attempt read when it was dispatched
          woken,         \* the oneshot of the session being opened
          chan,          \* events in the current session's channel
          out,           \* attempts whose chunks the answer is made of
          settled,       \* the devices the request was settled with, in order
          connected, flaps, quarantined, in_flight,
          ready_waiters, sessions, ghost_closes,
          toNode, toGw,  \* messages of each session under way
          node_of, job,
          up, gone       \* devices connected; those yet to hear the gateway left

request == <<phase, target, tried, attempt, got_first, excluded, skip, graced, circumstance>>
answer == <<chan, out, settled>>
tables == <<ready_waiters, sessions, ghost_closes>>
wire == <<toNode, toGw>>
device == <<node_of, job, up, gone>>
vars == <<request, woken, answer, connected, flaps, quarantined, in_flight, tables, wire, device>>

Session == Requests \X (1 .. MaxAttempts)
Current(r) == <<r, attempt[r]>>
Final == {"done", "failed", "dropped"}
Phases == Final \cup {"idle", "picking", "opening", "streaming", "settling"}
Circumstance == [grace : BOOLEAN, beside_heavy : BOOLEAN, sole_supplier : BOOLEAN]
Unread == [grace |-> FALSE, beside_heavy |-> FALSE, sole_supplier |-> FALSE]

\* Every variable has its type: in particular in_flight never underflows and
\* stays within max_queue_depth, a session's channel within its capacity, and
\* no request is tried more than max_retries + 1 times.
TypeOK ==
    /\ phase \in [Requests -> Phases]
    /\ target \in [Requests -> Nodes \cup {None}]
    /\ tried \in [Requests -> 0 .. MaxRetries + 1]
    /\ attempt \in [Requests -> 0 .. MaxAttempts]
    /\ got_first \in [Requests -> BOOLEAN]
    /\ excluded \in [Requests -> SUBSET Nodes]
    /\ skip \in [Requests -> SUBSET Nodes]
    /\ graced \in [Requests -> 0 .. MaxGrace]
    /\ circumstance \in [Requests -> Circumstance]
    /\ woken \in [Requests -> {"no", "ready", "failed"}]
    /\ \A r \in Requests : Len(chan[r]) <= ChanCap
    /\ out \in [Requests -> SUBSET (1 .. MaxAttempts)]
    /\ settled \in [Requests -> Seq(Nodes)]
    /\ connected \in BOOLEAN
    /\ flaps \in 0 .. MaxFlaps
    /\ quarantined \subseteq Nodes
    /\ in_flight \in [Nodes -> 0 .. MaxQueueDepth]
    /\ ready_waiters \cup sessions \cup ghost_closes \subseteq Session
    /\ node_of \in [Session -> Nodes \cup {None}]
    /\ job \in [Session -> {"none", "running", "complete", "failed", "aborted"}]
    /\ up \cup gone \subseteq Nodes

Init ==
    /\ phase = [r \in Requests |-> "idle"]
    /\ target = [r \in Requests |-> None]
    /\ tried = [r \in Requests |-> 0]
    /\ attempt = [r \in Requests |-> 0]
    /\ got_first = [r \in Requests |-> FALSE]
    /\ excluded = [r \in Requests |-> {}]
    /\ skip = [r \in Requests |-> {}]
    /\ graced = [r \in Requests |-> 0]
    /\ circumstance = [r \in Requests |-> Unread]
    /\ woken = [r \in Requests |-> "no"]
    /\ chan = [r \in Requests |-> <<>>]
    /\ out = [r \in Requests |-> {}]
    /\ settled = [r \in Requests |-> <<>>]
    /\ connected = TRUE /\ flaps = 0
    /\ quarantined = {}
    /\ in_flight = [n \in Nodes |-> 0]
    /\ ready_waiters = {} /\ sessions = {} /\ ghost_closes = {}
    /\ toNode = [s \in Session |-> <<>>]
    /\ toGw = [s \in Session |-> <<>>]
    /\ node_of = [s \in Session |-> None]
    /\ job = [s \in Session |-> "none"]
    /\ up = Nodes /\ gone = {}

(***************************************************************************)
(* The relay handle.  The outbox drops what is sent while disconnected.    *)
(***************************************************************************)
send_json(s, m) == IF connected THEN [toNode EXCEPT ![s] = Append(@, m)] ELSE toNode

close_session_Silent(s) == sessions' = sessions \ {s} /\ UNCHANGED toNode

close_session(s) == sessions' = sessions \ {s} /\ toNode' = send_json(s, "close")

try_send(q, e) == IF Len(q) < ChanCap THEN Append(q, e) ELSE q

\* The sessions of S, out of the table, get a last event if their channel has room.
Disconnected(S) ==
    [r \in Requests |-> IF Current(r) \in S THEN try_send(chan[r], "disconnect") ELSE chan[r]]

\* The oneshots of the waiters in W resolve, for the handlers still there to see it.
Woken(W, how) ==
    [r \in Requests |-> IF phase[r] = "opening" /\ Current(r) \in W THEN how ELSE woken[r]]

(***************************************************************************)
(* pick_and_dispatch.                                                      *)
(***************************************************************************)
eligible_devices == Nodes \ quarantined

single_supplier_large_cold_start_grace == LargeCold /\ Cardinality(eligible_devices) <= 1

Occupying(n) == {q \in Requests : target[q] = n /\ phase[q] \in {"opening", "streaming"}}
heavy_in_flight(n) == Occupying(n) \cap Heavy

Prefer(preferred, devices) == IF devices \cap preferred = {} THEN devices ELSE devices \cap preferred

\* full: the devices that last reported no free slot; sticky: the device that
\* served the conversation before, if any.
Candidates(r, full, sticky) ==
    LET heavy_free == Prefer({n \in Nodes : heavy_in_flight(n) = {}}, eligible_devices)
        slot_free == Prefer(Nodes \ full, heavy_free)
    IN  Prefer({sticky} \ skip[r], slot_free)

Viable(r, devices) == {n \in devices \ skip[r] : in_flight[n] < MaxQueueDepth}

pick(r, devices) ==
    {n \in Viable(r, devices) : \A m \in Viable(r, devices) : in_flight[n] <= in_flight[m]}

\* The head of the retry loop, run when a request arrives and for every retry.
BeginAttempt(r) ==
    /\ phase[r] = "idle"
    /\ phase' = [phase EXCEPT ![r] = "picking"]
    /\ tried' = [tried EXCEPT ![r] = @ + 1]
    /\ skip' = [skip EXCEPT ![r] = excluded[r]]
    /\ circumstance' = [circumstance EXCEPT ![r].grace = single_supplier_large_cold_start_grace]
    /\ UNCHANGED <<target, attempt, got_first, excluded, graced, woken, answer, connected, flaps,
                   quarantined, in_flight, tables, wire, device>>

NoDevice(r, devices) ==
    /\ pick(r, devices) = {}
    /\ phase' = [phase EXCEPT ![r] = "failed"]
    /\ skip' = [skip EXCEPT ![r] = {}]
    /\ UNCHANGED <<target, attempt, woken, in_flight, ready_waiters, toNode, node_of>>

HeavyRefused(r, n) ==
    /\ r \in Heavy /\ heavy_in_flight(n) # {}
    /\ skip' = [skip EXCEPT ![r] = @ \cup {n}]
    /\ UNCHANGED <<phase, target, attempt, woken, in_flight, ready_waiters, toNode, node_of>>

open_session(r, n) ==
    LET s == <<r, attempt[r] + 1>>
    IN  /\ ~(r \in Heavy /\ heavy_in_flight(n) # {})
        /\ s \in Session
        /\ in_flight' = [in_flight EXCEPT ![n] = @ + 1]
        /\ phase' = [phase EXCEPT ![r] = "opening"]
        /\ target' = [target EXCEPT ![r] = n]
        /\ attempt' = [attempt EXCEPT ![r] = @ + 1]
        /\ ready_waiters' = ready_waiters \cup {s}
        /\ node_of' = [node_of EXCEPT ![s] = n]
        /\ toNode' = send_json(s, "open")
        /\ UNCHANGED <<skip, woken>>

pick_and_dispatch(r) ==
    /\ phase[r] = "picking"
    /\ \E full \in SUBSET Nodes, sticky \in Nodes \cup {None} :
          LET devices == Candidates(r, full, sticky)
          IN  \/ NoDevice(r, devices)
              \/ \E n \in pick(r, devices) : HeavyRefused(r, n) \/ open_session(r, n)
    /\ UNCHANGED <<tried, got_first, excluded, graced, circumstance, answer, connected, flaps,
                   quarantined, sessions, ghost_closes, toGw, job, up, gone>>

\* The device answered in time: register the session, send the request over it.
\* The pick's own state ends here.
Handoff(r) ==
    /\ phase[r] = "opening" /\ woken[r] = "ready"
    /\ phase' = [phase EXCEPT ![r] = "streaming"]
    /\ sessions' = sessions \cup {Current(r)}
    /\ toNode' = send_json(Current(r), "request")
    /\ woken' = [woken EXCEPT ![r] = "no"]
    /\ skip' = [skip EXCEPT ![r] = {}]
    /\ graced' = [graced EXCEPT ![r] = 0]
    /\ circumstance' = [circumstance EXCEPT
          ![r].beside_heavy = r \notin Heavy /\ heavy_in_flight(target[r]) # {},
          ![r].sole_supplier = Cardinality(eligible_devices) <= 1]
    /\ UNCHANGED <<target, tried, attempt, got_first, excluded, answer, connected, flaps,
                   quarantined, in_flight, ready_waiters, ghost_closes, toGw, device>>

Uncounted(n) == [in_flight EXCEPT ![n] = @ - 1]

AfterOpenFailure_NotExcluded(r) ==
    /\ quarantined' = quarantined
    /\ UNCHANGED <<skip, graced>>

\* What a failed open costs the device: nothing under cold-start grace,
\* otherwise quarantine and this pick's avoidance.
AfterOpenFailure(r) ==
    IF circumstance[r].grace /\ graced[r] < MaxGrace
    THEN /\ graced' = [graced EXCEPT ![r] = @ + 1]
         /\ UNCHANGED <<quarantined, skip>>
    ELSE /\ quarantined' = quarantined \cup {target[r]}
         /\ skip' = [skip EXCEPT ![r] = @ \cup {target[r]}]
         /\ UNCHANGED graced

InFlightGuard_Leaks(r) == UNCHANGED in_flight

\* The guard of a dispatch that was not handed off, dropped on any exit.
InFlightGuard(r) == in_flight' = Uncounted(target[r])

\* The open failed, was answered by a dropped waiter, or timed out.
OpenFailed(r) ==
    /\ phase[r] = "opening" /\ woken[r] \in {"failed", "no"}
    /\ phase' = [phase EXCEPT ![r] = "picking"]
    /\ target' = [target EXCEPT ![r] = None]
    /\ ready_waiters' = ready_waiters \ {Current(r)}
    /\ woken' = [woken EXCEPT ![r] = "no"]
    /\ InFlightGuard(r)
    /\ AfterOpenFailure(r)
    /\ UNCHANGED <<tried, attempt, got_first, excluded, circumstance, answer, connected, flaps,
                   sessions, ghost_closes, wire, device>>

(***************************************************************************)
(* run_streaming and run_buffered: the events of one attempt.              *)
(***************************************************************************)
Chunk(r) ==
    /\ phase[r] = "streaming" /\ chan[r] # <<>> /\ Head(chan[r]) = "chunk"
    /\ chan' = [chan EXCEPT ![r] = Tail(@)]
    /\ got_first' = [got_first EXCEPT ![r] = TRUE]
    /\ out' = [out EXCEPT ![r] = @ \cup {attempt[r]}]
    /\ UNCHANGED <<phase, target, tried, attempt, excluded, skip, graced, circumstance, woken,
                   settled, connected, flaps, quarantined, in_flight, tables, wire, device>>

\* The events that end the attempt: the last of the channel, or, when it is
\* empty, that it was closed or stayed silent past the deadline.
Endings(r) ==
    IF chan[r] # <<>>
    THEN {Head(chan[r])} \ {"chunk"}
    ELSE {"timeout"} \cup (IF Current(r) \in sessions THEN {} ELSE {"closed"})

Completed_OnClose(e) == e \in {"complete", "closed"}

Completed(e) == e = "complete"

Retriable_AfterFirst(r, e) == ~Completed(e) /\ e # "clienterr" /\ tried[r] <= MaxRetries

Retriable(r, e) == ~Completed(e) /\ e # "clienterr" /\ ~got_first[r] /\ tried[r] <= MaxRetries

warmup_retry(r, e) ==
    e = "warmup" /\ r \in Buffered /\ ~got_first[r] /\ Cardinality(eligible_devices) <= 1

RetrySameDevice(r, e) == circumstance[r].grace \/ warmup_retry(r, e)

\* Quarantine of a device that failed before the first token with nothing else to do.
QuarantineIdle(r, e) ==
    /\ e \notin {"complete", "queuefull", "clienterr"}
    /\ ~got_first[r] /\ ~RetrySameDevice(r, e)
    /\ ~circumstance[r].beside_heavy /\ ~circumstance[r].sole_supplier
    /\ in_flight[target[r]] = 1

\* Quarantine on the way to the next device.
QuarantineRetry(r, e) ==
    /\ Retriable(r, e) /\ ~RetrySameDevice(r, e)
    /\ ~circumstance[r].beside_heavy
    /\ r \in Buffered => e # "queuefull"

Excludes(r, e) == IF RetrySameDevice(r, e) THEN excluded[r] ELSE excluded[r] \cup {target[r]}

EndAttempt(r) ==
    /\ phase[r] = "streaming"
    /\ \E e \in Endings(r) :
          /\ quarantined' = quarantined \cup
                (IF QuarantineIdle(r, e) \/ QuarantineRetry(r, e) THEN {target[r]} ELSE {})
          /\ excluded' = [excluded EXCEPT ![r] = IF Retriable(r, e) THEN Excludes(r, e) ELSE @]
          /\ phase' = [phase EXCEPT ![r] = CASE Retriable(r, e) -> "idle"
                                             [] Completed(e) /\ r \in Buffered -> "done"
                                             [] Completed(e) /\ r \notin Buffered -> "settling"
                                             [] OTHER -> "failed"]
          /\ settled' = [settled EXCEPT
                ![r] = IF Completed(e) /\ r \in Buffered THEN Append(@, target[r]) ELSE @]
    /\ close_session(Current(r))
    /\ in_flight' = Uncounted(target[r])
    /\ chan' = [chan EXCEPT ![r] = <<>>]
    /\ got_first' = [got_first EXCEPT ![r] = FALSE]
    /\ circumstance' = [circumstance EXCEPT ![r] = Unread]
    /\ UNCHANGED <<target, tried, attempt, skip, graced, woken, out, connected, flaps,
                   ready_waiters, ghost_closes, toGw, device>>

\* A stream settles after its [DONE].
Settle(r) ==
    /\ phase[r] = "settling"
    /\ phase' = [phase EXCEPT ![r] = "done"]
    /\ settled' = [settled EXCEPT ![r] = Append(@, target[r])]
    /\ UNCHANGED <<target, tried, attempt, got_first, excluded, skip, graced, circumstance, woken,
                   chan, out, connected, flaps, quarantined, in_flight, tables, wire, device>>

SessionCleanup_KeepsSession(r) == in_flight' = Uncounted(target[r]) /\ UNCHANGED <<sessions, toNode>>

\* The guard of an attempt that was handed off, dropped with the response.
SessionCleanup(r) == in_flight' = Uncounted(target[r]) /\ close_session(Current(r))

\* The client hangs up; the waiter of a session being opened stays behind.
Drop(r) ==
    /\ phase[r] \notin Final /\ tried[r] > 0
    /\ phase' = [phase EXCEPT ![r] = "dropped"]
    /\ \/ phase[r] = "opening" /\ InFlightGuard(r) /\ UNCHANGED <<sessions, toNode>>
       \/ phase[r] = "streaming" /\ SessionCleanup(r)
       \/ phase[r] \in {"idle", "picking", "settling"} /\ UNCHANGED <<in_flight, sessions, toNode>>
    /\ chan' = [chan EXCEPT ![r] = <<>>]
    /\ got_first' = [got_first EXCEPT ![r] = FALSE]
    /\ skip' = [skip EXCEPT ![r] = {}]
    /\ graced' = [graced EXCEPT ![r] = 0]
    /\ circumstance' = [circumstance EXCEPT ![r] = Unread]
    /\ woken' = [woken EXCEPT ![r] = "no"]
    /\ UNCHANGED <<target, tried, attempt, excluded, out, settled, connected, flaps, quarantined,
                   ready_waiters, ghost_closes, toGw, device>>

(***************************************************************************)
(* The gateway's relay reader (handle_incoming, dispatch_cluster).         *)
(***************************************************************************)
Owner(s) == s[1]

relay_ready(s) ==
    /\ ready_waiters' = ready_waiters \ {s}
    /\ woken' = Woken(ready_waiters \cap {s}, "ready")
    /\ UNCHANGED <<chan, quarantined, sessions, ghost_closes, toNode>>

inference_chunk(s) ==
    /\ s \in sessions
    /\ chan' = [chan EXCEPT ![Owner(s)] = try_send(@, "chunk")]
    /\ UNCHANGED <<woken, quarantined, tables, toNode>>

ghost_close_once(s) ==
    /\ s \notin sessions
    /\ ghost_closes' = ghost_closes \cup {s}
    /\ IF s \in ghost_closes THEN UNCHANGED <<sessions, toNode>> ELSE close_session(s)
    /\ UNCHANGED <<woken, chan, quarantined, ready_waiters>>

\* Complete or an error: the session leaves the table, then its channel is told.
inference_end(s, e) ==
    /\ sessions' = sessions \ {s}
    /\ chan' = [chan EXCEPT ![Owner(s)] = IF s \in sessions THEN try_send(@, e) ELSE @]
    /\ UNCHANGED <<woken, quarantined, ready_waiters, ghost_closes, toNode>>

\* fail_ready_waiters_for_target and fail_sessions_for_target.
peer_not_found(n) ==
    LET its == {s \in Session : node_of[s] = n}
    IN  /\ quarantined' = quarantined \cup {n}
        /\ ready_waiters' = ready_waiters \ its
        /\ woken' = Woken(ready_waiters \cap its, "failed")
        /\ sessions' = sessions \ its
        /\ chan' = Disconnected(sessions \cap its)
        /\ UNCHANGED <<ghost_closes, toNode>>

handle_incoming(s) ==
    /\ connected /\ toGw[s] # <<>>
    /\ toGw' = [toGw EXCEPT ![s] = Tail(@)]
    /\ LET m == Head(toGw[s])
       IN  \/ m = "ready" /\ relay_ready(s)
           \/ m = "chunk" /\ (inference_chunk(s) \/ ghost_close_once(s))
           \/ m \in Errors \cup {"complete"} /\ inference_end(s, m)
           \/ m = "peer_not_found" /\ peer_not_found(node_of[s])
    /\ UNCHANGED <<request, out, settled, connected, flaps, in_flight, device>>

(***************************************************************************)
(* Connections.  What was under way to a lost socket is lost; what the     *)
(* relay had not forwarded yet may or may not be.                          *)
(***************************************************************************)
Lost(q, S) == [s \in Session |-> IF s \in S THEN <<>> ELSE q[s]]
SessionsOf(n) == {s \in Session : node_of[s] = n}
Running(S) == {s \in S : job[s] = "running"}
Aborted(S) == [s \in Session |-> IF s \in Running(S) THEN "aborted" ELSE job[s]]

GatewayDisconnects ==
    /\ connected /\ flaps < MaxFlaps
    /\ connected' = FALSE /\ flaps' = flaps + 1
    /\ chan' = Disconnected(sessions)
    /\ sessions' = {}
    /\ woken' = Woken(ready_waiters, "failed")
    /\ ready_waiters' = {}
    /\ toGw' = Lost(toGw, Session)
    /\ toNode' \in {toNode, Lost(toNode, Session)}
    /\ gone' \in {gone \cup up} \cup (IF Replaces THEN {gone} ELSE {})
    /\ UNCHANGED <<request, out, settled, quarantined, in_flight, ghost_closes, node_of, job, up>>

GatewayReconnects ==
    /\ ~connected
    /\ connected' = TRUE
    /\ UNCHANGED <<request, woken, answer, flaps, quarantined, in_flight, tables, wire, device>>

\* abort_all_inference: a device that lost its relay connection stops its jobs.
NodeDisconnects(n) ==
    /\ n \in up /\ flaps < MaxFlaps
    /\ up' = up \ {n} /\ gone' = gone \ {n}
    /\ flaps' = flaps + 1
    /\ job' = Aborted(SessionsOf(n))
    /\ toNode' \in {toNode, Lost(toNode, SessionsOf(n))}
    /\ toGw' \in {toGw, Lost(toGw, SessionsOf(n))}
    /\ UNCHANGED <<request, woken, answer, connected, quarantined, in_flight, tables, node_of>>

NodeReconnects(n) ==
    /\ n \notin up
    /\ up' = up \cup {n}
    /\ UNCHANGED <<request, woken, answer, connected, flaps, quarantined, in_flight, tables, wire,
                   node_of, job, gone>>

\* abort_sessions_to_peer, on the relay's peerLeft.
HearsPeerLeft(n) ==
    /\ n \in up \cap gone
    /\ gone' = gone \ {n}
    /\ job' = Aborted(SessionsOf(n))
    /\ UNCHANGED <<request, woken, answer, connected, flaps, quarantined, in_flight, tables, wire,
                   node_of, up>>

QuarantineExpires(n) ==
    /\ n \in quarantined
    /\ quarantined' = quarantined \ {n}
    /\ UNCHANGED <<request, woken, answer, connected, flaps, in_flight, tables, wire, device>>

(***************************************************************************)
(* The relay and the devices.                                              *)
(***************************************************************************)
ToGateway(s, m) == IF connected THEN [toGw EXCEPT ![s] = Append(@, m)] ELSE toGw

\* The relay answers for a device that is not connected.
forwardToTarget(s) ==
    /\ toNode[s] # <<>> /\ node_of[s] \notin up
    /\ toNode' = [toNode EXCEPT ![s] = Tail(@)]
    /\ toGw' = ToGateway(s, "peer_not_found")
    /\ UNCHANGED <<request, woken, answer, connected, flaps, quarantined, in_flight, tables, device>>

\* The device's message loop: relayReady to an open, a job for a request, an
\* abort for a close.
node_dispatch(s) ==
    /\ toNode[s] # <<>> /\ node_of[s] \in up \ gone
    /\ toNode' = [toNode EXCEPT ![s] = Tail(@)]
    /\ LET m == Head(toNode[s])
       IN  \/ m = "open" /\ toGw' = ToGateway(s, "ready") /\ UNCHANGED job
           \/ m = "request" /\ job' = [job EXCEPT ![s] = "running"] /\ UNCHANGED toGw
           \/ m = "close" /\ job' = Aborted({s}) /\ UNCHANGED toGw
    /\ UNCHANGED <<request, woken, answer, connected, flaps, quarantined, in_flight, tables,
                   node_of, up, gone>>

JobEmits(s) ==
    /\ job[s] = "running" /\ Len(toGw[s]) < MaxWire
    /\ toGw' = ToGateway(s, "chunk")
    /\ UNCHANGED <<request, woken, answer, connected, flaps, quarantined, in_flight, tables, toNode,
                   device>>

JobEnds(s) ==
    /\ job[s] = "running"
    /\ \E e \in Errors \cup {"complete"} :
          /\ toGw' = ToGateway(s, e)
          /\ job' = [job EXCEPT ![s] = IF e = "complete" THEN e ELSE "failed"]
    /\ UNCHANGED <<request, woken, answer, connected, flaps, quarantined, in_flight, tables, toNode,
                   node_of, up, gone>>

Handler(r) ==
    \/ BeginAttempt(r) \/ pick_and_dispatch(r) \/ Handoff(r) \/ OpenFailed(r)
    \/ Chunk(r) \/ EndAttempt(r) \/ Settle(r)

Messages(s) == handle_incoming(s) \/ forwardToTarget(s) \/ node_dispatch(s)

Connections ==
    \/ GatewayDisconnects \/ GatewayReconnects
    \/ \E n \in Nodes : NodeDisconnects(n) \/ NodeReconnects(n) \/ HearsPeerLeft(n)
                        \/ QuarantineExpires(n)

Next ==
    \/ \E r \in Requests : Handler(r) \/ Drop(r)
    \/ \E s \in Session : Messages(s) \/ JobEmits(s) \/ JobEnds(s)
    \/ Connections

Spec == Init /\ [][Next]_vars

\* Handlers and message loops are tasks the runtime keeps polling, timers fire,
\* both ends reconnect with a bounded backoff, a running job keeps generating.
Fairness ==
    /\ \A r \in Requests : WF_vars(Handler(r))
    /\ \A s \in Session : /\ WF_vars(handle_incoming(s)) /\ WF_vars(forwardToTarget(s))
                           /\ WF_vars(node_dispatch(s)) /\ WF_vars(JobEmits(s))
    /\ WF_vars(GatewayReconnects)
    /\ \A n \in Nodes : WF_vars(NodeReconnects(n)) /\ WF_vars(HearsPeerLeft(n))

FairSpec == Spec /\ Fairness

(***************************************************************************)
(* Properties.                                                             *)
(***************************************************************************)
\* The answer a client gets is made of the chunks of one attempt: a request
\* is retried only while nothing was forwarded or accumulated.
OneSource == \A r \in DOMAIN out : Cardinality(out[r]) <= 1

\* in_flight, which the scheduler ranks and caps devices by, is exactly the
\* number of requests that occupy the device, whatever combination of failed
\* opens, retries, lost connections and dropped clients led here.
InFlightExact ==
    \A n \in DOMAIN in_flight :
       in_flight[n] = Cardinality({q \in DOMAIN phase :
          target[q] = n /\ phase[q] \in {"opening", "streaming"}})

\* The session table holds no session whose handler is gone or moved on to
\* another attempt, so nothing is delivered to the wrong attempt.
SessionsOwned == \A s \in sessions : s = Current(Owner(s)) /\ phase[Owner(s)] = "streaming"

\* The two tables that dispatch and delivery go by, in_flight and the relay
\* client's sessions, agree with the requests that are under way.
CountedExactly == InFlightExact /\ SessionsOwned

\* A request is charged once at most, for a job its last device completed,
\* alone or beside another request.
SettledServed ==
    \A r \in DOMAIN settled : settled[r] # <<>> =>
        Len(settled[r]) = 1 /\ job[Current(r)] = "complete" /\ settled[r][1] = node_of[Current(r)]

\* If no device generates for ever (a completion has a token limit), every
\* request that arrives is answered, refused or dropped by its client.
RequestsEnd ==
    (\A s \in Session : []<>(job[s] # "running"))
       => \A r \in Requests : (phase[r] # "idle") ~> (phase[r] \in Final)

\* A device does not go on generating for a session the gateway no longer
\* has: the handler's close, the ghost close or the relay's peerLeft stops it.
OrphanStops ==
    \A s \in Session : (job[s] = "running" /\ s \notin sessions) ~> (job[s] # "running")

=============================================================================
