---------------------------- MODULE NodeServing ----------------------------
(***************************************************************************)
(* How a supply node admits and runs inference requests: the relay message *)
(* pump and its worker tasks (node/src/cluster.rs) and the gate that lets  *)
(* requests of private networks (PIN) wait ahead of requests of the open   *)
(* network (DIN) for the serving permits (node/src/pin/gate.rs).           *)
(*                                                                         *)
(* A worker is a tokio task.  Aborting it takes effect only where the task *)
(* awaits: before its first poll ("spawned"), in the queue for a permit    *)
(* ("queued") and while it checks the model and streams ("serving").  The  *)
(* code between two awaits runs to its end whatever happens, so an abort   *)
(* that meets it there is only seen at the next await, or never.           *)
(***************************************************************************)
EXTENDS Naturals, FiniteSets, Sequences

CONSTANTS Sessions,          \* relay sessions, one inference request each
          Peers, Peer,       \* the consumer each session belongs to
          Pins,              \* requests that arrive over a private network
          MaxConcurrent,     \* permits of the semaphore
          DinQueueDepth,     \* din_queue_depth: DIN requests that may wait
          DinPriorityEqual,  \* din_priority_equal: the door is not held for PINs
          None

ASSUME SessionAssumption ==
    /\ IsFiniteSet(Sessions) /\ IsFiniteSet(Pins) /\ Sessions \cap Pins = {}
    /\ Peer \in [Sessions -> Peers] /\ None \notin Sessions
ASSUME PermitAssumption ==
    MaxConcurrent \in Nat \ {0} /\ DinQueueDepth \in Nat /\ DinPriorityEqual \in BOOLEAN

VARIABLES task,                \* where each session's worker is
          pin,                 \* where each PIN request is
          inserting,           \* the spawned session the pump has yet to file
          inference_tasks,     \* sessions with an entry in the task map
          aborted,             \* sessions whose handle has been aborted
          permits, waiting,    \* the semaphore: free permits, FIFO of waiters
          holding,             \* requests that own a permit
          guard,               \* sessions whose QueueGuard is alive
          queue_depth, is_generating,
          loading, clearing,   \* guards about to read queue_depth, to clear is_generating
          din_waiters, pin_waiters,
          completed_requests, failed_requests

pump == <<inserting, inference_tasks, aborted>>
semaphore == <<permits, waiting, holding>>
gauges == <<guard, queue_depth, is_generating, loading, clearing>>
outcomes == <<completed_requests, failed_requests>>
vars == <<task, pin, pump, semaphore, gauges, din_waiters, pin_waiters, outcomes>>

Awaiting == {"spawned", "queued", "serving"}
TaskStates == Awaiting \cup {"none", "refused", "ended", "gone"}
PinStates == {"none", "arrived", "waiting", "serving", "done"}

\* Every variable has its type; the DIN queue never outgrows din_queue_depth
\* and no gauge of NodeRuntimeState underflows (they are unsigned atomics).
TypeOK ==
    /\ task \in [Sessions -> TaskStates]
    /\ pin \in [Pins -> PinStates]
    /\ inserting \in Sessions \cup {None}
    /\ inference_tasks \subseteq Sessions
    /\ aborted \subseteq Sessions
    /\ permits \in 0 .. MaxConcurrent
    /\ waiting \in Seq(Sessions \cup Pins)
    /\ holding \subseteq Sessions \cup Pins
    /\ guard \subseteq Sessions
    /\ queue_depth \in Nat
    /\ is_generating \in BOOLEAN
    /\ loading \subseteq Sessions
    /\ clearing \subseteq Sessions
    /\ din_waiters \in 0 .. DinQueueDepth
    /\ pin_waiters \in Nat
    /\ completed_requests \in Nat
    /\ failed_requests \in Nat

\* NodeRuntimeState::new.
Init ==
    /\ task = [s \in Sessions |-> "none"]
    /\ pin = [p \in Pins |-> "none"]
    /\ inserting = None
    /\ inference_tasks = {}
    /\ aborted = {}
    /\ permits = MaxConcurrent
    /\ waiting = <<>>
    /\ holding = {}
    /\ guard = {}
    /\ queue_depth = 0
    /\ is_generating = FALSE
    /\ loading = {}
    /\ clearing = {}
    /\ din_waiters = 0
    /\ pin_waiters = 0
    /\ completed_requests = 0
    /\ failed_requests = 0

(***************************************************************************)
(* The tokio semaphore: first in, first out; a released permit goes to the *)
(* first waiter, so permits are free only while nobody waits.              *)
(***************************************************************************)
Enqueued(r) == \E i \in DOMAIN waiting : waiting[i] = r

Place(r) == CHOOSE i \in DOMAIN waiting : waiting[i] = r

\* The FIFO after r gave up its place, which closes.
Without(r) ==
    IF Enqueued(r)
    THEN [i \in 1 .. Len(waiting) - 1 |-> waiting[IF i < Place(r) THEN i ELSE i + 1]]
    ELSE waiting

acquire_owned(r) ==
    IF permits > 0
    THEN /\ permits' = permits - 1
         /\ holding' = holding \cup {r}
         /\ UNCHANGED waiting
    ELSE /\ waiting' = Append(waiting, r)
         /\ UNCHANGED <<permits, holding>>

Release(r) ==
    IF waiting = <<>>
    THEN /\ permits' = permits + 1
         /\ holding' = holding \ {r}
         /\ UNCHANGED waiting
    ELSE /\ holding' = (holding \ {r}) \cup {Head(waiting)}
         /\ waiting' = Tail(waiting)
         /\ UNCHANGED permits

(***************************************************************************)
(* The message pump.  A request's worker is spawned first and filed in the *)
(* task map afterwards; the worker may run, and even end, in between.      *)
(***************************************************************************)
handle_relay_data(s) ==
    /\ inserting = None
    /\ task[s] = "none"
    /\ task' = [task EXCEPT ![s] = "spawned"]
    /\ inserting' = s
    /\ UNCHANGED <<pin, inference_tasks, aborted, semaphore, gauges, din_waiters,
                   pin_waiters, outcomes>>

InsertTask ==
    /\ inserting # None
    /\ inference_tasks' = inference_tasks \cup {inserting}
    /\ inserting' = None
    /\ UNCHANGED <<task, pin, aborted, semaphore, gauges, din_waiters, pin_waiters, outcomes>>

(***************************************************************************)
(* Admission of a worker: a free permit at once, else a place in the       *)
(* bounded queue.  The door is closed to it while a PIN request waits.     *)
(***************************************************************************)

DoorOpen == DinPriorityEqual \/ pin_waiters = 0

QueueHasRoom == din_waiters < DinQueueDepth

\* The counters a worker touches once it owns a permit.
Serve(s) ==
    /\ task' = [task EXCEPT ![s] = "serving"]
    /\ guard' = guard \cup {s}
    /\ queue_depth' = queue_depth + 1
    /\ is_generating' = TRUE
    /\ UNCHANGED <<loading, clearing>>

\* try_acquire_din: take a free permit, or go on to the queue.
try_acquire_din(s) ==
    /\ task[s] = "spawned"
    /\ s \notin aborted
    /\ IF DoorOpen /\ permits > 0
       THEN acquire_owned(s) /\ Serve(s)
       ELSE task' = [task EXCEPT ![s] = "refused"] /\ UNCHANGED <<semaphore, gauges>>
    /\ UNCHANGED <<pin, pump, din_waiters, pin_waiters, outcomes>>

\* A request that ends before it owned a permit: one failure, one error reply.
Refuse(s) ==
    /\ task' = [task EXCEPT ![s] = "ended"]
    /\ failed_requests' = failed_requests + 1
    /\ UNCHANGED completed_requests

\* try_join_din_queue and acquire_din up to its await.  Refused when the queue
\* is full, or (out of the queue again) when a PIN holds the door; served at
\* once when a permit came free meanwhile (acquire_owned does not yield then);
\* else waiting.
try_join_din_queue(s) ==
    /\ task[s] = "refused"
    /\ \/ /\ ~(QueueHasRoom /\ DoorOpen)
          /\ Refuse(s)
          /\ UNCHANGED <<semaphore, gauges, din_waiters>>
       \/ /\ QueueHasRoom /\ DoorOpen
          /\ permits > 0
          /\ Serve(s)
          /\ acquire_owned(s)
          /\ UNCHANGED <<din_waiters, outcomes>>
       \/ /\ QueueHasRoom /\ DoorOpen
          /\ permits = 0
          /\ task' = [task EXCEPT ![s] = "queued"]
          /\ din_waiters' = din_waiters + 1
          /\ acquire_owned(s)
          /\ UNCHANGED <<gauges, outcomes>>
    /\ UNCHANGED <<pin, pump, pin_waiters>>

\* The queued worker wakes up with the permit it was handed.
leave_din_queue(s) ==
    /\ task[s] = "queued"
    /\ s \notin aborted
    /\ s \in holding
    /\ din_waiters' = din_waiters - 1
    /\ Serve(s)
    /\ UNCHANGED <<pin, pump, semaphore, pin_waiters, outcomes>>

\* din_queue_timeout_secs passed: out of the semaphore's FIFO and the queue.
QueueTimeout(s) ==
    /\ task[s] = "queued"
    /\ s \notin aborted
    /\ Enqueued(s)
    /\ waiting' = Without(s)
    /\ din_waiters' = din_waiters - 1
    /\ Refuse(s)
    /\ UNCHANGED <<pin, pump, permits, holding, gauges, pin_waiters>>

(***************************************************************************)
(* The end of a worker.  The pre-check, the stream and its watchdogs end   *)
(* in one outcome; then the permit and the QueueGuard are dropped (permit  *)
(* first after the stream, guard first on an early return and on an        *)
(* abort), and last the worker takes its own entry out of the map.         *)
(***************************************************************************)
Finish(s) ==
    /\ task[s] = "serving"
    /\ s \notin aborted
    /\ task' = [task EXCEPT ![s] = "ended"]
    /\ \/ completed_requests' = completed_requests + 1 /\ UNCHANGED failed_requests
       \/ failed_requests' = failed_requests + 1 /\ UNCHANGED completed_requests
    /\ UNCHANGED <<pin, pump, semaphore, gauges, din_waiters, pin_waiters>>

DropPermit(s) ==
    /\ task[s] = "ended"
    /\ s \in holding
    /\ Release(s)
    /\ UNCHANGED <<task, pin, pump, gauges, din_waiters, pin_waiters, outcomes>>

\* QueueGuard::drop: decrement, load, and clear is_generating if it read zero.
DropGuard(s) ==
    /\ task[s] = "ended"
    /\ s \in guard
    /\ guard' = guard \ {s}
    /\ queue_depth' = queue_depth - 1
    /\ loading' = loading \cup {s}
    /\ UNCHANGED <<task, pin, pump, semaphore, is_generating, clearing, din_waiters,
                   pin_waiters, outcomes>>

LastOut_BeforeDecrement == queue_depth = 1
LastOut == queue_depth = 0

LoadDepth(s) ==
    /\ s \in loading
    /\ loading' = loading \ {s}
    /\ clearing' = IF LastOut THEN clearing \cup {s} ELSE clearing
    /\ UNCHANGED <<task, pin, pump, semaphore, guard, queue_depth, is_generating, din_waiters,
                   pin_waiters, outcomes>>

ClearGenerating(s) ==
    /\ s \in clearing
    /\ clearing' = clearing \ {s}
    /\ is_generating' = FALSE
    /\ UNCHANGED <<task, pin, pump, semaphore, guard, queue_depth, loading, din_waiters,
                   pin_waiters, outcomes>>

RemoveTask(s) ==
    /\ task[s] = "ended"
    /\ s \notin holding \cup guard \cup loading \cup clearing
    /\ task' = [task EXCEPT ![s] = "gone"]
    /\ inference_tasks' = inference_tasks \ {s}
    /\ UNCHANGED <<pin, inserting, aborted, semaphore, gauges, din_waiters, pin_waiters, outcomes>>

(***************************************************************************)
(* Aborts, all from the pump: relayClose, a peer that left or is not       *)
(* found, the relay connection lost.  abort_one_locked removes the entry,  *)
(* aborts the handle and counts the request as failed.                     *)
(***************************************************************************)

Abort(S) ==
    /\ inserting = None
    /\ S # {}
    /\ inference_tasks' = inference_tasks \ S
    /\ aborted' = aborted \cup S
    /\ failed_requests' = failed_requests + Cardinality(S)
    /\ UNCHANGED <<task, pin, inserting, semaphore, gauges, din_waiters, pin_waiters,
                   completed_requests>>

abort_session(s) == Abort({s} \cap inference_tasks)

abort_sessions_to_peer(c) == Abort({s \in inference_tasks : Peer[s] = c})

abort_all_inference == Abort(inference_tasks)

\* The runtime drops an aborted worker's future at its await: the place in
\* the semaphore's FIFO goes, the permit and the guard are dropped like on any
\* return.  What the future would have done after the await is not done;
\* leave_din_queue is one of those things.
Cancel_NoGuard(s) ==
    /\ s \in aborted
    /\ task[s] \in Awaiting
    /\ task' = [task EXCEPT ![s] = "ended"]
    /\ waiting' = Without(s)
    /\ guard' = guard \ {s}
    /\ UNCHANGED <<pin, pump, permits, holding, queue_depth, is_generating, loading, clearing,
                   din_waiters, pin_waiters, outcomes>>

Cancel_LosesPermit(s) ==
    /\ s \in aborted
    /\ task[s] \in Awaiting
    /\ task' = [task EXCEPT ![s] = "ended"]
    /\ waiting' = Without(s)
    /\ holding' = holding \ {s}
    /\ UNCHANGED <<pin, pump, permits, gauges, din_waiters, pin_waiters, outcomes>>

Cancel(s) ==
    /\ s \in aborted
    /\ task[s] \in Awaiting
    /\ task' = [task EXCEPT ![s] = "ended"]
    /\ waiting' = Without(s)
    /\ UNCHANGED <<pin, pump, permits, holding, gauges, din_waiters, pin_waiters, outcomes>>

(***************************************************************************)
(* PIN requests (pin/serve.rs handle_request, gate.rs acquire_pin): each   *)
(* announces itself, waits its turn in the same FIFO, serves and releases. *)
(***************************************************************************)
PinArrives(p) ==
    /\ pin[p] = "none"
    /\ pin' = [pin EXCEPT ![p] = "arrived"]
    /\ pin_waiters' = pin_waiters + 1
    /\ UNCHANGED <<task, pump, semaphore, gauges, din_waiters, outcomes>>

acquire_pin(p) ==
    /\ pin[p] = "arrived"
    /\ acquire_owned(p)
    /\ IF permits > 0
       THEN pin' = [pin EXCEPT ![p] = "serving"] /\ pin_waiters' = pin_waiters - 1
       ELSE pin' = [pin EXCEPT ![p] = "waiting"] /\ UNCHANGED pin_waiters
    /\ UNCHANGED <<task, pump, gauges, din_waiters, outcomes>>

PinWakes(p) ==
    /\ pin[p] = "waiting"
    /\ p \in holding
    /\ pin' = [pin EXCEPT ![p] = "serving"]
    /\ pin_waiters' = pin_waiters - 1
    /\ UNCHANGED <<task, pump, semaphore, gauges, din_waiters, outcomes>>

PinTimeout(p) ==
    /\ pin[p] = "waiting"
    /\ Enqueued(p)
    /\ pin' = [pin EXCEPT ![p] = "done"]
    /\ pin_waiters' = pin_waiters - 1
    /\ waiting' = Without(p)
    /\ UNCHANGED <<task, pump, permits, holding, gauges, din_waiters, outcomes>>

handle_request(p) ==
    /\ pin[p] = "serving"
    /\ pin' = [pin EXCEPT ![p] = "done"]
    /\ Release(p)
    /\ UNCHANGED <<task, pump, gauges, din_waiters, pin_waiters, outcomes>>

(***************************************************************************)
(* The node.                                                               *)
(***************************************************************************)
Aborts ==
    \/ \E s \in Sessions : abort_session(s)
    \/ \E c \in Peers : abort_sessions_to_peer(c)
    \/ abort_all_inference

\* The steps a worker takes by itself.
Work(s) ==
    \/ try_acquire_din(s) \/ try_join_din_queue(s) \/ leave_din_queue(s)
    \/ Finish(s) \/ DropPermit(s) \/ DropGuard(s) \/ LoadDepth(s) \/ ClearGenerating(s)
    \/ RemoveTask(s) \/ Cancel(s)

PinWork(p) == acquire_pin(p) \/ PinWakes(p) \/ handle_request(p)

Next ==
    \/ \E s \in Sessions : handle_relay_data(s) \/ Work(s) \/ QueueTimeout(s)
    \/ InsertTask
    \/ Aborts
    \/ \E p \in Pins : PinArrives(p) \/ PinWork(p) \/ PinTimeout(p)

\* The runtime polls every runnable task, and a stream ends by its watchdogs
\* and its budget (STREAM_BUDGET_SECONDS).  Nothing is assumed of the queue
\* timeouts, of arrivals or of aborts.
Fairness ==
    /\ WF_vars(InsertTask)
    /\ \A s \in Sessions : WF_vars(Work(s))
    /\ \A p \in Pins : WF_vars(PinWork(p))

Spec == Init /\ [][Next]_vars

FairSpec == Spec /\ Fairness

(***************************************************************************)
(* What holds.                                                             *)
(***************************************************************************)
Live(r) ==
    IF r \in Pins THEN pin[r] \in {"waiting", "serving"}
                  ELSE task[r] \in {"queued", "serving", "ended"}

\* Wherever an abort, a timeout or a hand-over meets a request, no permit of
\* the semaphore is lost or doubled: each is free or owned by a request that
\* still runs and will drop it, and none is free while a request waits.
PermitsConserved ==
    /\ permits + Cardinality(holding) = MaxConcurrent
    /\ \A r \in holding : Live(r)
    /\ waiting # <<>> => permits = 0

\* queue_depth counts exactly the workers between the permit and the drop of
\* their QueueGuard, aborted ones included: LoadModel's busy check, the swap's
\* drain and the heartbeat read it.
QueueDepthExact ==
    /\ queue_depth = Cardinality(guard)
    /\ \A s \in Sessions : task[s] = "serving" => s \in guard
    /\ \A s \in guard : task[s] \in {"serving", "ended"}

\* A node that reports isGenerating has a request in service, or one whose
\* guard is about to clear it, although the depth and the flag are two atomics
\* that every request updates in separate steps: an idle node never advertises
\* itself as busy for good.
IdleNotGenerating == is_generating => queue_depth > 0 \/ loading \cup clearing # {}

\* The permits add up and those who wait have none to take; the gauge of the
\* queue counts the workers between permit and guard; and an idle node does not
\* report that it generates.
CountsExact == PermitsConserved /\ QueueDepthExact /\ IdleNotGenerating

\* A request in the FIFO gets its permit (or gives up by itself) even if no
\* queue timeout ever fires: the workers ahead of it end and what they hold is
\* released whether they finish or are aborted.
NoStarvation == \A r \in Sessions \cup Pins : Enqueued(r) ~> ~Enqueued(r)
=============================================================================
