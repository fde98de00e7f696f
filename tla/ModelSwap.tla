----------------------------- MODULE ModelSwap -----------------------------
(***************************************************************************)
(* Swapping the model a supply node serves (node/src/swap.rs), under the   *)
(* requests that use it: SwapManager's RwLock, the supervised llama-server *)
(* subprocess (supervisor.rs), the HTTP proxy's cached readiness flag      *)
(* (inference.rs) and the serving paths of the open network (cluster.rs)   *)
(* and of private networks (pin/serve.rs), which check the model, then     *)
(* open the stream.                                                        *)
(*                                                                         *)
(* tokio's RwLock is fair: everyone queues in lockq, readers at the head   *)
(* enter together, a writer at the head waits until they have left.        *)
(***************************************************************************)
EXTENDS Naturals, FiniteSets, Sequences

CONSTANTS Models,         \* models with a file on disk, all swappable
          FirstModel,     \* the one the node starts with
          DinRequests,    \* requests that count in queue_depth
          PinRequests,    \* requests of private networks, which do not
          Wanted,         \* the model each request names
          Swaps, Target,  \* loads, and the model each asks for
          Local,          \* the loads asked for on the node's own status page
          Unloads,        \* unloads asked for on the status page
          MaxCrashes,     \* bound: crashes of the subprocess
          None

Requests == DinRequests \cup PinRequests

VARIABLES backend,     \* model of inner.backend's proxy, None for Unavailable
          ready,       \* that proxy's cached readiness flag
          model_id,    \* inner.model_id, None when cleared
          supervisor,  \* model inner.supervisor keeps running, None if there is none
          new_sup,     \* model of the supervisor a swap has spawned and not committed
          process,     \* model of the live subprocess, None while it is down
          crashes,
          lockq,       \* who waits for the RwLock, first come first served
          readers,     \* requests that hold a read guard while they send
          request,     \* where each request is
          swap         \* where each load or unload is

inner == <<backend, ready, model_id, supervisor>>
child == <<new_sup, process, crashes>>
vars == <<inner, child, lockq, readers, request, swap>>

RequestStates == {"none", "checking", "checked", "opening", "sending", "streaming", "cut", "done"}
SwapStates == {"none", "asking", "draining", "drained", "locking", "spawning", "loaded", "error", "unloaded"}

\* Every variable has its type, and the read guards alive are those of the
\* requests inside stream_completion.
TypeOK ==
    /\ {backend, model_id, supervisor, new_sup, process} \subseteq Models \cup {None}
    /\ ready \in BOOLEAN
    /\ crashes \in 0 .. MaxCrashes
    /\ lockq \in Seq(Requests \cup Swaps \cup Unloads)
    /\ request \in [Requests -> RequestStates]
    /\ readers = {r \in Requests : request[r] = "sending"}
    /\ swap \in [Swaps \cup Unloads -> SwapStates]

\* A node whose first model is up.
Init ==
    /\ backend = FirstModel /\ model_id = FirstModel
    /\ supervisor = FirstModel /\ process = FirstModel
    /\ ready = TRUE
    /\ new_sup = None
    /\ crashes = 0
    /\ lockq = <<>>
    /\ readers = {}
    /\ request = [r \in Requests |-> "none"]
    /\ swap = [w \in Swaps \cup Unloads |-> "none"]

(***************************************************************************)
(* Shared state as the code reads it.                                      *)
(***************************************************************************)
\* The QueueGuards alive: requests of private networks have none.
queue_depth ==
    Cardinality({r \in DinRequests : request[r] \notin {"none", "done"}})

Writing == \E w \in Swaps : swap[w] = "spawning"

Granted(a) == lockq # <<>> /\ Head(lockq) = a /\ ~Writing

\* loaded_models and refresh_ready: a proxy that was ready is believed, one
\* that was not is probed.
refresh_ready_NoProbe == backend # None /\ ready

refresh_ready == backend # None /\ (ready \/ process = backend)

loaded_models == IF refresh_ready THEN {backend} ELSE {}

\* The subprocess dies: streams it was feeding break off.
Cut == [r \in Requests |-> IF request[r] = "streaming" THEN "cut" ELSE request[r]]

(***************************************************************************)
(* A request: admission, the model pre-check, the stream.                  *)
(***************************************************************************)
Admit(r) ==
    /\ request[r] = "none"
    /\ request' = [request EXCEPT ![r] = "checking"]
    /\ lockq' = Append(lockq, r)
    /\ UNCHANGED <<inner, child, readers, swap>>

\* The pre-check; a request for another model is refused with a typed error.
PreCheck(r) ==
    /\ Granted(r)
    /\ request[r] = "checking"
    /\ lockq' = Tail(lockq)
    /\ ready' = refresh_ready
    /\ request' = [request EXCEPT ![r] = IF Wanted[r] \in loaded_models THEN "checked" ELSE "done"]
    /\ UNCHANGED <<backend, model_id, supervisor, child, readers, swap>>

OpenStream(r) ==
    /\ request[r] = "checked"
    /\ request' = [request EXCEPT ![r] = "opening"]
    /\ lockq' = Append(lockq, r)
    /\ UNCHANGED <<inner, child, readers, swap>>

EnterBackend(r) ==
    /\ Granted(r)
    /\ request[r] = "opening"
    /\ lockq' = Tail(lockq)
    /\ readers' = readers \cup {r}
    /\ request' = [request EXCEPT ![r] = "sending"]
    /\ UNCHANGED <<inner, child, swap>>

\* stream_completion, under the read guard until the response headers are in.
\* The body's model field is overwritten with the proxy's own model.
Answered(r) ==
    /\ process # None
    /\ ready' = TRUE
    /\ request' = [request EXCEPT ![r] = "streaming"]

NotAnswered(r) ==
    /\ \/ process = None /\ ready' = FALSE
       \/ process # None /\ UNCHANGED ready
    /\ request' = [request EXCEPT ![r] = "done"]

stream_completion_KeepsGuard(r) ==
    /\ request[r] = "sending"
    /\ readers' = IF backend # None /\ process # None THEN readers \ {r} ELSE readers
    /\ IF backend = None
       THEN request' = [request EXCEPT ![r] = "done"] /\ UNCHANGED ready
       ELSE Answered(r) \/ NotAnswered(r)
    /\ UNCHANGED <<backend, model_id, supervisor, child, lockq, swap>>

stream_completion(r) ==
    /\ request[r] = "sending"
    /\ readers' = readers \ {r}
    /\ IF backend = None
       THEN request' = [request EXCEPT ![r] = "done"] /\ UNCHANGED ready
       ELSE Answered(r) \/ NotAnswered(r)
    /\ UNCHANGED <<backend, model_id, supervisor, child, lockq, swap>>

EndOfStream(r) ==
    /\ request[r] \in {"streaming", "cut"}
    /\ request' = [request EXCEPT ![r] = "done"]
    /\ UNCHANGED <<inner, child, lockq, readers, swap>>

(***************************************************************************)
(* The supervisor: restart after a crash, however often.                   *)
(***************************************************************************)
Spawn ==
    /\ process = None
    /\ \E m \in {supervisor, new_sup} \ {None} : process' = m
    /\ UNCHANGED <<inner, new_sup, crashes, lockq, readers, request, swap>>

Crash ==
    /\ process # None
    /\ crashes < MaxCrashes
    /\ crashes' = crashes + 1
    /\ process' = None
    /\ request' = Cut
    /\ UNCHANGED <<inner, new_sup, lockq, readers, swap>>

\* The periodic heartbeat and register refresh read loaded_models.
Heartbeat ==
    /\ lockq = <<>>
    /\ ~Writing
    /\ ready' = refresh_ready
    /\ UNCHANGED <<backend, model_id, supervisor, child, lockq, readers, request, swap>>

(***************************************************************************)
(* A load: refused while the node is busy (over the relay), answered at    *)
(* once when the model is already the node's, else drain, lock, replace.   *)
(***************************************************************************)
\* LoadModel in handle_relay_data; load_model of the status page does not look
\* at queue_depth.
LoadModel(w) ==
    /\ swap[w] = "none"
    /\ IF w \in Local \/ queue_depth = 0
       THEN swap' = [swap EXCEPT ![w] = "asking"] /\ lockq' = Append(lockq, w)
       ELSE swap' = [swap EXCEPT ![w] = "error"] /\ UNCHANGED lockq
    /\ UNCHANGED <<inner, child, readers, request>>

AlreadyServing(w) ==
    /\ Granted(w)
    /\ swap[w] = "asking"
    /\ lockq' = Tail(lockq)
    /\ swap' = [swap EXCEPT ![w] = IF model_id = Target[w] THEN "loaded" ELSE "draining"]
    /\ UNCHANGED <<inner, child, readers, request>>

\* The drain loop: on to the lock when queue_depth reads zero, an error when
\* drain_budget passes first.
Drain(w) ==
    /\ swap[w] = "draining"
    /\ swap' = [swap EXCEPT ![w] = IF queue_depth = 0 THEN "drained" ELSE "error"]
    /\ UNCHANGED <<inner, child, lockq, readers, request>>

QueueForLock(w) ==
    /\ swap[w] = "drained"
    /\ swap' = [swap EXCEPT ![w] = "locking"]
    /\ lockq' = Append(lockq, w)
    /\ UNCHANGED <<inner, child, readers, request>>

\* Under the write lock, held until the load is over: shut the running
\* subprocess down (and wait for it), spawn the new one.
Replace_KeepsOld(w) ==
    /\ Granted(w)
    /\ swap[w] = "locking"
    /\ readers = {}
    /\ lockq' = Tail(lockq)
    /\ new_sup' = Target[w]
    /\ swap' = [swap EXCEPT ![w] = "spawning"]
    /\ UNCHANGED <<inner, process, crashes, readers, request>>

Replace(w) ==
    /\ Granted(w)
    /\ swap[w] = "locking"
    /\ readers = {}
    /\ lockq' = Tail(lockq)
    /\ supervisor' = None
    /\ process' = None
    /\ request' = Cut
    /\ new_sup' = Target[w]
    /\ swap' = [swap EXCEPT ![w] = "spawning"]
    /\ UNCHANGED <<backend, ready, model_id, crashes, readers>>

\* wait_for_health saw the model: warm up and commit.
Commit(w) ==
    /\ swap[w] = "spawning"
    /\ process = new_sup
    /\ backend' = Target[w]
    /\ ready' = TRUE
    /\ model_id' = Target[w]
    /\ supervisor' = new_sup
    /\ new_sup' = None
    /\ swap' = [swap EXCEPT ![w] = "loaded"]
    /\ UNCHANGED <<process, crashes, lockq, readers, request>>

\* health_budget passed: the new subprocess is shut down, the old backend, its
\* flag and model_id stay as they are.
HealthFailed(w) ==
    /\ swap[w] = "spawning"
    /\ supervisor' = None
    /\ new_sup' = None
    /\ process' = None
    /\ swap' = [swap EXCEPT ![w] = "error"]
    /\ UNCHANGED <<backend, ready, model_id, crashes, lockq, readers, request>>

AskUnload(u) ==
    /\ swap[u] = "none"
    /\ swap' = [swap EXCEPT ![u] = "locking"]
    /\ lockq' = Append(lockq, u)
    /\ UNCHANGED <<inner, child, readers, request>>

unload_current(u) ==
    /\ Granted(u)
    /\ swap[u] = "locking"
    /\ readers = {}
    /\ lockq' = Tail(lockq)
    /\ swap' = [swap EXCEPT ![u] = "unloaded"]
    /\ supervisor' = None
    /\ process' = None
    /\ request' = Cut
    /\ backend' = None
    /\ model_id' = None
    /\ UNCHANGED <<ready, new_sup, crashes, readers>>

Serve(r) ==
    \/ PreCheck(r) \/ OpenStream(r) \/ EnterBackend(r) \/ stream_completion(r) \/ EndOfStream(r)

swap_to_path(w) ==
    \/ AlreadyServing(w) \/ Drain(w) \/ QueueForLock(w) \/ Replace(w) \/ Commit(w) \/ HealthFailed(w)

Next ==
    \/ \E r \in Requests : Admit(r) \/ Serve(r)
    \/ \E w \in Swaps : LoadModel(w) \/ swap_to_path(w)
    \/ \E u \in Unloads : AskUnload(u) \/ unload_current(u)
    \/ Spawn \/ Crash \/ Heartbeat

\* Every task is polled; a send and a stream end by STREAM_BUDGET_SECONDS, a
\* drain and a health check by their budgets; the supervisor's backoff ends;
\* the heartbeat ticks.  Nothing is assumed of arrivals and crashes.
Fairness ==
    /\ \A r \in Requests : WF_vars(Serve(r))
    /\ \A w \in Swaps : WF_vars(swap_to_path(w))
    /\ \A u \in Unloads : WF_vars(unload_current(u))
    /\ WF_vars(Spawn) /\ WF_vars(Heartbeat)

Spec == Init /\ [][Next]_vars

FairSpec == Spec /\ Fairness

(***************************************************************************)
(* What holds.                                                             *)
(***************************************************************************)
\* All subprocesses listen on the same port: there is never a supervisor, nor
\* a live subprocess, beside another one, and none outlives its supervisor.
OneSubprocess ==
    /\ supervisor = None \/ new_sup = None
    /\ process # None => process \in {supervisor, new_sup}

\* Every load is answered, with ModelLoaded or an error, although it queues
\* for the lock behind requests and other loads.
LoadsAnswered ==
    \A w \in Swaps : swap[w] = "asking" ~> swap[w] \in {"loaded", "error"}

\* Once crashes are over, a node with a supervised subprocess advertises its
\* model again: a failed send clears the flag, the heartbeat's probe sets it.
NodeRecovers == <>[](supervisor # None => ready /\ process = model_id)
=============================================================================
