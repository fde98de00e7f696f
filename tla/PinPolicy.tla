----------------------------- MODULE PinPolicy -----------------------------
(***************************************************************************)
(* The desired loadout of a device: what the staff of its private networks *)
(* ask for (gateway/src/pins.rs), how the node's sync loop hears of it,    *)
(* brings it about and reports back (node/src/pin/runtime.rs), and the     *)
(* store of downloaded models it works with, which the local app uses too  *)
(* (node/src/status_server.rs, model_registry.rs).                         *)
(*                                                                         *)
(* The device is an active member of every network here: PinNetwork models *)
(* membership.  SwapManager is its interface: ModelSwap models it.         *)
(***************************************************************************)
EXTENDS Naturals, FiniteSets, Sequences, SequencesExt

CONSTANTS Networks,    \* number of networks; the sync loop visits 1, 2, ...
          Catalog,     \* the catalog's models, in the order the code visits them
          Usable,      \* those that fit this device's memory
          Policies,    \* loadouts the staff choose between: [Models -> desired or None]
          MaxEdits,    \* bound: choices of the staff and of the local user
          MaxFaults,   \* bound: failed calls, downloads and loads, and restarts
          None

Pins == 1 .. Networks
Models == Range(Catalog)
Desired == {"loaded", "downloaded", "none"}
Applied == {"loaded", "downloaded", "downloading", "absent", "error", "opted_out"}
Callers == {"pin", "app", "task"}   \* who runs load_model: reconciler, app, download

VARIABLES desired, applied,   \* pin_model_policy, the two state columns
          known,              \* PinState.model_policy of each network
          accepts,            \* LocalPinSettings.allow_remote_models
          policy_status,      \* what the last reconciliation found
          loop,               \* where the sync loop is
          disk, record,       \* whole model files; downloaded_file_path entries
          transfer, task,     \* active_transfer; the download task
          active,             \* registry.active_model_id
          model_id, running,  \* SwapManager: its model, and a live subprocess
          call,               \* the load_model calls in flight
          edits, faults

gateway == <<desired, applied>>
store == <<disk, record, transfer, task>>
swap == <<model_id, running>>
node == <<known, accepts, policy_status, loop>>
vars == <<gateway, node, store, active, swap, call, edits, faults>>

Nothing == [p \in Pins |-> [m \in Models |-> None]]
Sync == [pc |-> "sync", pin |-> 1, todo |-> <<>>, accept |-> TRUE, results |-> Nothing]
Idle == [pc |-> "idle", model |-> None, had |-> FALSE]

TypeOK ==
    /\ desired \in [Pins -> [Models -> Desired \cup {None}]]
    /\ known \in [Pins -> [Models -> Desired \cup {None}]]
    /\ applied \in [Pins -> [Models -> Applied \cup {None}]]
    /\ policy_status \in [Pins -> [Models -> Applied \cup {None}]]
    /\ {accepts, running} \subseteq BOOLEAN
    /\ loop.pc \in {"sync", "reply", "reconcile"} /\ loop.pin \in Pins
    /\ disk \subseteq Models /\ record \subseteq Models
    /\ {transfer, active, model_id, task.model} \subseteq Models \cup {None}
    /\ task.pc \in {"none", "fetch", "fetched", "renamed"}
    /\ \A c \in Callers : call[c].pc \in {"idle", "empty", "check", "swap", "ok", "failed", "unloaded"}
    /\ edits \in 0 .. MaxEdits /\ faults \in 0 .. MaxFaults

NoTask == [pc |-> "none", model |-> None]

Init ==
    /\ desired = Nothing /\ applied = Nothing /\ known = Nothing
    /\ accepts = TRUE
    /\ policy_status = Nothing
    /\ loop = Sync
    /\ disk = {} /\ record = {}
    /\ transfer = None /\ task = NoTask
    /\ active = None
    /\ model_id = None /\ running = FALSE
    /\ call = [c \in Callers |-> Idle]
    /\ edits = 0 /\ faults = 0

Edit == edits < MaxEdits /\ edits' = edits + 1
Fault == faults < MaxFaults /\ faults' = faults + 1

(***************************************************************************)
(* The gateway: staff replace a device's loadout; every sync carries the   *)
(* device's last report and brings its policy back.                        *)
(***************************************************************************)
\* set_device_models: the old rows go, the new ones have no applied_state.
set_model_policy(p, policy) ==
    /\ Edit
    /\ desired' = [desired EXCEPT ![p] = policy]
    /\ applied' = [applied EXCEPT ![p] = Nothing[p]]
    /\ UNCHANGED <<node, store, active, swap, call, faults>>

Reported(p) ==
    [m \in Models |->
        IF desired[p][m] # None /\ policy_status[p][m] # None
        THEN policy_status[p][m] ELSE applied[p][m]]

report_model_policy_status_Never(p) ==
    /\ loop.pc = "sync" /\ loop.pin = p
    /\ loop' = [loop EXCEPT !.pc = "reply"]
    /\ UNCHANGED <<gateway, known, accepts, policy_status, store, active, swap, call, edits, faults>>

report_model_policy_status(p) ==
    /\ loop.pc = "sync" /\ loop.pin = p
    /\ applied' = [applied EXCEPT ![p] = Reported(p)]
    /\ loop' = [loop EXCEPT !.pc = "reply"]
    /\ UNCHANGED <<desired, known, accepts, policy_status, store, active, swap, call, edits, faults>>

\* The entries a reconciliation works through: snapshot(), then the rows of
\* each network, ORDER BY model_id.
Entries(copy) ==
    LET all == [k \in 1 .. Networks * Len(Catalog) |->
                    <<((k - 1) \div Len(Catalog)) + 1, Catalog[((k - 1) % Len(Catalog)) + 1]>>]
        wanted(e) == copy[e[1]][e[2]] # None
        e3(e) == <<e[1], e[2], copy[e[1]][e[2]]>>
    IN  LET chosen == SelectSeq(all, wanted) IN [k \in 1 .. Len(chosen) |-> e3(chosen[k])]

Reconcile(copy) ==
    [pc |-> "reconcile", pin |-> 1, todo |-> Entries(copy), accept |-> accepts, results |-> Nothing]

\* The reply of one network: on to the next, or to reconcile_policy.
model_policy(p) ==
    /\ loop.pc = "reply" /\ loop.pin = p
    /\ known' = [known EXCEPT ![p] = desired[p]]
    /\ loop' = IF p < Networks THEN [loop EXCEPT !.pc = "sync", !.pin = p + 1] ELSE Reconcile(known')
    /\ UNCHANGED <<gateway, accepts, policy_status, store, active, swap, call, edits, faults>>

\* sync_once gives up on the first error; the loop reconciles all the same.
sync_once_Fails ==
    /\ loop.pc \in {"sync", "reply"}
    /\ Fault
    /\ loop' = Reconcile(known)
    /\ UNCHANGED <<gateway, known, accepts, policy_status, store, active, swap, call, edits>>

(***************************************************************************)
(* The store: downloads and loads, for the reconciler and for the app.     *)
(***************************************************************************)
\* start_download refuses while another model is on its way, and does nothing
\* for a model that is on its way or there.
Refused(m) == m \notin Usable \/ transfer \notin {None, m}

start_download_SetsFirst(m) ==
    IF m \in Usable /\ m \notin record \cap disk
    THEN transfer' = m /\ task' = IF transfer = None THEN [pc |-> "fetch", model |-> m] ELSE task
    ELSE UNCHANGED <<transfer, task>>

start_download(m) ==
    IF m \in Usable /\ transfer = None /\ m \notin record \cap disk
    THEN transfer' = m /\ task' = [pc |-> "fetch", model |-> m]
    ELSE UNCHANGED <<transfer, task>>

\* download_from_url over the model's URLs: one delivers the file, or all fail.
download_from_url ==
    /\ task.pc = "fetch"
    /\ \/ task' = [task EXCEPT !.pc = "fetched"] /\ UNCHANGED <<transfer, faults>>
       \/ Fault /\ task' = NoTask /\ transfer' = None
    /\ UNCHANGED <<gateway, node, disk, record, active, swap, call, edits>>

\* A directory or a rename that fails ends the task before it clears
\* active_transfer.
DiskFails ==
    /\ task.pc \in {"fetch", "fetched"}
    /\ Fault
    /\ task' = NoTask
    /\ UNCHANGED <<gateway, node, disk, record, transfer, active, swap, call, edits>>

Rename ==
    /\ task.pc = "fetched"
    /\ disk' = disk \cup {task.model}
    /\ task' = [task EXCEPT !.pc = "renamed"]
    /\ UNCHANGED <<gateway, node, record, transfer, active, swap, call, edits, faults>>

Publish_Early ==
    /\ task.pc = "fetched"
    /\ call["task"] = Idle
    /\ record' = record \cup {task.model}
    /\ transfer' = None
    /\ task' = NoTask
    /\ call' = [call EXCEPT !["task"] = [pc |-> "empty", model |-> task.model, had |-> TRUE]]
    /\ UNCHANGED <<gateway, node, disk, active, swap, edits, faults>>

\* The end of download_model_task: publish, then load if the node has no model.
Publish ==
    /\ task.pc = "renamed"
    /\ call["task"] = Idle
    /\ record' = record \cup {task.model}
    /\ transfer' = None
    /\ task' = NoTask
    /\ call' = [call EXCEPT !["task"] = [pc |-> "empty", model |-> task.model, had |-> TRUE]]
    /\ UNCHANGED <<gateway, node, disk, active, swap, edits, faults>>

Empty ==
    /\ call["task"].pc = "empty"
    /\ call' = [call EXCEPT !["task"] = IF model_id = None THEN [@ EXCEPT !.pc = "check"] ELSE Idle]
    /\ UNCHANGED <<gateway, node, store, active, swap, edits, faults>>

\* load_model: the file must be there; then SwapManager; then the registry.
CheckFile(c) ==
    /\ call[c].pc = "check"
    /\ call' = [call EXCEPT ![c].pc =
           IF call[c].model \in Usable \cap record \cap disk THEN "swap" ELSE "failed"]
    /\ UNCHANGED <<gateway, node, store, active, swap, edits, faults>>

\* SwapManager answers at once for the model it has; a load that fails may
\* have shut the old subprocess down.
load_local_model(c) ==
    /\ call[c].pc = "swap"
    /\ \/ /\ model_id = call[c].model
          /\ call' = [call EXCEPT ![c].pc = "ok"]
          /\ UNCHANGED <<swap, faults>>
       \/ /\ model_id # call[c].model
          /\ model_id' = call[c].model
          /\ running' = TRUE
          /\ call' = [call EXCEPT ![c].pc = "ok"]
          /\ UNCHANGED faults
       \/ /\ model_id # call[c].model
          /\ Fault
          /\ running' \in {running, FALSE}
          /\ call' = [call EXCEPT ![c].pc = "failed"]
          /\ UNCHANGED model_id
    /\ UNCHANGED <<gateway, node, store, active, edits>>

\* The registry is told; the reconciler notes what came of the entry.
Outcome(c) ==
    IF call[c].pc = "ok" THEN "loaded"
    ELSE IF call[c].had THEN "error" ELSE "downloading"

Noted(p, m, status) ==
    loop' = [loop EXCEPT !.results[p][m] = status, !.todo = Tail(@)]

load_model_Ends(c) ==
    /\ call[c].pc \in {"ok", "failed"}
    /\ active' = IF call[c].pc = "ok" THEN call[c].model ELSE active
    /\ call' = [call EXCEPT ![c] = Idle]
    /\ IF c = "pin" THEN Noted(Head(loop.todo)[1], Head(loop.todo)[2], Outcome(c)) ELSE UNCHANGED loop
    /\ UNCHANGED <<gateway, known, accepts, policy_status, store, swap, edits, faults>>

(***************************************************************************)
(* reconcile_policy, entry by entry.                                       *)
(***************************************************************************)
\* SwapManager::loaded_models may still name a model whose subprocess is gone.
Claims == IF running THEN {{model_id}} ELSE {{}, {model_id} \ {None}}

Ensure(m, had) == call' = [call EXCEPT !["pin"] = [pc |-> "check", model |-> m, had |-> had]]

Entry(p, m, d, loaded) ==
    LET downloaded == m \in loaded \cup (record \cap disk)
    IN  \/ /\ ~loop.accept
           /\ Noted(p, m, "opted_out")
           /\ UNCHANGED <<call, transfer, task>>
        \/ /\ loop.accept /\ d = "loaded" /\ m \in loaded
           /\ Noted(p, m, "loaded")
           /\ UNCHANGED <<call, transfer, task>>
        \/ /\ loop.accept /\ d = "loaded" /\ m \notin loaded /\ downloaded
           /\ Ensure(m, TRUE)
           /\ UNCHANGED <<loop, transfer, task>>
        \/ /\ loop.accept /\ d = "loaded" /\ ~downloaded
           /\ start_download(m)
           /\ IF Refused(m) THEN Noted(p, m, "downloading") /\ UNCHANGED call
              ELSE Ensure(m, FALSE) /\ UNCHANGED loop
        \/ /\ loop.accept /\ d = "downloaded" /\ downloaded
           /\ Noted(p, m, "downloaded")
           /\ UNCHANGED <<call, transfer, task>>
        \/ /\ loop.accept /\ d = "downloaded" /\ ~downloaded
           /\ start_download(m)
           /\ Noted(p, m, IF Refused(m) THEN "downloading" ELSE "downloaded")
           /\ UNCHANGED call
        \/ /\ loop.accept /\ d = "none"
           /\ Noted(p, m, IF m \in loaded THEN "loaded" ELSE IF downloaded THEN "downloaded" ELSE "absent")
           /\ UNCHANGED <<call, transfer, task>>

reconcile_policy ==
    /\ loop.pc = "reconcile"
    /\ loop.todo # <<>>
    /\ call["pin"] = Idle
    /\ \E loaded \in Claims : Entry(Head(loop.todo)[1], Head(loop.todo)[2], Head(loop.todo)[3], loaded)
    /\ UNCHANGED <<gateway, known, accepts, policy_status, disk, record, active, swap, edits, faults>>

record_policy_status ==
    /\ loop.pc = "reconcile"
    /\ loop.todo = <<>>
    /\ policy_status' = loop.results
    /\ loop' = Sync
    /\ UNCHANGED <<gateway, known, accepts, store, active, swap, call, edits, faults>>

(***************************************************************************)
(* The local app and restarts.                                             *)
(***************************************************************************)
AppDownload(m) ==
    /\ Edit
    /\ start_download(m)
    /\ UNCHANGED <<gateway, node, disk, record, active, swap, call, faults>>

AppLoad(m) ==
    /\ Edit
    /\ call["app"] = Idle
    /\ call' = [call EXCEPT !["app"] = [pc |-> "check", model |-> m, had |-> TRUE]]
    /\ UNCHANGED <<gateway, node, store, active, swap, faults>>

\* unload_model: SwapManager first, the registry after it.
unload_current ==
    /\ Edit
    /\ call["app"] = Idle
    /\ model_id' = None
    /\ running' = FALSE
    /\ call' = [call EXCEPT !["app"].pc = "unloaded"]
    /\ UNCHANGED <<gateway, node, store, active, faults>>

unload_model ==
    /\ call["app"].pc = "unloaded"
    /\ active' = None
    /\ call' = [call EXCEPT !["app"] = Idle]
    /\ UNCHANGED <<gateway, node, store, swap, edits, faults>>

update_settings ==
    /\ Edit
    /\ accepts' = ~accepts
    /\ UNCHANGED <<gateway, known, policy_status, loop, store, active, swap, call, faults>>

\* load_or_init_with_legacy: a registry without an active model adopts the
\* files it finds and the first of them.
First(models) ==
    IF models = {} THEN None
    ELSE Catalog[CHOOSE i \in 1 .. Len(Catalog) :
                    Catalog[i] \in models /\ \A j \in 1 .. i - 1 : Catalog[j] \notin models]

Restart ==
    /\ Fault
    /\ record' = IF active = None THEN record \cup disk ELSE record
    /\ active' = IF active = None THEN First(record') ELSE active
    /\ model_id' = IF active' \in record' \cap disk THEN active' ELSE None
    /\ running' = (model_id' # None)
    /\ transfer' = None
    /\ task' = NoTask
    /\ call' = [c \in Callers |-> Idle]
    /\ known' = Nothing
    /\ policy_status' = Nothing
    /\ loop' = Sync
    /\ UNCHANGED <<gateway, accepts, disk, edits>>

Download == download_from_url \/ Rename \/ Publish

load_model(c) == CheckFile(c) \/ load_local_model(c) \/ load_model_Ends(c)

SyncLoop ==
    \/ \E p \in Pins : report_model_policy_status(p) \/ model_policy(p)
    \/ reconcile_policy
    \/ record_policy_status

Next ==
    \/ \E p \in Pins, policy \in Policies : set_model_policy(p, policy)
    \/ SyncLoop \/ sync_once_Fails
    \/ Download \/ DiskFails \/ Empty
    \/ \E c \in Callers : load_model(c)
    \/ \E m \in Models : AppDownload(m) \/ AppLoad(m)
    \/ unload_current \/ unload_model
    \/ update_settings
    \/ Restart

\* The loop's task, a download's and the callers of load_model are polled, and
\* their calls end: the gateway's client and the load have timeouts.
Fairness ==
    /\ WF_vars(SyncLoop) /\ WF_vars(Download) /\ WF_vars(Empty) /\ WF_vars(unload_model)
    /\ \A c \in Callers : WF_vars(load_model(c))

Spec == Init /\ [][Next]_vars

FairSpec == Spec /\ Fairness

(***************************************************************************)
(* What holds.                                                             *)
(***************************************************************************)
\* The registry never names a file that is not whole on disk, whatever
\* crash comes between a download's rename and its save; and only one task
\* writes a download at a time.
StoreSound ==
    /\ record \subseteq disk
    /\ task.pc # "none" => transfer = task.model

\* A transfer whose task a disk error ended blocks later downloads; a load
\* that failed may leave SwapManager naming a model that does not run.
Lost == (transfer # None /\ task.pc = "none") \/ (model_id # None /\ ~running)

\* Once the networks of a device that accepts them agree on one model to be
\* loaded, the device ends up serving it and every network that asked sees
\* it applied, through stale reports, failed downloads, loads by the user and
\* restarts, unless the node lost a transfer or its backend.
PolicyConverges ==
    \A m \in Usable :
        <>[](accepts /\ {x \in Models : \E p \in Pins : desired[p][x] = "loaded"} = {m})
        => <>[](\/ Lost
                \/ /\ model_id = m
                   /\ \A p \in Pins : desired[p][m] = "loaded" => applied[p][m] = "loaded")

=============================================================================
