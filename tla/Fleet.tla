-------------------------------- MODULE Fleet --------------------------------
(***************************************************************************)
(* The gateway's picture of its supply and what it tells clients from it:  *)
(* the device registry (discover answers, heartbeats, departures, sweeps,  *)
(* quarantines), the list of models, the resolution of a requested model,  *)
(* the cascade of `teale/auto`, and the background loops that probe        *)
(* suppliers and benchmark strangers.  The relay connection's task, the    *)
(* discover-and-sweep task, the probe task and the request handlers run    *)
(* on several threads and share the registry, so a sweep is several steps. *)
(* How a resolved request is dispatched is module Dispatch; here it serves *)
(* or fails.  Times are counted in ticks.                                  *)
(***************************************************************************)
EXTENDS Integers, Sequences, FiniteSetsExt

CONSTANTS None,
          Devices,     \* node ids the relay may list
          Tiers,       \* configurations: each node "fleet", "employee" or "probation"
          Catalog,     \* sequence of [id, params, ctx, tools, harness, virtual]
          Hidden,      \* HIDDEN_MODEL_IDS
          Caps,        \* what each node may register with: [loaded, swappable, avail, ctx]
          Beats,       \* what a heartbeat may say: [loaded, busy, hot]
          Asks,        \* requests: [model, ctx, tools, harness]
          FloorSmall, FloorLarge,
          STALE, GRACE, QUARANTINE,      \* in ticks
          MAX_AUTO_CASCADE_RETRIES,
          MaxChanges,  \* registrations and disconnections of nodes
          MaxFaults    \* failed dispatches, probes and benchmarks

VARIABLES tier,      \* the configured supply tiers, constant
          node,      \* what each node registered with at the relay, or None
          devices,   \* Registry.devices
          sweeping,  \* the sweep: pc and the departed devices it collected
          probe,     \* the probe loop: pc, its target
          bench,     \* the device whose benchmark is running, or None
          request,   \* a client's request
          changes, faults

vars == <<tier, node, devices, sweeping, probe, bench, request, changes, faults>>

Ids == {Catalog[i].id : i \in DOMAIN Catalog}
Entry(id) == Catalog[CHOOSE i \in DOMAIN Catalog : Catalog[i].id = id]
Known == {d \in Devices : devices[d] # None}
Idle == [pc |-> "idle", targets |-> {}, target |-> None]
NoRequest == [pc |-> "idle", ask |-> None, model |-> None, excluded |-> {}]

Init == /\ tier \in Tiers
        /\ node = [d \in Devices |-> None]
        /\ devices = [d \in Devices |-> None]
        /\ sweeping = [pc |-> "idle", collected |-> {}]
        /\ probe = Idle /\ bench = None
        /\ request = NoRequest
        /\ changes = 0 /\ faults = 0

-----------------------------------------------------------------------------
(* What the registry says of a device. *)
heartbeat_is_stale(d) == devices[d].age > STALE
is_quarantined(d) == devices[d].jail > 0
DefaultTier(d) == tier[d] = "fleet"

catalog_visible(d) == DefaultTier(d) /\ devices[d].avail /\ ~heartbeat_is_stale(d)

Healthy(d) == DefaultTier(d) /\ ~is_quarantined(d) /\ devices[d].avail /\ ~heartbeat_is_stale(d)

loaded_count(m) == Cardinality({d \in Known : Healthy(d) /\ m \in devices[d].loaded})

\* The queue bound of is_eligible_for is 100 times the quarantine in seconds:
\* queues that long are not modelled.
is_eligible_for(d, m) ==
    /\ ~is_quarantined(d)
    /\ ~devices[d].hot
    /\ devices[d].avail
    /\ m \in devices[d].loaded \cup devices[d].swappable

eligible_devices(m) ==
    {d \in Known : DefaultTier(d) /\ ~heartbeat_is_stale(d) /\ is_eligible_for(d, m)}

-----------------------------------------------------------------------------
(* The registry's operations. *)
upsert_device_NoSignal(d, dev) ==
    [loaded |-> node[d].loaded, swappable |-> node[d].swappable, avail |-> node[d].avail,
     ctx |-> node[d].ctx, departed |-> None,
     age |-> IF dev = None THEN 0 ELSE dev.age,
     jail |-> IF dev = None THEN 0 ELSE dev.jail,
     busy |-> dev # None /\ dev.busy, hot |-> dev # None /\ dev.hot]

upsert_device(d, dev) ==
    [loaded |-> node[d].loaded, swappable |-> node[d].swappable, avail |-> node[d].avail,
     ctx |-> node[d].ctx, departed |-> None, age |-> 0,
     jail |-> IF dev = None THEN 0 ELSE dev.jail,
     busy |-> dev # None /\ dev.busy, hot |-> dev # None /\ dev.hot]

\* The answer to a discover request: every peer the relay lists is upserted.
DiscoverResponse ==
    /\ devices' = [d \in Devices |->
                     IF node[d] # None THEN upsert_device(d, devices[d]) ELSE devices[d]]
    /\ UNCHANGED <<tier, node, sweeping, probe, bench, request, changes, faults>>

\* Registry::apply_heartbeat: an unknown device's heartbeat is dropped, an
\* empty list of models leaves the list as it is, and availability is kept.
apply_heartbeat(d, hb) ==
    /\ node[d] # None
    /\ devices[d] # None
    /\ devices' = [devices EXCEPT
         ![d].age = 0, ![d].departed = None, ![d].busy = hb.busy, ![d].hot = hb.hot,
         ![d].loaded = IF hb.loaded = {} THEN @ ELSE hb.loaded]
    /\ UNCHANGED <<tier, node, sweeping, probe, bench, request, changes, faults>>

\* peerLeft: the relay saw the node's connection close.
mark_departed(d) ==
    /\ node[d] # None
    /\ changes < MaxChanges
    /\ changes' = changes + 1
    /\ node' = [node EXCEPT ![d] = None]
    /\ devices' = IF devices[d] # None /\ devices[d].departed = None
                    THEN [devices EXCEPT ![d].departed = 0] ELSE devices
    /\ UNCHANGED <<tier, sweeping, probe, bench, request, faults>>

quarantine(d, devs) == IF devs[d] = None THEN devs ELSE [devs EXCEPT ![d].jail = QUARANTINE]

\* Registry::sweep: the expired departures are collected, removed one by one,
\* and the devices left are gone through for staleness.
Expired == {d \in Known : devices[d].departed # None /\ devices[d].departed >= GRACE}

SweepCollect ==
    /\ sweeping.pc = "idle"
    /\ sweeping' = [pc |-> "remove", collected |-> Expired]
    /\ UNCHANGED <<tier, node, devices, probe, bench, request, changes, faults>>

remove_device(d) ==
    /\ sweeping.pc = "remove"
    /\ d \in sweeping.collected
    /\ sweeping' = [sweeping EXCEPT !.collected = @ \ {d}]
    /\ devices' = [devices EXCEPT ![d] = None]
    /\ UNCHANGED <<tier, node, probe, bench, request, changes, faults>>

SweepMark ==
    /\ sweeping.pc = "remove"
    /\ sweeping.collected = {}
    /\ sweeping' = [sweeping EXCEPT !.pc = "idle"]
    /\ devices' = [d \in Devices |->
                     IF d \in Known /\ heartbeat_is_stale(d)
                       THEN [devices[d] EXCEPT !.avail = FALSE] ELSE devices[d]]
    /\ UNCHANGED <<tier, node, probe, bench, request, changes, faults>>

-----------------------------------------------------------------------------
(* What clients are told. *)
Floor(m) == IF m \in Ids /\ Entry(m).params >= 50 THEN FloorLarge ELSE FloorSmall

list_models ==
    {m \in Ids \ Hidden : Entry(m).virtual \/ loaded_count(m) >= Floor(m)}
    \cup {m \in UNION {devices[d].loaded : d \in {e \in Known : catalog_visible(e)}} :
            m \notin Hidden \cup Ids}

resolve_requested_model_Healthy(m) ==
    /\ m \notin Hidden
    /\ \/ m \in Ids
       \/ \E d \in Known : Healthy(d) /\ m \in devices[d].loaded

\* Whether the requested model is known: in the catalog, or live on a device.
resolve_requested_model(m) ==
    /\ m \notin Hidden
    /\ \/ m \in Ids
       \/ \E d \in Known : catalog_visible(d) /\ m \in devices[d].loaded

\* The devices that count for a virtual model's resolution.
eligible_supply_Claimed(m, ctx) ==
    Cardinality({d \in eligible_devices(m) : devices[d].ctx = None \/ devices[d].ctx >= ctx})

eligible_supply(m, ctx) ==
    Cardinality({d \in eligible_devices(m) :
        /\ m \in devices[d].loaded
        /\ devices[d].ctx = None \/ devices[d].ctx >= ctx})

build_candidates(ask, tools, prefer_agent_harness, excluded) ==
    {i \in DOMAIN Catalog :
        LET m == Catalog[i] IN
        /\ ~m.virtual
        /\ m.id \notin excluded
        /\ m.ctx >= ask.ctx
        /\ tools => m.tools
        /\ ask.harness /\ prefer_agent_harness => m.harness
        /\ eligible_supply(m.id, ask.ctx) >= Floor(m.id)}

\* The smallest model, then the longest context, then the catalog's order.
Before(i, j) ==
    \/ Catalog[i].params < Catalog[j].params
    \/ /\ Catalog[i].params = Catalog[j].params
       /\ \/ Catalog[i].ctx > Catalog[j].ctx
          \/ Catalog[i].ctx = Catalog[j].ctx /\ i <= j

resolve_auto(ask, tools, excluded) ==
    LET preferred == build_candidates(ask, tools, TRUE, excluded)
        candidates == IF ask.harness /\ preferred = {}
                        THEN build_candidates(ask, tools, FALSE, excluded) ELSE preferred
    IN IF candidates = {} THEN None
       ELSE Catalog[CHOOSE i \in candidates : \A j \in candidates : Before(i, j)].id

\* A virtual model's resolution: with the tools the request needs, or, when
\* nothing that has them is supplied, without.
Resolved(ask, excluded) ==
    LET strict == resolve_auto(ask, ask.tools, excluded \cup Hidden)
    IN IF strict = None /\ ask.tools THEN resolve_auto(ask, FALSE, excluded \cup Hidden) ELSE strict

Virtual(m) == m \in Ids /\ Entry(m).virtual

\* Within registry_warmup_seconds of a start it is answered as no_device.
unresolved_model_error == [pc |-> "not_found", model |-> None]

\* prepare_chat_request_excluding: the model to dispatch to, or the refusal.
prepare(ask, excluded) ==
    LET m == IF Virtual(ask.model) THEN Resolved(ask, excluded) ELSE ask.model IN
    IF ~resolve_requested_model(ask.model)
      THEN unresolved_model_error
    ELSE IF m = None THEN [pc |-> "no_device", model |-> None]
    ELSE IF loaded_count(m) < Floor(m) THEN [pc |-> "no_device", model |-> m]
    ELSE [pc |-> "dispatch", model |-> m]

\* A refusal is answered at once.
Prepared(ask, excluded) ==
    LET p == prepare(ask, excluded) IN
    IF p.pc = "dispatch"
      THEN [pc |-> "dispatch", ask |-> ask, model |-> p.model, excluded |-> excluded]
      ELSE NoRequest

chat_completions(ask) ==
    /\ request.pc = "idle"
    /\ request' = Prepared(ask, {})
    /\ UNCHANGED <<tier, node, devices, sweeping, probe, bench, changes, faults>>

should_cascade == Virtual(request.ask.model) /\ Cardinality(request.excluded) < MAX_AUTO_CASCADE_RETRIES

\* The dispatch of the prepared model failed, perhaps quarantining a device.
DispatchFails ==
    /\ request.pc = "dispatch"
    /\ faults < MaxFaults
    /\ faults' = faults + 1
    /\ \/ devices' = devices
       \/ \E d \in {e \in Known : request.model \in devices[e].loaded} :
            devices' = quarantine(d, devices)
    /\ request' = IF should_cascade THEN [request EXCEPT !.pc = "cascade"] ELSE NoRequest
    /\ UNCHANGED <<tier, node, sweeping, probe, bench, changes>>

\* A virtual request is prepared again without the models that failed.
Cascade ==
    /\ request.pc = "cascade"
    /\ request' = Prepared(request.ask, request.excluded \cup {request.model})
    /\ UNCHANGED <<tier, node, devices, sweeping, probe, bench, changes, faults>>

\* The prepared model serves.
DispatchServes ==
    /\ request.pc = "dispatch"
    /\ request' = NoRequest
    /\ UNCHANGED <<tier, node, devices, sweeping, probe, bench, changes, faults>>

-----------------------------------------------------------------------------
(* The background loops. *)
collect_probe_targets ==
    {<<d, m>> \in Known \X Ids : Healthy(d) /\ ~devices[d].busy /\ m \in devices[d].loaded}

\* A tick of spawn_synthetic_probe_loop: the targets are collected once, and
\* those due (not probed within the freshness window) are gone through one by
\* one, across the awaits of their probes.
ProbePoll ==
    /\ probe.pc = "idle"
    /\ \E due \in SUBSET collect_probe_targets \ {{}} :
         probe' = [pc |-> "next", targets |-> due, target |-> None]
    /\ UNCHANGED <<tier, node, devices, sweeping, bench, request, changes, faults>>

\* The next target: left alone when it has become busy, else a session with it is
\* opened and the probe sent (its admission counters are module HeavyHold's).
probe_target ==
    /\ probe.pc = "next"
    /\ \E t \in probe.targets :
         IF devices[t[1]] # None /\ devices[t[1]].busy
           THEN probe' = [probe EXCEPT !.targets = @ \ {t},
                                      !.pc = IF probe.targets = {t} THEN "idle" ELSE "next"]
           ELSE probe' = [probe EXCEPT !.targets = @ \ {t}, !.target = t, !.pc = "asked"]
    /\ UNCHANGED <<tier, node, devices, sweeping, bench, request, changes, faults>>

\* The probe's answer, or its failure (the relay's, the node's or a deadline
\* passed), which quarantines the node.
ProbeEnds(failed) ==
    /\ probe.pc = "asked"
    /\ failed => faults < MaxFaults
    /\ faults' = IF failed THEN faults + 1 ELSE faults
    /\ devices' = IF failed THEN quarantine(probe.target[1], devices) ELSE devices
    /\ probe' = IF probe.targets = {} THEN Idle ELSE [probe EXCEPT !.pc = "next", !.target = None]
    /\ UNCHANGED <<tier, node, sweeping, bench, request, changes>>

\* spawn_probation_benchmark_loop: strangers are benchmarked, a failure of any
\* model quarantines the node once the whole round is over.
run_sweep(d) ==
    /\ bench = None
    /\ d \in Known /\ tier[d] = "probation"
    /\ ~heartbeat_is_stale(d) /\ devices[d].avail
    /\ devices[d].loaded \cap Ids # {}
    /\ bench' = d
    /\ UNCHANGED <<tier, node, devices, sweeping, probe, request, changes, faults>>

BenchmarkEnds(passed) ==
    /\ bench # None
    /\ passed \/ faults < MaxFaults
    /\ faults' = IF passed THEN faults ELSE faults + 1
    /\ devices' = IF passed THEN devices ELSE quarantine(bench, devices)
    /\ bench' = None
    /\ UNCHANGED <<tier, node, sweeping, probe, request, changes>>

-----------------------------------------------------------------------------
(* The nodes and the clock. *)
Registers(d, caps) ==
    /\ node[d] = None
    /\ changes < MaxChanges
    /\ changes' = changes + 1
    /\ node' = [node EXCEPT ![d] = caps]
    /\ UNCHANGED <<tier, devices, sweeping, probe, bench, request, faults>>

Older(dev) ==
    [dev EXCEPT !.age = Min({@ + 1, STALE + 1}),
                !.departed = IF @ = None THEN None ELSE Min({@ + 1, GRACE}),
                !.jail = Max({@ - 1, 0})]

Tick ==
    /\ devices' = [d \in Devices |-> IF d \in Known THEN Older(devices[d]) ELSE None]
    /\ UNCHANGED <<tier, node, sweeping, probe, bench, request, changes, faults>>

Next ==
    \/ DiscoverResponse \/ SweepCollect \/ SweepMark \/ Tick
    \/ \E d \in Devices : mark_departed(d) \/ remove_device(d) \/ run_sweep(d)
    \/ \E d \in Devices, hb \in Beats : apply_heartbeat(d, hb)
    \/ \E d \in Devices : \E caps \in Caps[d] : Registers(d, caps)
    \/ \E ask \in Asks : chat_completions(ask)
    \/ DispatchFails \/ Cascade \/ DispatchServes
    \/ ProbePoll \/ probe_target
    \/ \E b \in BOOLEAN : ProbeEnds(b) \/ BenchmarkEnds(b)

\* The discover-and-sweep loop goes on, the relay answers it, and time passes.
Fairness == /\ WF_vars(DiscoverResponse) /\ WF_vars(Tick)
            /\ WF_vars(SweepCollect) /\ WF_vars(SweepMark)
            /\ \A d \in Devices : WF_vars(remove_device(d))

Spec == Init /\ [][Next]_vars /\ Fairness

-----------------------------------------------------------------------------
(* Properties. *)

\* A model a client is shown by GET /v1/models is never answered with a 404
\* when it asks for it in the same fleet state, also while every supplier of
\* it is quarantined (models.rs list_models, chat.rs resolve_requested_model).
ListedIsFound == \A m \in list_models : resolve_requested_model(m)

\* teale/auto resolves exactly when some concrete model would be served, and
\* so does its cascade once the first choice failed: a model picked passes the
\* per-model floor that is checked after it and has devices with room for the
\* request, and as long as a model that is not hidden has such supply, missing
\* tools or a missing harness tag refuse nothing (chat.rs
\* prepare_chat_request_excluding, catalog.rs resolve_auto).
AutoServes ==
    \A ask \in {a \in Asks : Virtual(a.model)} :
        LET Room(m) == {d \in Known : /\ Healthy(d) /\ ~devices[d].hot
                                      /\ m \in devices[d].loaded
                                      /\ devices[d].ctx = None \/ devices[d].ctx >= ask.ctx}
            Fits(excluded) == {m \in Ids \ (Hidden \cup excluded) :
                 ~Virtual(m) /\ Entry(m).ctx >= ask.ctx /\ Cardinality(Room(m)) >= Floor(m)}
            first == Resolved(ask, {})
            second == Resolved(ask, {first})
        IN /\ IF first = None THEN Fits({}) = {} ELSE first \in Fits({})
           /\ IF second = None THEN Fits({first}) = {} ELSE second \in Fits({first})
           /\ \A m \in {first, second} \ {None} : loaded_count(m) >= Floor(m)

\* A node of the fleet that stays connected and says it is available is
\* healthy supply again and again, whatever departures, sweeps, failed probes
\* and failed dispatches came before, even if it never sends a heartbeat.
ConnectedReturns ==
    \A d \in Devices :
        <>[](DefaultTier(d) /\ node[d] # None /\ node[d].avail) => []<>(d \in Known /\ Healthy(d))

\* A device is removed after the departed grace only if it did not come back:
\* any liveness signal clears the departure (registry.rs, DeviceState).
RejoinKept ==
    [][\A d \in Devices : d \in Known /\ devices'[d] = None => devices[d].departed # None]_vars
=============================================================================
