----------------------------- MODULE MCRegistry -----------------------------
(* The gateway's admission of requests and its registry of devices, checked  *)
(* in one run: a behaviour picks one of them and only that one takes steps.  *)
(* The module this one extends is the admission: consumer c1 sends two       *)
(* heavies at a time, c2 one, and c3 a light one, to a slow node and to one  *)
(* with a single slot for heavies.                                           *)
EXTENDS HeavyHold

CONSTANTS
    Parts,         \* the parts that are checked
    FleetDevices,  \* the devices of the registry's part
    c1, c2, c3, h1, h2, h3, l1, slow, single

VARIABLES part, tier, node, devices, sweeping, probe, bench, request, changes, faults

MCOwner == [r \in Requests |->
    CASE r \in {h1, h2} -> c1 [] r = h3 -> c2 [] OTHER -> c3]
MCSlots == [n \in Nodes |-> IF n = single THEN 1 ELSE 2]
MCEligible == [r \in Requests |-> IF r \in Heavy THEN Nodes ELSE {slow}]
MCExternal == [n \in Nodes |-> IF n = slow THEN 1 ELSE 0]

Model(id, params, ctx, tools, harness, virtual) ==
    [id |-> id, params |-> params, ctx |-> ctx, tools |-> tools, harness |-> harness,
     virtual |-> virtual]

\* Device a serves a large model and one the catalog does not have; b serves a
\* small one, and a hidden one beside it.
Fleet == INSTANCE Fleet WITH
    Devices <- FleetDevices,
    Tiers <- {[a |-> "fleet", b |-> t] : t \in {"fleet", "probation"}},
    Catalog <- <<Model("auto", 1, 2, FALSE, FALSE, TRUE), Model("big", 70, 2, TRUE, TRUE, FALSE),
                 Model("small", 8, 1, FALSE, FALSE, FALSE)>>,
    Hidden <- {"ghost"},
    Caps <- [a |-> {[loaded |-> {"big", "live"}, swappable |-> {"small"}, avail |-> TRUE,
                     ctx |-> None]},
             b |-> {[loaded |-> {"small", "ghost"}, swappable |-> {}, avail |-> TRUE, ctx |-> 1]}],
    Beats <- {[loaded |-> {}, busy |-> TRUE, hot |-> TRUE]},
    Asks <- {[model |-> "auto", ctx |-> 1, tools |-> TRUE, harness |-> TRUE],
             [model |-> "live", ctx |-> 1, tools |-> FALSE, harness |-> FALSE]},
    FloorSmall <- 1, FloorLarge <- 1, STALE <- 0, GRACE <- 1, QUARANTINE <- 1,
    MAX_AUTO_CASCADE_RETRIES <- 1, MaxChanges <- 3, MaxFaults <- 1

fleet == <<tier, node, devices, sweeping, probe, bench, request, changes, faults>>

PartsInit ==
    /\ part \in Parts
    /\ Init /\ Fleet!Init
    /\ part # "fleet" => tier["b"] = "fleet"

PartsNext ==
    /\ UNCHANGED part
    /\ \/ part = "admission" /\ Next /\ UNCHANGED fleet
       \/ part = "fleet" /\ Fleet!Next /\ UNCHANGED vars

PartsSpec == PartsInit /\ [][PartsNext]_<<part, vars, fleet>> /\ Fleet!Fairness

\* A model that GET /v1/models shows is never answered with a 404, and
\* teale/auto resolves exactly when some model would be served
\* (ListedIsFound and AutoServes of Fleet).
ListedServes == Fleet!ListedIsFound /\ Fleet!AutoServes

\* An available node of the fleet that stays connected is healthy supply
\* again and again (ConnectedReturns of Fleet).
ConnectedReturns == part = "fleet" => Fleet!ConnectedReturns

\* A device is removed after the departed grace only if it did not come
\* back: "any liveness signal clears it" (DeviceState::departed_at;
\* RejoinKept of Fleet).
RejoinKept == Fleet!RejoinKept
=============================================================================
