------------------------------ MODULE HeavyHold ------------------------------
(***************************************************************************)
(* The gateway's live load per node and the heavy-hold admission, with the *)
(* guard against sessions that the gateway did not dispatch                *)
(* (gateway/src/registry.rs), from the admission in pick_and_dispatch to   *)
(* the drop of the session's guard (handlers/chat.rs).                     *)
(*                                                                         *)
(* admit holds the node's shard for writing and dec_in_flight for reading: *)
(* they exclude each other, and two decrements that interleave leave what  *)
(* they leave one after the other.  Each is one step.  Time is what a      *)
(* comparison with a limit sees of it: a hold, or an excess of busy slots, *)
(* is young or old.                                                        *)
(***************************************************************************)
EXTENDS Integers, FiniteSets

CONSTANTS
    Nodes,
    Requests,          \* requests; one that ended may come again
    Heavy,             \* those that is_heavy_request weighs heavy
    Owner,             \* [Requests -> consumer or conversation, or None]
    Slots,             \* [Nodes -> backend_slots_total]
    Eligible,          \* [Requests -> the nodes that serve its model]
    MaxExternal,       \* bound: [Nodes -> how many sessions from outside the gateway]
    Slow,              \* nodes where a session may outlast the hold's TTL: the stream cap
                       \* starts at the backend, after the wait in the node's queue
    None

ASSUME RequestAssumption == IsFiniteSet(Requests) /\ Heavy \subseteq Requests
ASSUME SlotAssumption == Slots \in [Nodes -> Nat] /\ MaxExternal \in [Nodes -> Nat]
ASSUME NodeAssumption ==
    None \notin Nodes /\ Slow \subseteq Nodes /\ Eligible \in [Requests -> SUBSET Nodes]

VARIABLES
    held,              \* [Requests -> the node that admitted it, or None]
    total,             \* InFlight.total of each node
    heavy,             \* InFlight.heavy
    heavy_since,       \* its age: "none", "young", or "old" past the TTL
    heavy_owner,       \* InFlight.heavy_owner
    listed,            \* whether the registry has the node's DeviceState
    backend_slots_busy,\* what the node last reported
    busy_excess_since, \* "none", "young", "sampled" (a report came since), or
                       \* "old" past the grace
    external           \* sessions from outside on each node

counters == <<total, heavy, heavy_since, heavy_owner>>
device == <<listed, backend_slots_busy, busy_excess_since>>
vars == <<held, counters, device, external>>

Owners == {Owner[r] : r \in Requests}
Live(n) == {r \in Requests : held[r] = n}

\* Every column has its type; the unsigned counters of InFlight never wrap, even
\* when a hold expires under the sessions that still release it.
TypeOK ==
    /\ held \in [Requests -> Nodes \cup {None}]
    /\ total \in [Nodes -> Nat]
    /\ heavy \in [Nodes -> Nat]
    /\ heavy_since \in [Nodes -> {"none", "young", "old"}]
    /\ heavy_owner \in [Nodes -> Owners \cup {None}]
    /\ listed \in [Nodes -> BOOLEAN]
    /\ backend_slots_busy \in [Nodes -> Nat]
    /\ busy_excess_since \in [Nodes -> {"none", "young", "sampled", "old"}]
    /\ external \in [Nodes -> Nat]

Init ==
    /\ held = [r \in Requests |-> None]
    /\ total = [n \in Nodes |-> 0]
    /\ heavy = [n \in Nodes |-> 0]
    /\ heavy_since = [n \in Nodes |-> "none"]
    /\ heavy_owner = [n \in Nodes |-> None]
    /\ listed = [n \in Nodes |-> FALSE]
    /\ backend_slots_busy = [n \in Nodes |-> 0]
    /\ busy_excess_since = [n \in Nodes |-> "none"]
    /\ external = [n \in Nodes |-> 0]

-----------------------------------------------------------------------------
(* Admission.  A refusal that expires nothing changes nothing.             *)

\* backend_slots_total, two when the device is unknown, and at least one.
Cap(n) == IF ~listed[n] THEN 2 ELSE IF Slots[n] = 0 THEN 1 ELSE Slots[n]

Expires(r, n) == r \in Heavy /\ heavy[n] > 0 /\ heavy_since[n] = "old"

\* A heavy is refused beside another's hold, and beside its own consumer's
\* when the slots are full.
Contended_SharedByAll(r, n) ==
    /\ r \in Heavy
    /\ heavy[n] > 0
    /\ heavy_since[n] # "old"
    /\ heavy[n] >= Cap(n)
Contended(r, n) ==
    /\ r \in Heavy
    /\ heavy[n] > 0
    /\ heavy_since[n] # "old"
    /\ Owner[r] = None \/ heavy_owner[n] # Owner[r] \/ heavy[n] >= Cap(n)

\* The node reports more busy slots than the gateway accounts for.
Excess(n, accounted) == listed[n] /\ backend_slots_busy[n] > accounted

Accounted(r, n) == IF Expires(r, n) THEN 0 ELSE total[n]

BesideExternal(r, n) ==
    /\ r \in Heavy
    /\ ~Contended(r, n)
    /\ Excess(n, Accounted(r, n))
    /\ busy_excess_since[n] = "old"

\* The hold's clock restarts with each heavy; its owner is the first one's.
Hold(r, n) ==
    IF r \in Heavy
    THEN LET h == IF Expires(r, n) THEN 0 ELSE heavy[n]
         IN  /\ heavy' = [heavy EXCEPT ![n] = h + 1]
             /\ heavy_owner' = IF h = 0 THEN [heavy_owner EXCEPT ![n] = Owner[r]]
                               ELSE heavy_owner
             /\ heavy_since' = [heavy_since EXCEPT ![n] = "young"]
    ELSE UNCHANGED <<heavy, heavy_owner, heavy_since>>

\* A heavy starts the excess clock, or clears it when the report shows none.
ObserveExcess(r, n) ==
    busy_excess_since' =
        IF r \notin Heavy \/ ~listed[n] THEN busy_excess_since
        ELSE IF ~Excess(n, Accounted(r, n)) THEN [busy_excess_since EXCEPT ![n] = "none"]
        ELSE IF busy_excess_since[n] = "none" THEN [busy_excess_since EXCEPT ![n] = "young"]
        ELSE busy_excess_since

admit(r, n) ==
    /\ held[r] = None
    /\ ~Contended(r, n)
    /\ ~BesideExternal(r, n)
    /\ held' = [held EXCEPT ![r] = n]
    /\ total' = [total EXCEPT ![n] = Accounted(r, n) + 1]
    /\ Hold(r, n)
    /\ ObserveExcess(r, n)
    /\ UNCHANGED <<listed, backend_slots_busy, external>>

\* The refusal beside external sessions comes after the stale hold is expired.
admit_refused(r, n) ==
    /\ held[r] = None
    /\ BesideExternal(r, n)
    /\ Expires(r, n)
    /\ total' = [total EXCEPT ![n] = 0]
    /\ heavy' = [heavy EXCEPT ![n] = 0]
    /\ heavy_since' = [heavy_since EXCEPT ![n] = "none"]
    /\ heavy_owner' = [heavy_owner EXCEPT ![n] = None]
    /\ UNCHANGED <<held, device, external>>

-----------------------------------------------------------------------------
(* Release: the drop of InFlightGuard, or SessionCleanup run or dropped.   *)

\* fetch_sub, and the reset that keeps the counter from wrapping.
Less(count) == IF count = 0 THEN 0 ELSE count - 1

\* The last heavy's release restarts a running excess clock, or clears it.
release_echo_reanchor(n, accounted) ==
    IF ~listed[n] \/ busy_excess_since[n] = "none" THEN busy_excess_since
    ELSE [busy_excess_since EXCEPT ![n] = IF Excess(n, accounted) THEN "young" ELSE "none"]

LastHeavy_Ever(r, n) == r \in Heavy
LastHeavy(r, n) == r \in Heavy /\ heavy[n] <= 1

dec_in_flight(r) ==
    LET n == held[r]
    IN  /\ n # None
        /\ held' = [held EXCEPT ![r] = None]
        /\ total' = [total EXCEPT ![n] = Less(@)]
        /\ heavy' = IF LastHeavy(r, n) THEN [heavy EXCEPT ![n] = 0]
                    ELSE IF r \in Heavy THEN [heavy EXCEPT ![n] = @ - 1]
                    ELSE heavy
        /\ IF LastHeavy(r, n)
           THEN /\ heavy_owner' = [heavy_owner EXCEPT ![n] = None]
                /\ heavy_since' = [heavy_since EXCEPT ![n] = "none"]
                /\ busy_excess_since' = release_echo_reanchor(n, Less(total[n]))
           ELSE UNCHANGED <<heavy_owner, heavy_since, busy_excess_since>>
        /\ UNCHANGED <<listed, backend_slots_busy, external>>

-----------------------------------------------------------------------------
(* The node's reports, time, and the node's other clients.                 *)

\* A discover response: the slots that the node's sessions occupy just then.
\* One that was admitted may still be on its way.
upsert_device(n) ==
    \E busy \in external[n]..(external[n] + Cardinality(Live(n))) :
       /\ busy <= Slots[n]
       /\ listed' = [listed EXCEPT ![n] = TRUE]
       /\ backend_slots_busy' = [backend_slots_busy EXCEPT ![n] = busy]
       /\ busy_excess_since' = [busy_excess_since EXCEPT ![n] =
             IF @ = "young" THEN "sampled" ELSE @]
       /\ UNCHANGED <<held, counters, external>>

\* The sweep, after the departed grace.
remove_device(n) ==
    /\ listed[n]
    /\ listed' = [listed EXCEPT ![n] = FALSE]
    /\ backend_slots_busy' = [backend_slots_busy EXCEPT ![n] = 0]
    /\ busy_excess_since' = [busy_excess_since EXCEPT ![n] = "none"]
    /\ UNCHANGED <<held, counters, external>>

\* busy_excess_grace_seconds passes: it is longer than a reporting cycle.
ExcessAges(n) ==
    /\ busy_excess_since[n] = "sampled"
    /\ busy_excess_since' = [busy_excess_since EXCEPT ![n] = "old"]
    /\ UNCHANGED <<held, counters, listed, backend_slots_busy, external>>

\* heavy_hold_ttl_seconds pass: under the stream cap, a hold that old is one
\* whose sessions are gone.
HoldAges(n) ==
    /\ heavy_since[n] = "young"
    /\ n \in Slow \/ Live(n) \cap Heavy = {}
    /\ heavy_since' = [heavy_since EXCEPT ![n] = "old"]
    /\ UNCHANGED <<held, total, heavy, heavy_owner, device, external>>

External(n) ==
    /\ \E x \in 0..MaxExternal[n] : x # external[n] /\ external' = [external EXCEPT ![n] = x]
    /\ UNCHANGED <<held, counters, device>>

Next ==
    \/ \E r \in Requests : \E n \in Eligible[r] : admit(r, n) \/ admit_refused(r, n)
    \/ \E r \in Requests : dec_in_flight(r)
    \/ \E n \in Nodes : upsert_device(n) \/ remove_device(n)
    \/ \E n \in Nodes : ExcessAges(n) \/ HoldAges(n) \/ External(n)

Spec == Init /\ [][Next]_vars

-----------------------------------------------------------------------------
(* Properties.                                                             *)

\* The counters that admission and the scheduler read are those of the
\* sessions that are live, whatever order they were admitted, shared and
\* closed in, wherever the stream cap ends sessions before the hold's TTL.
CountersExact ==
    \A n \in Nodes \ Slow :
       /\ total[n] = Cardinality(Live(n))
       /\ heavy[n] = Cardinality(Live(n) \cap Heavy)

\* "A different consumer is still refused outright" (InFlight::heavy_owner):
\* heavies live together on a node belong to one consumer, wherever the
\* stream cap ends sessions before the hold's TTL.
HeavyAlone ==
    \A q, r \in Heavy :
       (held[q] \in Nodes \ Slow /\ held[q] = held[r] /\ q # r)
          => Owner[q] = Owner[r] /\ Owner[q] # None
=============================================================================
