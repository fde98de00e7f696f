----------------------------- MODULE MCPinParts -----------------------------
(* The data plane, the loadout and the demand side of private networks,       *)
(* checked in one run: a behaviour picks one of them and only that one takes  *)
(* steps.                                                                     *)
EXTENDS Naturals, Sequences

CONSTANT None

VARIABLES
    part,
    net, dialer, peers, count, got,
    desired, applied, known, accepts, policy_status, loop, disk, record,
    transfer, task, active, model_id, running, call, edits, faults,
    netmap, lists, eligible, changes, client, tried, wire, run, received, end

\* One dial of the peer the netmap names and one that expects another device.
Transport == INSTANCE PinTransport WITH
    Dials <- {1, 2},
    Expects <- << <<"static", "responder", 0>>, <<"static", "another", 0>> >>,
    Messages <- 1 .. 3, Fragments <- <<2, 1, 3>>, Words <- 2, Bits <- 2,
    MaxEphemeral <- 2

Policy == INSTANCE PinPolicy WITH
    Networks <- 2, Catalog <- <<"a", "b">>, Usable <- {"a", "b"},
    Policies <- {[a |-> None, b |-> None], [a |-> "loaded", b |-> None],
                 [a |-> "downloaded", b |-> "loaded"]},
    MaxEdits <- 2, MaxFaults <- 1

\* A peer with two addresses, one with none and one with one.
Client == INSTANCE PinClient WITH
    Networks <- 2, Peers <- {"a", "b", "c"},
    Listings <- {<<{"a", "b"}, {"c"}>>, <<{"b"}, {"b", "c"}>>},
    Endpoints <- [a |-> <<"lan", "reflexive">>, b |-> <<>>, c |-> <<"reflexive">>],
    Chunks <- 1, MaxChanges <- 1, MAX_ATTEMPTS <- 2, got <- received

transport == <<net, dialer, peers, count, got>>
policy == <<desired, applied, known, accepts, policy_status, loop, disk, record,
            transfer, task, active, model_id, running, call, edits, faults>>
consumer == <<netmap, lists, eligible, changes, client, tried, wire, run, received, end>>
vars == <<part, transport, policy, consumer>>

Init ==
    /\ part \in {"transport", "policy", "client"}
    /\ Transport!Init /\ Policy!Init /\ Client!Init
    /\ part # "client" => lists = <<{"a", "b"}, {"c"}>>

Next ==
    /\ UNCHANGED part
    /\ \/ part = "transport" /\ Transport!Next /\ UNCHANGED <<policy, consumer>>
       \/ part = "policy" /\ Policy!Next /\ UNCHANGED <<transport, consumer>>
       \/ part = "client" /\ Client!Next /\ UNCHANGED <<transport, policy>>

Spec == Init /\ [][Next]_vars /\ Policy!Fairness

\* A message of an established connection is delivered whole and once, and a
\* dial succeeds only with the peer the netmap names, which holds the
\* matching session (DeliveredOnce and EndsAgree of PinTransport).
TransportSound == Transport!DeliveredOnce /\ Transport!EndsAgree

\* The registry never names a model file that is not whole on disk, and one
\* task writes a download at a time (StoreSound of PinPolicy).
StoreSound == Policy!StoreSound

\* Once the networks agree on a model to be loaded, the device serves it and
\* they see it applied (PolicyConverges of PinPolicy).
PolicyConverges == part = "policy" => Policy!PolicyConverges

\* At most one provider runs a prompt, none is tried twice, and a request is
\* given up only after all or MAX_ATTEMPTS providers (OneProviderRuns and
\* EveryPeerTried of PinClient).
CascadeSound == Client!OneProviderRuns /\ Client!EveryPeerTried
=============================================================================
