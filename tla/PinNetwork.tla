----------------------------- MODULE PinNetwork -----------------------------
(* A private inference network (PIN): the gateway's tables, changed by the   *)
(* network's staff and by its devices, and the signed netmap every member    *)
(* device fetches, caches on disk and authorises its peers with.             *)
(* One network; join codes, names and endpoints are left out.                *)
EXTENDS Naturals, FiniteSets

CONSTANTS
    Devices,        \* device ids; each has one node key and one wg key
    Accounts,       \* Teale accounts
    Owner,          \* the account that creates the network
    Synced,         \* the devices whose rounds are modelled step by step
    Flagged,        \* the devices whose serving and exit flags are changed
    Granted,        \* the accounts whose role is changed
    MaxGeneration,  \* bound on netmap_generation
    MaxFaults,      \* bound on failed rounds and restarts
    None

ASSUME PinAssumption == /\ Owner \in Accounts
                        /\ Synced \cup Flagged \subseteq Devices
                        /\ Granted \subseteq Accounts
ASSUME BoundAssumption == MaxGeneration \in Nat /\ MaxFaults \in Nat

VARIABLES
    pin,        \* the row of pins: life and netmap_generation
    roles,      \* pin_roles: [Accounts -> role or None]
    member,     \* pin_members: [Devices -> row]
    held,       \* PinManager::state of each device: None or a PinState
    disk,       \* netmap.json of each device
    round,      \* sync_once in progress: [Devices -> [Tasks -> step and answers]]
    faults      \* rounds that failed, and restarts

gateway == <<pin, roles, member>>
node == <<held, disk, round, faults>>
vars == <<pin, roles, member, held, disk, round, faults>>

-----------------------------------------------------------------------------
Role == {"admin", "modelrator"}
Status == {"none", "pending", "active", "disabled", "removed"}

\* "loop" is the 60-second loop of the runtime, "app" the sync the local
\* app's join request makes.
Tasks == {"loop", "app"}

\* "none" stands for no row; keyed: the wg key was advertised.
Row == [status : Status, serves : BOOLEAN, exits : BOOLEAN, keyed : BOOLEAN]
Entry == [disabled : BOOLEAN, serves : BOOLEAN, exits : BOOLEAN, keyed : BOOLEAN]
Netmap == [generation : 0..MaxGeneration,
           members : UNION {[D -> Entry] : D \in SUBSET Devices}]
PinState == [membership : Status, netmap : Netmap \cup {None}]

Steps == {"idle", "listed", "checked", "answered"}
Round == [at : Steps, listed : BOOLEAN, membership : Status, netmap : Netmap \cup {None}]

IdleRound == [at |-> "idle", listed |-> FALSE, membership |-> "none", netmap |-> None]
NoRow == [status |-> "none", serves |-> FALSE, exits |-> FALSE, keyed |-> FALSE]

TypeOK ==
    /\ pin \in [life : {"absent", "live", "deleted"}, generation : 0..MaxGeneration]
    /\ roles \in [Accounts -> Role \cup {None}]
    /\ member \in [Devices -> Row]
    /\ held \in [Synced -> PinState \cup {None}]
    /\ disk \in [Synced -> Netmap \cup {None}]
    /\ round \in [Synced -> [Tasks -> Round]]
    /\ faults \in 0..MaxFaults

\* No network yet, or one that the devices outside Synced are members of.
Init ==
    /\ \/ /\ pin = [life |-> "absent", generation |-> 0]
          /\ roles = [a \in Accounts |-> None]
          /\ member = [d \in Devices |-> NoRow]
       \/ /\ pin = [life |-> "live", generation |-> 0]
          /\ roles = [[a \in Accounts |-> None] EXCEPT ![Owner] = "admin"]
          /\ member = [d \in Devices |->
                IF d \in Synced THEN NoRow
                ELSE [NoRow EXCEPT !.status = "active", !.keyed = TRUE]]
    /\ held = [d \in Synced |-> None]
    /\ disk = [d \in Synced |-> None]
    /\ round = [d \in Synced |-> [t \in Tasks |-> IdleRound]]
    /\ faults = 0

-----------------------------------------------------------------------------
(* The gateway: staff. *)

\* A network exists until it is deleted; the role rows outlive it.
role_of(a) == IF pin.life = "live" /\ a = Owner THEN "admin" ELSE roles[a]

create_pin ==
    /\ pin.life = "absent"
    /\ pin' = [pin EXCEPT !.life = "live"]
    /\ roles' = [roles EXCEPT ![Owner] = "admin"]
    /\ UNCHANGED <<member, node>>

\* A handler reads the caller's role and then writes.  A request in progress
\* when its account loses the role writes what a request of the owner could
\* write then, so the two are one step here.
Standing == {role_of(a) : a \in Accounts} \ {None}

\* A write that found its row as it must be, with the bump of the netmap's
\* generation in the same transaction.
Bump == /\ pin.generation < MaxGeneration
        /\ pin' = [pin EXCEPT !.generation = @ + 1]

\* A write that forgets to bump.
Restatus_NoBump(d, from, to) ==
    /\ member[d].status \in from
    /\ member' = [member EXCEPT ![d].status = to]
    /\ UNCHANGED pin

Restatus(d, from, to) ==
    /\ member[d].status \in from
    /\ member' = [member EXCEPT ![d].status = to]
    /\ Bump

approve_member(d) == Restatus(d, {"pending"}, "active")

remove_member(d) == Restatus(d, {"active", "disabled"}, "removed")

set_member_disabled(d, disabled) ==
    IF disabled THEN Restatus(d, {"active"}, "disabled")
                ELSE Restatus(d, {"disabled"}, "active")

deny_member(d) ==
    /\ member[d].status = "pending"
    /\ member' = [member EXCEPT ![d] = NoRow]
    /\ UNCHANGED pin

\* Any row has the flag, that of a pending or removed device too.
update_member(d, serves) ==
    /\ member[d].status # "none"
    /\ member[d].serves # serves
    /\ member' = [member EXCEPT ![d].serves = serves]
    /\ Bump

AdminWrite(d) ==
    \/ approve_member(d)
    \/ deny_member(d)
    \/ remove_member(d)
    \/ \E b \in BOOLEAN : set_member_disabled(d, b)

delete_pin ==
    /\ pin.life = "live"
    /\ pin' = [pin EXCEPT !.life = "deleted"]
    /\ UNCHANGED <<roles, member, node>>

grant_role(a, r) == roles' = [roles EXCEPT ![a] = r]

\* Neither the owner's row nor the last admin's can be revoked.
revoke_role(a) ==
    /\ a # Owner
    /\ roles[a] = "admin" => Cardinality({b \in Accounts : roles[b] = "admin"}) > 1
    /\ roles' = [roles EXCEPT ![a] = None]

\* The serving toggle is open to both roles, the rest to admins, and the
\* deletion to the owner, who is an admin.
StaffWrite ==
    \/ /\ \/ Standing # {} /\ \E d \in Flagged, b \in BOOLEAN : update_member(d, b)
          \/ "admin" \in Standing /\ \E d \in Devices : AdminWrite(d)
       /\ UNCHANGED <<roles, node>>
    \/ /\ "admin" \in Standing
       /\ \E a \in Granted : revoke_role(a) \/ \E r \in Role : grant_role(a, r)
       /\ UNCHANGED <<pin, member, node>>

-----------------------------------------------------------------------------
(* The gateway: devices. *)

\* The join code in the request is the current one.  (The answer is the same
\* for a wrong code and for a knock over the rate limit.)
submit_join(d) ==
    /\ pin.life = "live"
    /\ member[d].status \in {"none", "removed"}
    /\ member' = [member EXCEPT ![d].status = "pending"]
    /\ UNCHANGED <<pin, roles, node>>

leave(d) ==
    /\ remove_member(d)
    /\ UNCHANGED <<roles, node>>

\* What a sync that says whether the device is an exit changes.
set_member_offers_exit(d) ==
    /\ member[d].status = "active"
    /\ member' = [member EXCEPT ![d].exits = ~@]
    /\ Bump
    /\ UNCHANGED <<roles, node>>

\* pins_for_device: deleted networks and removed devices are left out.
Listed(d) == pin.life = "live" /\ member[d].status \notin {"none", "removed"}

\* Disabled members stay listed, without their endpoints.
build_netmap ==
    LET D == {d \in Devices : member[d].status \in {"active", "disabled"}} IN
    [generation |-> pin.generation,
     members |-> [d \in D |->
        [disabled |-> member[d].status = "disabled", serves |-> member[d].serves,
         exits |-> member[d].exits, keyed |-> member[d].keyed]]]

-----------------------------------------------------------------------------
(* A device: sync_once, run by the loop and by the local app's join.  Every   *)
(* request may fail, which ends the round.                                    *)
At(d, t, step) == round[d][t].at = step
Go(d, t, r) == round' = [round EXCEPT ![d][t] = r]

Fail(d, t) ==
    /\ ~At(d, t, "idle")
    /\ faults < MaxFaults
    /\ faults' = faults + 1
    /\ Go(d, t, IdleRound)
    /\ UNCHANGED <<gateway, held, disk>>

\* A round starts with the list of the device's networks, and forgets the
\* network when it is not on the list.
fetch_memberships(d, t) ==
    /\ At(d, t, "idle")
    /\ Go(d, t, [IdleRound EXCEPT !.at = "listed", !.listed = Listed(d)])
    /\ UNCHANGED <<gateway, held, disk, faults>>

\* A prune that keeps what the device holds.
Prune_Keeps(d, t) ==
    /\ At(d, t, "listed")
    /\ ~round[d][t].listed
    /\ Go(d, t, IdleRound)
    /\ UNCHANGED <<gateway, held, disk, faults>>

Prune(d, t) ==
    /\ At(d, t, "listed")
    /\ ~round[d][t].listed
    /\ Go(d, t, IdleRound)
    /\ held' = [held EXCEPT ![d] = None]
    /\ UNCHANGED <<gateway, disk, faults>>

\* The gateway's sync handler: the status it reads first, with what an active
\* device advertises.
SyncChecks(d, t) ==
    /\ At(d, t, "listed")
    /\ round[d][t].listed
    /\ LET s == member[d].status IN
       IF s = "active"
       THEN /\ Go(d, t, [round[d][t] EXCEPT !.at = "checked", !.membership = "active"])
            /\ member' = [member EXCEPT ![d].keyed = TRUE]
       ELSE /\ Go(d, t, [round[d][t] EXCEPT !.at = "answered",
                            !.membership = IF s = "removed" THEN "none" ELSE s])
            /\ UNCHANGED member
    /\ UNCHANGED <<pin, roles, held, disk, faults>>

\* The same of the other devices.
Advertise(d) ==
    /\ d \notin Synced
    /\ member[d].status = "active"
    /\ ~member[d].keyed
    /\ member' = [member EXCEPT ![d].keyed = TRUE]
    /\ UNCHANGED <<pin, roles, node>>

\* The netmap it builds last, or a 404 when the network is gone.
SyncAnswers(d, t) ==
    /\ At(d, t, "checked")
    /\ IF pin.life = "live"
       THEN Go(d, t, [round[d][t] EXCEPT !.at = "answered", !.netmap = build_netmap])
       ELSE Go(d, t, IdleRound)
    /\ UNCHANGED <<gateway, held, disk, faults>>

\* The answer's membership, and its netmap if it has one; the file of an
\* older netmap stays when it has none.
accept_netmap(d, t) ==
    /\ At(d, t, "answered")
    /\ LET r == round[d][t]
           kept == IF held[d] = None THEN None ELSE held[d].netmap IN
       /\ held' = [held EXCEPT ![d] =
            [membership |-> r.membership,
             netmap |-> IF r.netmap = None THEN kept ELSE r.netmap]]
       /\ disk' = IF r.netmap = None THEN disk ELSE [disk EXCEPT ![d] = r.netmap]
    /\ Go(d, t, IdleRound)
    /\ UNCHANGED <<gateway, faults>>

\* A restart reads the cached netmap and takes the device for an active
\* member, unless the file is older than NETMAP_MAX_AGE_SECONDS.
Restart(d) ==
    /\ faults < MaxFaults
    /\ faults' = faults + 1
    /\ round' = [round EXCEPT ![d] = [t \in Tasks |-> IdleRound]]
    /\ \E fresh \in BOOLEAN :
        held' = [held EXCEPT ![d] =
            IF fresh /\ disk[d] # None
            THEN [membership |-> "active", netmap |-> disk[d]] ELSE None]
    /\ UNCHANGED <<gateway, disk>>

-----------------------------------------------------------------------------
\* The transport's authorizer: d answers a handshake of p.
Authorizes(d, p) ==
    /\ held[d] # None
    /\ held[d].membership = "active"
    /\ held[d].netmap # None
    /\ p \in DOMAIN held[d].netmap.members
    /\ ~held[d].netmap.members[p].disabled
    /\ held[d].netmap.members[p].keyed

sync_once(d, t) ==
    \/ Prune(d, t)
    \/ SyncChecks(d, t)
    \/ SyncAnswers(d, t)
    \/ accept_netmap(d, t)

Next ==
    \/ create_pin
    \/ StaffWrite
    \/ delete_pin
    \/ \E d \in Devices :
        submit_join(d) \/ leave(d) \/ Advertise(d)
    \/ \E d \in Flagged : set_member_offers_exit(d)
    \/ \E d \in Synced :
        \/ Restart(d)
        \/ \E t \in Tasks : fetch_memberships(d, t) \/ sync_once(d, t) \/ Fail(d, t)

Spec == Init /\ [][Next]_vars

\* The loop never stops and a round goes on once it began; failed requests are
\* bounded by MaxFaults, so some later round gets through.
Fairness ==
    /\ \A d \in Synced : WF_vars(fetch_memberships(d, "loop"))
    /\ \A d \in Synced, t \in Tasks :
        WF_vars(sync_once(d, t))
    /\ \A d \in Devices : WF_vars(Advertise(d))

FairSpec == Spec /\ Fairness

-----------------------------------------------------------------------------
Memberships(n) == [d \in DOMAIN n.members |->
    [disabled |-> n.members[d].disabled, serves |-> n.members[d].serves,
     exits |-> n.members[d].exits]]

\* All the netmaps some device has or is about to have.
Netmaps == ({disk[d] : d \in Synced}
            \cup {round[d][t].netmap : d \in Synced, t \in Tasks}
            \cup {held[d].netmap : d \in {e \in Synced : held[e] # None}}) \ {None}

\* A netmap with the gateway's current generation lists the members, with
\* their standing and flags, as the gateway's rows do: whoever compares
\* generations can tell that a membership change is missing, in whatever order
\* answers, writes and restarts came.
GenerationTellsMembership ==
    \A n \in Netmaps :
        n.generation = pin.generation => Memberships(n) = Memberships(build_netmap)

Admitted(d) == pin.life = "live" /\ member[d].status = "active"

\* Once it is settled whether two devices are members, a device with a running
\* loop comes to refuse handshakes of a peer that is not, and to admit one that
\* is, through failed rounds, restarts from an old cache, and the app's sync
\* racing the loop's.
NetmapsConverge ==
    \A d \in Synced, p \in Devices :
        /\ <>[](~Admitted(d) \/ ~Admitted(p)) => <>[]~Authorizes(d, p)
        /\ <>[](Admitted(d) /\ Admitted(p)) => <>[]Authorizes(d, p)
=============================================================================
