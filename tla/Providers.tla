----------------------------- MODULE Providers -----------------------------
(***************************************************************************)
(* The centralized providers (gateway/src/providers, router.rs,            *)
(* handlers/centralized.rs and admin_providers.rs): the provider tables    *)
(* and their in-memory snapshot, the rolling health window, the selection  *)
(* and ordering of the candidates of a request, the walk over them, and    *)
(* the settlement with the provider that served it.                        *)
(*                                                                         *)
(* One model; what a provider's rows say is the constant Offer.  An admin  *)
(* call writes under one lock and refreshes the snapshot under another.    *)
(* A buffered attempt is awaited by the handler; a streaming one is pumped *)
(* by a task of its own while the handler has already answered.            *)
(***************************************************************************)
EXTENDS Integers, Sequences, FiniteSets

CONSTANTS
  None,
  Rows,         \* the providers, in the order the table scan returns them
  Offer,        \* per provider: price, quantization, zdr, deny, features
  Stored,       \* per provider: its rows when the gateway boots
  Asks,         \* the requests' bodies: provider preferences, features, stream
  Requests,     \* chat requests for the model
  Admins,       \* holders of a static bearer, one call each at a time
  MAX_SAMPLES,  \* the health window's length (2000 in the code)
  MaxEdits      \* bound: admin calls

VARIABLES
  status,       \* providers.status, "absent" before create_provider
  menu,         \* BOOLEAN per provider: provider_models has a row for the model
  inner,        \* the registry's snapshot of both
  admin,        \* per admin: the call that has yet to refresh
  edits,        \* admin calls made
  bucket,       \* per provider: its samples and its last outage
  req,          \* per request: the handler or its pump
  paid,         \* provider_ledger: <<request, provider>> settled
  off           \* history: providers whose disabling has been answered

vars == <<status, menu, inner, admin, edits, bucket, req, paid, off>>
tables == <<status, menu, inner, admin, edits, off>>

Providers == {Rows[i] : i \in DOMAIN Rows}
Fleet == "teale-distributed"

-----------------------------------------------------------------------------
(* The health window.  A sample is young for 30 seconds and leaves after   *)
(* 300; the speed of a success is its tokens per second.                   *)

Tracked == [samples |-> << >>, outage |-> FALSE]

push(b, sample) ==
  LET all == Append(b.samples, sample)
  IN [samples |-> IF Len(all) > MAX_SAMPLES THEN Tail(all) ELSE all,
      outage |-> b.outage \/ (~sample.success /\ sample.counts)]

record_success(p, speed) ==
  bucket' = [bucket EXCEPT ![p] =
               push(@, [success |-> TRUE, counts |-> TRUE, speed |-> speed])]

record_failure(p, counts) ==
  bucket' = [bucket EXCEPT ![p] =
               push(@, [success |-> FALSE, counts |-> counts, speed |-> 0])]

(* Half a minute without a sample, and five. *)
Settles ==
  /\ \E p \in Providers : bucket[p].outage
  /\ bucket' = [p \in Providers |-> [bucket[p] EXCEPT !.outage = FALSE]]
  /\ UNCHANGED <<tables, req, paid>>

evict ==
  /\ \E p \in Providers : bucket[p] # Tracked
  /\ bucket' = [p \in Providers |-> Tracked]
  /\ UNCHANGED <<tables, req, paid>>

recently_unstable(p) == bucket[p].outage

(* The median: element round((n - 1) / 2) of the sorted speeds, from 0. *)
tps_p50(p) ==
  LET fast == SelectSeq(bucket[p].samples, LAMBDA s : s.success)
      n == Len(fast)
      below(v) == Cardinality({i \in 1..n : fast[i].speed < v})
      upto(v) == Cardinality({i \in 1..n : fast[i].speed <= v})
  IN IF n = 0 THEN 0
     ELSE CHOOSE v \in {fast[i].speed : i \in 1..n} :
            below(v) <= n \div 2 /\ n \div 2 < upto(v)

-----------------------------------------------------------------------------
(* The preferences of a request. *)

(* Without a "provider" object the derived default applies: it allows no   *)
(* fallback, unlike the default of an object that leaves the field out.    *)
extract_preferences(ask) ==
  IF ask.provider = None
    THEN [order |-> None, allow_fallbacks |-> FALSE, only |-> None, ignore |-> {},
          quantizations |-> None, sort |-> None, max_price |-> None,
          min_throughput |-> None, require |-> FALSE, deny |-> FALSE, zdr |-> FALSE]
    ELSE ask.provider

(* The sort a :nitro or :floor suffix of the model stands for. *)
parse_slug_shortcut(ask) ==
  LET prefs == extract_preferences(ask)
  IN IF prefs.sort = None THEN [prefs EXCEPT !.sort = ask.suffix] ELSE prefs

lookup_model == SelectSeq(Rows, LAMBDA p : inner.menu[p] /\ inner.status[p] = "active")

rank_provider_candidates(rows, prefs, ask) ==
  SelectSeq(rows, LAMBDA p :
    /\ prefs.only # None => p \in prefs.only
    /\ p \notin prefs.ignore
    /\ prefs.quantizations # None => Offer[p].quantization \in prefs.quantizations
    /\ prefs.zdr => Offer[p].zdr
    /\ prefs.deny => Offer[p].deny
    /\ prefs.require => ask.features \subseteq Offer[p].features
    /\ prefs.max_price # None => Offer[p].price <= prefs.max_price)

(* What the library's sort_by does: a stable sort, here by an integer key. *)
StableSort(s, key(_)) ==
  LET before(i, j) == key(s[i]) < key(s[j]) \/ (key(s[i]) = key(s[j]) /\ i < j)
      place(i) == Cardinality({j \in DOMAIN s : before(j, i)}) + 1
  IN [n \in DOMAIN s |-> s[CHOOSE i \in DOMAIN s : place(i) = n]]

blended_price(c) == IF c = Fleet THEN 0 ELSE Offer[c].price

meets_min_throughput(p, floor) == tps_p50(p) >= floor

order_candidates(candidates, prefs, local) ==
  LET met(p) == IF meets_min_throughput(p, prefs.min_throughput) THEN 0 ELSE 1
      providers == IF prefs.min_throughput = None THEN candidates
                   ELSE StableSort(candidates, met)
      all == IF local THEN Append(providers, Fleet) ELSE providers
      pos(c) == IF \E i \in DOMAIN prefs.order : prefs.order[i] = c
                  THEN CHOOSE i \in DOMAIN prefs.order : prefs.order[i] = c
                  ELSE Len(prefs.order) + 1
      slowness(c) == IF c = Fleet THEN 0 ELSE -tps_p50(c)
      unstable(c) == c # Fleet /\ recently_unstable(c)
  IN CASE prefs.order # None -> StableSort(all, pos)
       [] prefs.order = None /\ prefs.sort = "price" -> StableSort(all, blended_price)
       [] prefs.order = None /\ prefs.sort = "throughput" -> StableSort(all, slowness)
       [] OTHER -> StableSort(SelectSeq(all, LAMBDA c : ~unstable(c)), blended_price)
                   \o SelectSeq(all, unstable)

(* The candidates before the fleet's place are tried. *)
Walk(ordered) ==
  LET fleet == {i \in DOMAIN ordered : ordered[i] = Fleet}
  IN IF fleet = {} THEN ordered
     ELSE SubSeq(ordered, 1, (CHOOSE i \in fleet : TRUE) - 1)

-----------------------------------------------------------------------------
(* Admin calls: a write, then a refresh of the snapshot from the tables.   *)

Calls(a) ==
  /\ admin[a] = None
  /\ edits < MaxEdits
  /\ edits' = edits + 1

create_provider(a, p) ==
  /\ Calls(a)
  /\ status[p] = "absent"
  /\ status' = [status EXCEPT ![p] = "active"]
  /\ admin' = [admin EXCEPT ![a] = "create"]
  /\ UNCHANGED <<menu, inner, bucket, req, paid, off>>

(* The call is for a provider the snapshot knows.  It ends without the     *)
(* refresh when a later row of its batch cannot be written.                *)
upsert_models(a, p) ==
  /\ Calls(a)
  /\ inner.status[p] # "absent"
  /\ menu' = [menu EXCEPT ![p] = TRUE]
  /\ \E c \in {"upsert", None} : admin' = [admin EXCEPT ![a] = c]
  /\ UNCHANGED <<status, inner, bucket, req, paid, off>>

set_provider_status(a, p, s) ==
  /\ Calls(a)
  /\ status[p] # "absent"
  /\ status' = [status EXCEPT ![p] = s]
  /\ off' = IF s = "active" THEN off \ {p} ELSE off
  /\ admin' = [admin EXCEPT ![a] = IF s = "disabled" THEN p ELSE "enable"]
  /\ UNCHANGED <<menu, inner, bucket, req, paid>>

refresh_Menu == [inner EXCEPT !.menu = menu]    \* the providers are not re-read

(* Both tables are read and the snapshot replaced under the pool's lock. *)
refresh == [status |-> status, menu |-> menu]

Answer(a) ==
  /\ admin[a] # None
  /\ inner' = refresh
  /\ admin' = [admin EXCEPT ![a] = None]
  /\ off' = off \cup ({admin[a]} \cap {p \in Providers : status[p] = "disabled"})
  /\ UNCHANGED <<status, menu, edits, bucket, req, paid>>

-----------------------------------------------------------------------------
(* Requests. *)

Finish(r, pc) == req' = [req EXCEPT ![r].pc = pc]

(* The handler up to its first attempt: the request is left to the fleet   *)
(* unless a provider leads its order or nobody else has the model; local:  *)
(* a node of the fleet has it loaded now.                                  *)
try_centralized_dispatch(r, ask, local) ==
  LET prefs == parse_slug_shortcut(ask)
      rows == lookup_model
      candidates == rank_provider_candidates(rows, prefs, ask)
      first_in_order == /\ prefs.order # None
                        /\ prefs.order # << >>
                        /\ \E i \in DOMAIN candidates : candidates[i] = prefs.order[1]
      only_supply == ~local /\ candidates # << >>
      tried == Walk(order_candidates(candidates, prefs, local))
  IN /\ req[r].pc = "new"
     /\ req' = [req EXCEPT ![r] =
                  IF (first_in_order \/ only_supply) /\ tried # << >>
                    THEN [@ EXCEPT !.pc = IF ask.stream THEN "connect" ELSE "await",
                                   !.prefs = prefs, !.tried = tried, !.barred = off]
                    ELSE [@ EXCEPT !.pc = "fleet"]]
     /\ UNCHANGED <<tables, bucket, paid>>

Serving(r) == Head(req[r].tried)

settle_provider_request(r, cost) ==
  paid' = IF cost > 0 THEN Append(paid, <<r, Serving(r)>>) ELSE paid

(* A buffered attempt succeeds. *)
dispatch_buffered(r, speed, cost) ==
  /\ req[r].pc = "await"
  /\ record_success(Serving(r), speed)
  /\ settle_provider_request(r, cost)
  /\ req' = [req EXCEPT ![r].pc = "served", ![r].used = cost]
  /\ UNCHANGED tables

(* A buffered attempt fails: the next candidate, if fallbacks are allowed. *)
AttemptFails(r, counts) ==
  LET more == req[r].prefs.allow_fallbacks /\ Len(req[r].tried) > 1
  IN /\ req[r].pc = "await"
     /\ record_failure(Serving(r), counts)
     /\ req' = [req EXCEPT ![r] =
                  [@ EXCEPT !.pc = IF more THEN "await" ELSE "failed",
                            !.tried = IF more THEN Tail(@) ELSE @]]
     /\ UNCHANGED <<tables, paid>>

(* The streaming pump.  The handler has answered: a provider that refuses  *)
(* the request ends the stream and no other one is tried.                  *)
PumpConnects(r) ==
  /\ req[r].pc = "connect"
  /\ Finish(r, "pump")
  /\ UNCHANGED <<tables, bucket, paid>>

PumpFails_Settles(r, counts) ==   \* the usage seen before the break is settled
  /\ req[r].pc \in {"connect", "pump"}
  /\ record_failure(Serving(r), counts)
  /\ settle_provider_request(r, req[r].used)
  /\ Finish(r, "broken")
  /\ UNCHANGED tables

PumpFails(r, counts) ==
  /\ req[r].pc \in {"connect", "pump"}
  /\ record_failure(Serving(r), counts)
  /\ Finish(r, "broken")
  /\ UNCHANGED <<tables, paid>>

(* The pump returns its report: at [DONE], or when a line finds the        *)
(* client's receiver gone.  It settles what the usage said so far.         *)
PumpEnds(r, speed, used) ==
  /\ record_success(Serving(r), speed)
  /\ settle_provider_request(r, used)
  /\ req' = [req EXCEPT ![r].pc = "served", ![r].used = used]
  /\ UNCHANGED tables

PumpLine(r, speed, usage) ==
  LET used == IF usage > 0 THEN usage ELSE req[r].used
  IN /\ req[r].pc = "pump"
     /\ IF req[r].client
          THEN /\ req' = [req EXCEPT ![r].used = used]
               /\ UNCHANGED <<tables, bucket, paid>>
          ELSE PumpEnds(r, speed, used)

PumpDone(r, speed) ==
  /\ req[r].pc = "pump"
  /\ PumpEnds(r, speed, req[r].used)

(* The client goes: a buffered attempt is dropped with its handler, a pump *)
(* runs on.                                                                *)
ClientGoes(r) ==
  /\ req[r].client
  /\ req[r].pc \in {"await", "connect", "pump"}
  /\ req' = [req EXCEPT ![r].client = FALSE,
                        ![r].pc = IF @ = "await" THEN "dropped" ELSE @]
  /\ UNCHANGED <<tables, bucket, paid>>

-----------------------------------------------------------------------------
Init ==
  /\ status = [p \in Providers |-> Stored[p].status]
  /\ menu = [p \in Providers |-> Stored[p].menu]
  /\ inner = [status |-> status, menu |-> menu]
  /\ admin = [a \in Admins |-> None]
  /\ edits = 0
  /\ bucket = [p \in Providers |-> Tracked]
  /\ req = [r \in Requests |-> [pc |-> "new", prefs |-> None, tried |-> << >>,
                                used |-> 0, client |-> TRUE, barred |-> {}]]
  /\ paid = << >>
  /\ off = {}

Next ==
  \/ \E a \in Admins :
       \/ \E p \in Providers :
            \/ create_provider(a, p)
            \/ upsert_models(a, p)
            \/ \E s \in {"active", "disabled"} : set_provider_status(a, p, s)
       \/ Answer(a)
  \/ \E r \in Requests :
       \/ \E ask \in Asks, local \in BOOLEAN : try_centralized_dispatch(r, ask, local)
       \/ \E speed \in 1..2 :
            \/ \E cost \in 0..1 : dispatch_buffered(r, speed, cost) \/ PumpLine(r, speed, cost)
            \/ PumpDone(r, speed)
       \/ \E counts \in BOOLEAN : AttemptFails(r, counts) \/ PumpFails(r, counts)
       \/ PumpConnects(r)
       \/ ClientGoes(r)
  \/ Settles
  \/ evict

Spec == Init /\ [][Next]_vars

-----------------------------------------------------------------------------
TypeOK ==
  /\ status \in [Providers -> {"absent", "active", "disabled"}]
  /\ menu \in [Providers -> BOOLEAN]
  /\ \A p \in Providers : Len(bucket[p].samples) <= MAX_SAMPLES
  /\ \A r \in Requests :
       req[r].pc \in {"new", "fleet", "await", "connect", "pump", "served", "failed",
                      "broken", "dropped"}

(* A request is settled at most once, with the provider that answered it,  *)
(* and exactly when that provider's usage reached the gateway: an attempt  *)
(* that failed over, broke mid-stream or was dropped pays nobody.          *)
PaidWhoServed ==
  \A r \in Requests :
    LET rows == SelectSeq(paid, LAMBDA row : row[1] = r)
    IN rows = IF req[r].pc = "served" /\ req[r].used > 0 THEN <<<<r, Serving(r)>>>> ELSE << >>

(* A request that starts after an admin's disabling of a provider was      *)
(* answered never asks that provider, whatever other admin calls refresh   *)
(* the snapshot in between.                                                *)
DisabledIsLeft ==
  \A r \in Requests : \A i \in DOMAIN req[r].tried : req[r].tried[i] \notin req[r].barred
=============================================================================
