------------------------------ MODULE ShareKeys ------------------------------
(***************************************************************************)
(* Share keys: bearer tokens whose spending is paid from a pool that the   *)
(* issuing device, and any other device, filled in advance.  The module    *)
(* models minting, funding, spending, revoking and expiring them, the      *)
(* migration of keys from the time before pools, and the settlement of     *)
(* requests made with a device token or a share key                        *)
(* (gateway/src/ledger.rs, handlers/share_keys.rs, auth.rs, db.rs).        *)
(*                                                                         *)
(* Every ledger function runs under the one lock of the SQLite connection, *)
(* so it is one action.  A request is several: it is authenticated,        *)
(* checked against the budget, served, and settled, and other requests and *)
(* ledger calls run in between.                                            *)
(***************************************************************************)
EXTENDS SettlementSplit, SequencesExt

CONSTANTS
    Devices,           \* device ids
    Ops,               \* the sentinel device "__ops__"
    Keys,              \* share key ids
    Requests,          \* inference requests
    Earnings,          \* [Devices -> Nat], balances when the model starts
    LegacyKeys,        \* [a subset of Keys -> LegacyKey], keys of older versions
    Budgets,           \* budgets and funding amounts that devices ask for
    Costs,             \* what a served request may cost
    MinRequired,       \* the cost of a prompt and one token, for compute_clamp
    MaxActive,         \* SHARE_KEY_MAX_ACTIVE_PER_ISSUER
    None

Wallets == Devices \cup {Ops}

\* A row of share_keys written before pools (funded = 0), or before the
\* contributions table (funded = 1).
LegacyKey == [issuer : Devices, budget : Nat \ {0}, consumed : Nat, funded : BOOLEAN,
              revoked : BOOLEAN]

ASSUME WalletsAssumption == Ops \notin Devices /\ None \notin Devices \cup Keys
ASSUME CreditsAssumption ==
    /\ Earnings \in [Devices -> Nat]
    /\ Budgets \subseteq Nat \ {0}
    /\ Costs \subseteq Nat \ {0}
    /\ MinRequired \in Nat \ {0}
    /\ MaxActive \in Nat
ASSUME LegacyAssumption ==
    /\ DOMAIN LegacyKeys \subseteq Keys
    /\ \A k \in DOMAIN LegacyKeys : /\ LegacyKeys[k] \in LegacyKey
                                    /\ LegacyKeys[k].consumed <= LegacyKeys[k].budget

VARIABLES
    up,                \* the gateway runs, and its database is open
    balances,          \* [Wallets -> balance]
    rows,              \* [Wallets -> the sum of the ledger rows]
    provider_wallet,   \* balance of the vendors' provider_wallets
    total_paid_out,    \* credits paid out of them
    issuer,            \* [Keys -> the issuing device, None before the key exists]
    budget_credits, consumed_credits,
    funded,            \* [Keys -> BOOLEAN]
    revoked,           \* revoked_at is set
    expired,           \* expires_at <= now
    refunds_settled,   \* refunds_settled_at is set
    contributions,     \* [Keys -> Seq([funder, remaining])], by created_at and id
    request            \* [Requests -> where it stands]

money == <<balances, rows, provider_wallet, total_paid_out>>
keys == <<issuer, budget_credits, consumed_credits, funded, revoked, refunds_settled,
          contributions>>
vars == <<up, money, keys, expired, request>>

Contribution == [funder : Devices, remaining : Nat]
New == [phase |-> "new", key |-> None, device |-> None]
RequestState == [phase : {"new", "authenticated", "fleet", "provider", "done"},
                 key : Keys \cup {None}, device : Devices \cup {None}]

\* Every column has its type; a contribution's remaining credits and a vendor's
\* wallet (record_provider_payout) stay nonnegative.
TypeOK ==
    /\ up \in BOOLEAN
    /\ balances \in [Wallets -> Int] /\ rows \in [Wallets -> Int]
    /\ provider_wallet \in Nat /\ total_paid_out \in Nat
    /\ issuer \in [Keys -> Devices \cup {None}]
    /\ budget_credits \in [Keys -> Nat]
    /\ \A k \in Keys : issuer[k] # None => budget_credits[k] > 0
    /\ consumed_credits \in [Keys -> Nat]
    /\ funded \in [Keys -> BOOLEAN] /\ revoked \in [Keys -> BOOLEAN]
    /\ expired \in [Keys -> BOOLEAN] /\ refunds_settled \in [Keys -> BOOLEAN]
    /\ contributions \in [Keys -> Seq(Contribution)]
    /\ request \in [Requests -> RequestState]

\* A database left by an older version, before the gateway opens it.
Init ==
    /\ up = FALSE
    /\ balances = [w \in Wallets |-> IF w = Ops THEN 0 ELSE Earnings[w]]
    /\ rows = balances
    /\ provider_wallet = 0 /\ total_paid_out = 0
    /\ issuer = [k \in Keys |-> IF k \in DOMAIN LegacyKeys THEN LegacyKeys[k].issuer ELSE None]
    /\ budget_credits = [k \in Keys |-> IF k \in DOMAIN LegacyKeys THEN LegacyKeys[k].budget ELSE 0]
    /\ consumed_credits = [k \in Keys |->
                             IF k \in DOMAIN LegacyKeys THEN LegacyKeys[k].consumed ELSE 0]
    /\ funded = [k \in Keys |-> k \in DOMAIN LegacyKeys /\ LegacyKeys[k].funded]
    /\ revoked = [k \in Keys |-> k \in DOMAIN LegacyKeys /\ LegacyKeys[k].revoked]
    /\ expired \in {e \in [Keys -> BOOLEAN] : \A k \in Keys \ DOMAIN LegacyKeys : ~e[k]}
    /\ refunds_settled = [k \in Keys |-> FALSE]
    /\ contributions = [k \in Keys |-> <<>>]
    /\ request = [r \in Requests |-> New]

-----------------------------------------------------------------------------
(* The pool of a key.                                                      *)

Remaining(k) == [i \in DOMAIN contributions[k] |-> contributions[k][i].remaining]
sum_share_key_contributions(k) == SumFunction(Remaining(k))

\* Rows of one second are ordered by a random id, and the clock counts
\* seconds: a new contribution may land anywhere among the older ones.
insert_share_key_contribution(k, funder, remaining) ==
    \E i \in 1..(Len(contributions[k]) + 1) :
       contributions' = [contributions EXCEPT ![k] =
           InsertAt(@, i, [funder |-> funder, remaining |-> AtLeast(remaining, 0)])]

\* What returning the pools K pays the device w.
RefundTo(w, K) ==
    SumFunction([k \in K |->
        SumFunction([i \in DOMAIN contributions[k] |->
            IF contributions[k][i].funder = w THEN contributions[k][i].remaining ELSE 0])])

\* Every contribution to the keys K goes back to its funder.
refund_share_key_contributions(K) ==
    /\ balances' = [w \in Wallets |-> balances[w] + RefundTo(w, K)]
    /\ rows' = [w \in Wallets |-> rows[w] + RefundTo(w, K)]
    /\ contributions' = [k \in Keys |->
          IF k \notin K THEN contributions[k]
          ELSE [i \in DOMAIN contributions[k] |-> [contributions[k][i] EXCEPT !.remaining = 0]]]
    /\ refunds_settled' = [k \in Keys |-> refunds_settled[k] \/ k \in K]

-----------------------------------------------------------------------------
(* The gateway's life, and the clock.                                      *)

Closed(k) == revoked[k] \/ (expired[k] /\ refunds_settled[k])

\* Opening the database gives the funded keys that have no contributions one:
\* the issuer's, for what is left of the budget of a key that is not closed.
backfill_funded_share_key_contributions ==
    LET K == {k \in Keys : issuer[k] # None /\ funded[k] /\ contributions[k] = <<>>}
        left(k) == AtLeast(budget_credits[k] - consumed_credits[k], 0)
    IN  contributions' = [k \in Keys |->
            IF k \notin K THEN contributions[k]
            ELSE <<[funder |-> issuer[k], remaining |-> IF Closed(k) THEN 0 ELSE left(k)]>>]

open ==
    /\ ~up
    /\ up' = TRUE
    /\ backfill_funded_share_key_contributions
    /\ UNCHANGED <<money, issuer, budget_credits, consumed_credits, funded, revoked, expired,
                   refunds_settled, request>>

\* The process ends; requests that were being served are never settled.
Crash ==
    /\ up
    /\ up' = FALSE
    /\ request' = [r \in Requests |->
                     IF request[r].phase = "new" THEN request[r]
                     ELSE [request[r] EXCEPT !.phase = "done"]]
    /\ UNCHANGED <<money, keys, expired>>

Expire(k) ==
    /\ issuer[k] # None
    /\ ~expired[k]
    /\ expired' = [expired EXCEPT ![k] = TRUE]
    /\ UNCHANGED <<up, money, keys, request>>

-----------------------------------------------------------------------------
(* Minting, funding and closing keys.                                      *)

Active(d) == {k \in Keys : issuer[k] = d /\ ~revoked[k] /\ ~expired[k]}

mint_share_key(d, k, budget) ==
    /\ up
    /\ issuer[k] = None
    /\ Cardinality(Active(d)) < MaxActive
    /\ balances[d] >= budget
    /\ issuer' = [issuer EXCEPT ![k] = d]
    /\ budget_credits' = [budget_credits EXCEPT ![k] = budget]
    /\ funded' = [funded EXCEPT ![k] = TRUE]
    /\ balances' = [balances EXCEPT ![d] = @ - budget]
    /\ rows' = [rows EXCEPT ![d] = @ - budget]
    /\ insert_share_key_contribution(k, d, budget)
    /\ UNCHANGED <<up, provider_wallet, total_paid_out, consumed_credits, revoked, expired,
                   refunds_settled, request>>

CanFund_AfterExpiry(d, k, amount) ==
    issuer[k] # None /\ ~revoked[k] /\ funded[k] /\ balances[d] >= amount
CanFund(d, k, amount) ==
    /\ issuer[k] # None /\ ~revoked[k] /\ ~expired[k] /\ funded[k]
    /\ balances[d] >= amount

transfer_to_share_key(d, k, amount) ==
    /\ up
    /\ CanFund(d, k, amount)
    /\ balances' = [balances EXCEPT ![d] = @ - amount]
    /\ rows' = [rows EXCEPT ![d] = @ - amount]
    /\ budget_credits' = [budget_credits EXCEPT ![k] = @ + amount]
    /\ insert_share_key_contribution(k, d, amount)
    /\ UNCHANGED <<up, provider_wallet, total_paid_out, issuer, consumed_credits, funded,
                   revoked, expired, refunds_settled, request>>

refund_expired_share_keys ==
    LET K == {k \in Keys : /\ issuer[k] # None /\ funded[k] /\ ~revoked[k]
                           /\ expired[k] /\ ~refunds_settled[k]}
    IN  /\ up
        /\ K # {}
        /\ refund_share_key_contributions(K)
        /\ UNCHANGED <<up, provider_wallet, total_paid_out, issuer, budget_credits,
                       consumed_credits, funded, revoked, expired, request>>

\* Revoking returns the pool unless it was returned when the key expired.
ToRefund(k) == IF funded[k] /\ ~refunds_settled[k] THEN {k} ELSE {}

revoke_share_key(k) ==
    /\ up
    /\ issuer[k] # None
    /\ ~revoked[k]
    /\ revoked' = [revoked EXCEPT ![k] = TRUE]
    /\ refund_share_key_contributions(ToRefund(k))
    /\ UNCHANGED <<up, provider_wallet, total_paid_out, issuer, budget_credits,
                   consumed_credits, funded, expired, request>>

-----------------------------------------------------------------------------
(* The migration of keys that have no pool: what is left of the budget of   *)
(* a live key is taken from its issuer, as far as the wallet goes, and the  *)
(* budget shrinks to what was taken.                                        *)

Unfunded == {k \in Keys : issuer[k] # None /\ ~funded[k]}
Dead(k) == revoked[k] \/ expired[k]
Owed(k) == IF Dead(k) THEN 0 ELSE AtLeast(budget_credits[k] - consumed_credits[k], 0)

\* The debits, taken key by key in the order the query returns them.
Debits(order) ==
    LET taken(debits, d) ==
            SumFunction([k \in Keys |-> IF issuer[k] = d THEN debits[k] ELSE 0])
        debit(debits, k) ==
            [debits EXCEPT ![k] =
               AtMost(Owed(k), AtLeast(balances[issuer[k]] - taken(debits, issuer[k]), 0))]
    IN  FoldLeft(debit, [k \in Keys |-> 0], order)

NewBudget_Kept(k, debits) == budget_credits[k]
NewBudget(k, debits) ==
    IF k \in Unfunded /\ Owed(k) > 0 THEN consumed_credits[k] + debits[k]
    ELSE budget_credits[k]

\* A budget of zero violates the table's CHECK and rolls the migration back.
migrate_unfunded_share_keys ==
    /\ up
    /\ Unfunded # {}
    /\ \E order \in SetToSeqs(Unfunded) :
          LET debits == Debits(order)
              debited(w) == SumFunction([k \in Keys |-> IF issuer[k] = w THEN debits[k] ELSE 0])
          IN  /\ \A k \in Unfunded : NewBudget(k, debits) > 0
              /\ balances' = [w \in Wallets |-> balances[w] - debited(w)]
              /\ rows' = [w \in Wallets |-> rows[w] - debited(w)]
              /\ budget_credits' = [k \in Keys |-> NewBudget(k, debits)]
              /\ contributions' = [k \in Keys |->
                    IF k \notin Unfunded THEN contributions[k]
                    ELSE <<[funder |-> issuer[k], remaining |-> debits[k]]>>]
    /\ funded' = [k \in Keys |-> funded[k] \/ k \in Unfunded]
    /\ refunds_settled' = [k \in Keys |-> refunds_settled[k] \/ (k \in Unfunded /\ Dead(k))]
    /\ UNCHANGED <<up, provider_wallet, total_paid_out, issuer, consumed_credits, revoked,
                   expired, request>>

-----------------------------------------------------------------------------
(* A request: authenticated, checked against the budget when the fleet is   *)
(* to serve it, and settled when it was served.                             *)

Move(r, phase) == request' = [request EXCEPT ![r].phase = phase]

require_bearer(r, d) ==
    /\ up
    /\ request[r].phase = "new"
    /\ request' = [request EXCEPT ![r] = [phase |-> "authenticated", key |-> None, device |-> d]]
    /\ UNCHANGED <<up, money, keys, expired>>

resolve_share_key(r, k) ==
    /\ up
    /\ request[r].phase = "new"
    /\ issuer[k] # None /\ ~revoked[k] /\ ~expired[k]
    /\ consumed_credits[k] < budget_credits[k]
    /\ request' = [request EXCEPT ![r] =
                     [phase |-> "authenticated", key |-> k, device |-> issuer[k]]]
    /\ UNCHANGED <<up, money, keys, expired>>

\* The spending ceiling that compute_clamp is given.
effective_budget(q) ==
    IF q.key = None THEN balances[q.device]
    ELSE LET left == budget_credits[q.key] - consumed_credits[q.key]
         IN  IF funded[q.key] THEN left ELSE AtMost(left, balances[q.device])

prepare_chat_request(r) ==
    /\ up
    /\ request[r].phase = "authenticated"
    /\ effective_budget(request[r]) >= MinRequired
    /\ Move(r, "fleet")
    /\ UNCHANGED <<up, money, keys, expired>>

\* A request that goes to a vendor is not checked against the budget.
try_centralized(r) ==
    /\ up
    /\ request[r].phase = "authenticated"
    /\ Move(r, "provider")
    /\ UNCHANGED <<up, money, keys, expired>>

\* It is refused, fails, or its client leaves: nothing is settled.
Fail(r) ==
    /\ up
    /\ request[r].phase \in {"authenticated", "fleet", "provider"}
    /\ Move(r, "done")
    /\ UNCHANGED <<up, money, keys, expired>>

\* What the payer can cover, read under the lock of the settlement.
effective_cost(q, cost) ==
    IF q.key = None THEN Payable(cost, balances[q.device])
    ELSE IF funded[q.key] THEN Payable(cost, sum_share_key_contributions(q.key))
    ELSE Payable(Payable(cost, balances[q.device]),
                 budget_credits[q.key] - consumed_credits[q.key])

\* The wallet pays for a device and for a key that has no pool.
FromWallet_Always(q, eff) == eff
FromWallet(q, eff) == IF q.key # None /\ funded[q.key] THEN 0 ELSE eff

\* The key's counter and, when it has one, its pool.
SpendKey(q, eff) ==
    /\ consumed_credits' = [consumed_credits EXCEPT ![q.key] = @ + eff]
    /\ contributions' =
         IF ~funded[q.key] THEN contributions
         ELSE LET left == ProRata(Remaining(q.key), eff)
              IN  [contributions EXCEPT ![q.key] =
                     [i \in DOMAIN @ |-> [@[i] EXCEPT !.remaining = left[i]]]]

SpendOn(q, eff) ==
    IF q.key = None THEN UNCHANGED <<consumed_credits, contributions>> ELSE SpendKey(q, eff)

settle_request(r, provider, online, cost) ==
    LET q == request[r]
        eff == effective_cost(q, cost)
        earned(w) == Earned(w, eff, provider, online \ {provider, q.device}, Ops)
    IN  /\ up
        /\ q.phase = "fleet"
        /\ Move(r, "done")
        /\ balances' = [w \in Wallets |->
              balances[w] - (IF w = q.device THEN FromWallet(q, eff) ELSE 0) + earned(w)]
        /\ rows' = [w \in Wallets |->
              rows[w] - (IF w = q.device THEN eff ELSE 0) + earned(w)]
        /\ SpendOn(q, eff)
        /\ UNCHANGED <<up, provider_wallet, total_paid_out, issuer, budget_credits, funded,
                       revoked, expired, refunds_settled>>

settle_provider_request(r, cost) ==
    LET q == request[r]
        eff == effective_cost(q, cost)
        fee(w) == IF w = Ops THEN eff - provider_earn(eff) ELSE 0
    IN  /\ up
        /\ q.phase = "provider"
        /\ Move(r, "done")
        /\ balances' = [w \in Wallets |->
              balances[w] - (IF w = q.device THEN FromWallet(q, eff) ELSE 0) + fee(w)]
        /\ rows' = [w \in Wallets |-> rows[w] - (IF w = q.device THEN eff ELSE 0) + fee(w)]
        /\ provider_wallet' = provider_wallet + provider_earn(eff)
        /\ SpendOn(q, eff)
        /\ UNCHANGED <<up, total_paid_out, issuer, budget_credits, funded, revoked, expired,
                       refunds_settled>>

PayoutFits(amount) == amount <= provider_wallet

\* The operator records that a vendor was paid outside the system.
record_provider_payout(amount) ==
    /\ up
    /\ PayoutFits(amount)
    /\ provider_wallet' = provider_wallet - amount
    /\ total_paid_out' = total_paid_out + amount
    /\ UNCHANGED <<up, balances, rows, keys, expired, request>>

KeyCalls ==
    \/ \E d \in Devices, k \in Keys, n \in Budgets :
          mint_share_key(d, k, n) \/ transfer_to_share_key(d, k, n)
    \/ \E k \in Keys : revoke_share_key(k) \/ Expire(k)

AdminCalls ==
    \/ refund_expired_share_keys
    \/ migrate_unfunded_share_keys
    \/ \E n \in Costs : record_provider_payout(n)

Serve(r) ==
    \/ \E d \in Devices : require_bearer(r, d)
    \/ \E k \in Keys : resolve_share_key(r, k)
    \/ prepare_chat_request(r)
    \/ try_centralized(r)
    \/ \E d \in Devices, online \in SUBSET Devices, cost \in Costs :
          settle_request(r, d, online, cost)
    \/ \E cost \in Costs : settle_provider_request(r, cost)
    \/ Fail(r)

Next ==
    \/ open \/ Crash
    \/ KeyCalls
    \/ AdminCalls
    \/ \E r \in Requests : Serve(r)

Spec == Init /\ [][Next]_vars

-----------------------------------------------------------------------------
(* Properties.                                                             *)

Pools == SumFunction([k \in Keys |-> sum_share_key_contributions(k)])
Total(wallets) == SumFunction(wallets)

\* A key's pool holds exactly what its budget still allows, until the key is
\* closed and the pool is empty: a bearer that resolve_share_key lets in finds
\* the credits, and what revoke and refund_expired_share_keys return is what
\* was not spent, however requests that were accepted earlier settle around
\* them and whatever an older version or a migration left.
PoolBacksBudget ==
    up => \A k \in Keys : (issuer[k] # None /\ funded[k]) =>
            sum_share_key_contributions(k) =
               IF revoked[k] \/ refunds_settled[k] THEN 0
               ELSE budget_credits[k] - consumed_credits[k]

\* Credits in wallets, pools, vendor wallets and paid out stay what they were:
\* no settlement, refund or migration makes or loses one, division included.
CreditsConserved ==
    up => Total(balances) + Pools + provider_wallet + total_paid_out
          = Total(Earnings)
            + SumFunction([k \in DOMAIN LegacyKeys |->
                IF LegacyKeys[k].funded /\ ~LegacyKeys[k].revoked
                THEN LegacyKeys[k].budget - LegacyKeys[k].consumed ELSE 0])

\* The ledger rows of a device give its balance once the SPENT rows of its
\* funded keys are added back: settle_request writes one for the issuer
\* although the pool pays.
RowsExplainBalance ==
    \A d \in Devices :
       (\A k \in DOMAIN LegacyKeys : LegacyKeys[k].issuer # d) =>
          balances[d] = rows[d] + SumFunction([k \in Keys |->
             IF issuer[k] = d THEN consumed_credits[k] ELSE 0])

\* Each funder bears its share of every spend, to within one credit: what a
\* contribution loses is its part of the pool, however often rounding was in
\* its favour before, so refunds go back in proportion.
SpendIsProRata ==
    [][\A k \in Keys :
         LET total == sum_share_key_contributions(k)
             spend == consumed_credits'[k] - consumed_credits[k]
         IN  (funded[k] /\ spend > 0) =>
               \A i \in DOMAIN contributions[k] :
                  LET paid == contributions[k][i].remaining - contributions'[k][i].remaining
                      exact == spend * contributions[k][i].remaining
                  IN  paid * total - exact < total /\ exact - paid * total < total]_vars

=============================================================================
