----------------------------- MODULE ApiKeySpend -----------------------------
(***************************************************************************)
(* Requests paid by an account through an API key with a credit limit: the *)
(* keys' life, the snapshot that the middleware takes, the pre-flight      *)
(* check, and the two settlements (gateway/src/api_keys.rs, auth.rs,       *)
(* handlers/chat.rs, handlers/centralized.rs, ledger.rs).                  *)
(***************************************************************************)
EXTENDS SettlementSplit

CONSTANTS
    Accounts,          \* account_user_id values
    Devices,           \* device ids
    Ops,               \* the sentinel device "__ops__"
    ApiKeys,           \* key ids
    Requests,          \* inference requests
    Deposits,          \* [Accounts -> Nat], credits of the account wallets
    Limits,            \* credit limits that owners set
    Costs,             \* what a served request may cost
    MinRequired,       \* the cost of a prompt and one token, for compute_clamp
    None

Wallets == Devices \cup {Ops}

ASSUME WalletAssumption == Ops \notin Devices /\ IsFiniteSet(Devices)
ASSUME KeyAssumption == IsFiniteSet(ApiKeys)
ASSUME AmountAssumption ==
    /\ Deposits \in [Accounts -> Nat]
    /\ Limits \subseteq Nat
    /\ Costs \subseteq Nat \ {0}
    /\ MinRequired \in Nat \ {0}
ASSUME NoKeyAssumption == None \notin Nat /\ None \notin Accounts /\ None \notin ApiKeys

VARIABLES
    balance_credits,   \* [Accounts -> balance]
    wallets,           \* [Wallets -> what devices and operations earned]
    provider_wallet,   \* what vendors earned
    owner,             \* [ApiKeys -> the key's account, None before it exists]
    credit_limit,      \* [ApiKeys -> Nat, or None for no limit]
    usage_credits,     \* [ApiKeys -> Nat]
    disabled,          \* [ApiKeys -> BOOLEAN]
    phase,             \* [Requests -> where the request stands]
    key                \* [Requests -> the key that authenticated it, or None]

api_keys == <<owner, credit_limit, disabled>>
vars == <<balance_credits, wallets, provider_wallet, usage_credits, api_keys, phase, key>>

Phases == {"new", "authenticated", "fleet", "provider", "done"}

\* Every column has its type; no settlement, of the fleet or of a vendor, takes
\* an account's balance below zero.
TypeOK ==
    /\ balance_credits \in [Accounts -> Nat]
    /\ wallets \in [Wallets -> Nat]
    /\ provider_wallet \in Nat
    /\ owner \in [ApiKeys -> Accounts \cup {None}]
    /\ credit_limit \in [ApiKeys -> Nat \cup {None}]
    /\ usage_credits \in [ApiKeys -> Nat]
    /\ disabled \in [ApiKeys -> BOOLEAN]
    /\ phase \in [Requests -> Phases]
    /\ key \in [Requests -> ApiKeys \cup {None}]

Init ==
    /\ balance_credits = Deposits
    /\ wallets = [w \in Wallets |-> 0]
    /\ provider_wallet = 0
    /\ owner = [k \in ApiKeys |-> None]
    /\ credit_limit = [k \in ApiKeys |-> None]
    /\ usage_credits = [k \in ApiKeys |-> 0]
    /\ disabled = [k \in ApiKeys |-> FALSE]
    /\ phase = [r \in Requests |-> "new"]
    /\ key = [r \in Requests |-> None]

-----------------------------------------------------------------------------
(* Key management.                                                         *)

create_api_key(a, k, limit) ==
    /\ owner[k] = None
    /\ owner' = [owner EXCEPT ![k] = a]
    /\ credit_limit' = [credit_limit EXCEPT ![k] = limit]
    /\ UNCHANGED <<balance_credits, wallets, provider_wallet, usage_credits, disabled, phase, key>>

\* The limit, the switch, or both; a limit may be set below the usage.
update_api_key(k, limit, off) ==
    /\ owner[k] # None
    /\ credit_limit' = [credit_limit EXCEPT ![k] = limit]
    /\ disabled' = [disabled EXCEPT ![k] = off]
    /\ UNCHANGED <<balance_credits, wallets, provider_wallet, usage_credits, owner, phase, key>>

\* The row stays, for the account ledger's history.
delete_api_key(k) ==
    /\ owner[k] # None
    /\ disabled' = [disabled EXCEPT ![k] = TRUE]
    /\ UNCHANGED <<balance_credits, wallets, provider_wallet, usage_credits, owner,
                   credit_limit, phase, key>>

-----------------------------------------------------------------------------
(* A request.                                                              *)

Move(r, to) == phase' = [phase EXCEPT ![r] = to]

resolve_api_key(r, k) ==
    /\ phase[r] = "new"
    /\ owner[k] # None
    /\ ~disabled[k]
    /\ Move(r, "authenticated")
    /\ key' = [key EXCEPT ![r] = k]
    /\ UNCHANGED <<balance_credits, wallets, provider_wallet, usage_credits, api_keys>>

\* api_key_remaining_limit caps cost, if the key has a limit.
WithinLimit_AtLimit(k, cost) ==
    IF credit_limit[k] = None \/ usage_credits[k] < credit_limit[k] THEN cost ELSE 0
WithinLimit(k, cost) ==
    IF credit_limit[k] = None THEN cost
    ELSE AtMost(cost, AtLeast(credit_limit[k] - usage_credits[k], 0))

prepare_chat_request(r) ==
    /\ phase[r] = "authenticated"
    /\ balance_credits[owner[key[r]]] >= MinRequired
    /\ WithinLimit(key[r], MinRequired) >= MinRequired
    /\ Move(r, "fleet")
    /\ UNCHANGED <<balance_credits, wallets, provider_wallet, usage_credits, api_keys, key>>

\* Vendors are dispatched to without the pre-flight check.
try_centralized(r) ==
    /\ phase[r] = "authenticated"
    /\ Move(r, "provider")
    /\ UNCHANGED <<balance_credits, wallets, provider_wallet, usage_credits, api_keys, key>>

Fail(r) ==
    /\ phase[r] \in {"authenticated", "fleet", "provider"}
    /\ Move(r, "done")
    /\ UNCHANGED <<balance_credits, wallets, provider_wallet, usage_credits, api_keys, key>>

\* The account pays and the key's usage grows by the same amount.
Charge_NoUsage(k, eff) ==
    /\ balance_credits' = [balance_credits EXCEPT ![owner[k]] = @ - eff]
    /\ UNCHANGED usage_credits
Charge(k, eff) ==
    /\ balance_credits' = [balance_credits EXCEPT ![owner[k]] = @ - eff]
    /\ usage_credits' = [usage_credits EXCEPT ![k] = @ + eff]

\* The account's balance and the key's limit are read again under the lock.
effective_cost(k, cost) ==
    WithinLimit(k, Payable(cost, balance_credits[owner[k]]))

settle_request_account(r, provider, online, cost) ==
    LET eff == effective_cost(key[r], cost)
    IN  /\ phase[r] = "fleet"
        /\ Move(r, "done")
        /\ Charge(key[r], eff)
        /\ wallets' = [w \in Wallets |->
              wallets[w] + Earned(w, eff, provider, online \ {provider}, Ops)]
        /\ UNCHANGED <<provider_wallet, api_keys, key>>

\* The limit is not read.
settle_provider_request(r, cost) ==
    LET eff == Payable(cost, balance_credits[owner[key[r]]])
    IN  /\ phase[r] = "provider"
        /\ Move(r, "done")
        /\ Charge(key[r], eff)
        /\ wallets' = [wallets EXCEPT ![Ops] = @ + (eff - provider_earn(eff))]
        /\ provider_wallet' = provider_wallet + provider_earn(eff)
        /\ UNCHANGED <<api_keys, key>>

Manage(k) ==
    \/ \E a \in Accounts, limit \in Limits \cup {None} : create_api_key(a, k, limit)
    \/ \E limit \in Limits \cup {None}, off \in BOOLEAN : update_api_key(k, limit, off)
    \/ delete_api_key(k)

Serve(r) ==
    \/ \E k \in ApiKeys : resolve_api_key(r, k)
    \/ prepare_chat_request(r)
    \/ try_centralized(r)
    \/ Fail(r)
    \/ \E d \in Devices, online \in SUBSET Devices, cost \in Costs :
          settle_request_account(r, d, online, cost)
    \/ \E cost \in Costs : settle_provider_request(r, cost)

Next == (\E k \in ApiKeys : Manage(k)) \/ (\E r \in Requests : Serve(r))

Spec == Init /\ [][Next]_vars

-----------------------------------------------------------------------------
(* Properties.                                                             *)

\* What an account paid is what its keys' usage adds up to, across accounts
\* and keys, concurrent settlements and changes of the limits; with TypeOK no
\* account wallet is overdrawn.
AccountPaysUsage ==
    \A a \in Accounts :
       balance_credits[a] = Deposits[a]
          - SumFunction([k \in ApiKeys |-> IF owner[k] = a THEN usage_credits[k] ELSE 0])

\* "we re-check under lock to defeat concurrent-request edge cases"
\* (settle_request_account): requests that the same key had in flight
\* together, all within the limit when they were checked, do not take its
\* usage past the limit that holds when they settle.
FleetWithinLimit ==
    [][\A k \in ApiKeys :
         (usage_credits'[k] > usage_credits[k]
            /\ \E r \in Requests : phase[r] = "fleet" /\ phase'[r] = "done")
            => (credit_limit[k] = None \/ usage_credits'[k] <= credit_limit[k])]_vars

=============================================================================
