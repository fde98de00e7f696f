------------------------------- MODULE Minting -------------------------------
(* Credits the gateway creates: welcome and referral bonuses of devices and  *)
(* accounts, the availability drip with its sessions, admin top-ups and the  *)
(* genesis reset, with the transfers and sweeps that move the credits on.    *)
EXTENDS Integers, FiniteSets, FiniteSetsExt, Functions

CONSTANTS
    Devices, Accounts, Models,
    Linkers,                 \* the devices that link to an account
    Joiners,                 \* the devices that join, and may be referred
    Referrers,               \* the devices that ask for a referral code
    Senders,                 \* the devices that send or are swept
    Supplies,                \* the recipients and their models a tick can find
    Demands,                 \* the demands for the models a tick can find
    WELCOME_BONUS_CREDITS,
    REFERRAL_BONUS_CREDITS,
    INITIAL_MINT_POOL,
    MaxMints,                \* bound on admin top-ups and genesis resets
    None

Wallets == Devices \cup Accounts

VARIABLES
    remaining,  \* mint_pool.remaining
    balance,    \* balances and account_wallets.balance_credits
    rows,       \* the sum of the wallet's ledger or account_ledger rows
    wallet,     \* accounts that have a row in account_wallets
    bonused,    \* wallets that have a BONUS row
    codes,      \* wallets that have a referral code
    claims,     \* referral_claims: the wallets that were referred
    linked,     \* account_devices: [Devices -> Accounts or None]
    session,    \* availability_sessions: [Devices -> None or row]
    linking,    \* link_account in progress: [Devices -> None or step]
    welcomes,   \* ghost: welcome bonuses paid to each wallet since the reset
    referred,   \* ghost: referral bonuses paid to each wallet for joining
    mints

vars == <<remaining, balance, rows, wallet, bonused, codes, claims, linked,
          session, linking, welcomes, referred, mints>>

Session == [model : Models, accrued : Nat]
Linking == [at : {"checked", "linked"}, account : Accounts, new : BOOLEAN]

TypeOK ==
    /\ remaining \in 0..INITIAL_MINT_POOL
    /\ balance \in [Wallets -> Nat] /\ rows \in [Wallets -> Int]
    /\ wallet \subseteq Accounts
    /\ bonused \subseteq Wallets /\ codes \subseteq Wallets /\ claims \subseteq Wallets
    /\ linked \in [Devices -> Accounts \cup {None}]
    /\ session \in [Devices -> Session \cup {None}]
    /\ linking \in [Devices -> Linking \cup {None}]
    /\ welcomes \in [Wallets -> Nat] /\ referred \in [Wallets -> Nat]
    /\ mints \in 0..MaxMints

Nothing == [w \in Wallets |-> 0]

Init ==
    /\ remaining = INITIAL_MINT_POOL
    /\ balance = Nothing /\ rows = Nothing
    /\ wallet = {} /\ bonused = {} /\ codes = {} /\ claims = {}
    /\ linked = [d \in Devices |-> None]
    /\ session = [d \in Devices |-> None]
    /\ linking = [d \in Devices |-> None]
    /\ welcomes = Nothing /\ referred = Nothing /\ mints = 0

-----------------------------------------------------------------------------
(* Bonuses. *)

\* credit_device_wallet_tx and credit_account_wallet_tx, several at once: each
\* debits the pool, which stops at zero, and writes one row.
Take(n) == IF remaining > n THEN remaining - n ELSE 0

Credit(amount) ==
    /\ remaining' = Take(SumFunction(amount))
    /\ balance' = [w \in Wallets |-> balance[w] + amount[w]]
    /\ rows' = [w \in Wallets |-> rows[w] + amount[w]]

SelfReferral(w, requester, owner) ==
    \/ owner = w
    \/ owner = requester
    \/ w \in Devices /\ linked[w] = owner

CanClaim_Again(w, requester, owner) ==
    owner \in codes /\ ~SelfReferral(w, requester, owner)

CanClaim(w, requester, owner) ==
    /\ w \notin claims
    /\ owner \in codes
    /\ ~SelfReferral(w, requester, owner)

HasBonus(w) == w \in bonused

\* The welcome bonus unless there is one, and the referral bonuses of both
\* sides if a code is given; a code that is refused rolls all of it back.
JoinRewards(w, requester, owner) ==
    LET welcome == IF HasBonus(w) THEN 0 ELSE WELCOME_BONUS_CREDITS
        referral == IF owner = None THEN 0 ELSE REFERRAL_BONUS_CREDITS IN
    /\ owner # None => CanClaim(w, requester, owner)
    /\ Credit([x \in Wallets |-> (IF x = w THEN welcome + referral ELSE 0)
                                 + (IF x = owner THEN referral ELSE 0)])
    /\ bonused' = bonused \cup {w}
    /\ claims' = IF owner = None THEN claims ELSE claims \cup {w}
    /\ welcomes' = [welcomes EXCEPT ![w] = IF welcome > 0 THEN @ + 1 ELSE @]
    /\ referred' = [referred EXCEPT ![w] = IF referral > 0 THEN @ + 1 ELSE @]

apply_device_join_rewards(d, owner) ==
    /\ JoinRewards(d, d, owner)
    /\ UNCHANGED <<wallet, codes, linked, session, linking, mints>>

\* The code belongs to the account once the device is linked.
referral_code_for_device(d) ==
    /\ codes' = codes \cup {IF linked[d] = None THEN d ELSE linked[d]}
    /\ UNCHANGED <<remaining, balance, rows, wallet, bonused, claims, linked,
                   session, linking, welcomes, referred, mints>>

-----------------------------------------------------------------------------
(* link_account: three calls of the ledger, each under the lock on its own. *)

account_wallet_exists(d, a) ==
    /\ linking[d] = None
    /\ linking' = [linking EXCEPT ![d] =
         [at |-> "checked", account |-> a, new |-> a \notin wallet]]
    /\ UNCHANGED <<remaining, balance, rows, wallet, bonused, codes, claims, linked,
                   session, welcomes, referred, mints>>

link_device_to_account(d) ==
    /\ linking[d] # None /\ linking[d].at = "checked"
    /\ wallet' = wallet \cup {linking[d].account}
    /\ linked' = [linked EXCEPT ![d] = linking[d].account]
    /\ linking' = [linking EXCEPT ![d] =
         IF linking[d].new THEN [linking[d] EXCEPT !.at = "linked"] ELSE None]
    /\ UNCHANGED <<remaining, balance, rows, bonused, codes, claims,
                   session, welcomes, referred, mints>>

apply_account_join_rewards(d, owner) ==
    /\ linking[d] # None /\ linking[d].at = "linked"
    /\ linking[d].account \in wallet
    /\ JoinRewards(linking[d].account, d, owner)
    /\ linking' = [linking EXCEPT ![d] = None]
    /\ UNCHANGED <<wallet, codes, linked, session, mints>>

\* The account was reset meanwhile, or the code was refused: the device stays
\* linked and the account is no longer new.
RewardsRefused(d) ==
    /\ linking[d] # None /\ linking[d].at = "linked"
    /\ linking' = [linking EXCEPT ![d] = None]
    /\ UNCHANGED <<remaining, balance, rows, wallet, bonused, codes, claims, linked,
                   session, welcomes, referred, mints>>

-----------------------------------------------------------------------------
(* The availability drip. *)

\* Recipients' base credits shifted towards the models in demand: a model
\* without any keeps a twentieth of its weight.  Rounds to nearest, as the
\* code does, but over exact fractions.
apply_demand_weighting(base, model, demand) ==
    LET total == SumFunction(demand)
        weight == [d \in DOMAIN base |-> base[d] * (total + 19 * demand[model[d]])]
        all == SumFunction(weight)
        B == SumFunction(base) IN
    IF total = 0 \/ all = 0 THEN base
    ELSE [d \in DOMAIN base |-> (2 * B * weight[d] + all) \div (2 * all)]

\* A session of a device that left or changed its model becomes one row.
Ended(model) == {d \in Devices : session[d] # None
                    /\ ~(d \in DOMAIN model /\ model[d] = session[d].model)}

finalize_availability_session_NoRow(model) == UNCHANGED rows

finalize_availability_session(model) ==
    rows' = [w \in Wallets |-> rows[w] + (IF w \in Ended(model) THEN session[w].accrued ELSE 0)]

\* One tick: sessions end; then every recipient is paid, or nobody when the
\* pool cannot cover all of them.
reconcile_availability_sessions(model, credits) ==
    LET needed == SumFunction(credits)
        D == DOMAIN model
        open(d) == IF d \in Ended(model) THEN None ELSE session[d] IN
    /\ finalize_availability_session(model)
    /\ IF remaining < needed
       THEN /\ session' = [d \in Devices |-> open(d)]
            /\ UNCHANGED <<remaining, balance>>
       ELSE /\ remaining' = remaining - needed
            /\ balance' = [w \in Wallets |-> balance[w] + (IF w \in D THEN credits[w] ELSE 0)]
            /\ session' = [d \in Devices |->
                 IF d \notin D THEN open(d)
                 ELSE [model |-> model[d],
                       accrued |-> credits[d] + (IF open(d) = None THEN 0 ELSE open(d).accrued)]]

\* Base credits are those of one model each; demand is over all models.
Tick ==
    /\ \E model \in Supplies : \E demand \in Demands :
        reconcile_availability_sessions(model,
            apply_demand_weighting([d \in DOMAIN model |-> 1], model, demand))
    /\ UNCHANGED <<wallet, bonused, codes, claims, linked, linking, welcomes, referred, mints>>

-----------------------------------------------------------------------------
(* What moves credits on. *)

Move(from, to, n) ==
    /\ balance' = [balance EXCEPT ![from] = @ - n, ![to] = @ + n]
    /\ rows' = [rows EXCEPT ![from] = @ - n, ![to] = @ + n]
    /\ UNCHANGED <<remaining, wallet, bonused, codes, claims, linked, session,
                   linking, welcomes, referred, mints>>

\* The recipient was found by device id, account id, email, phone or name.
transfer_from_device_wallet(d, to, n) ==
    /\ balance[d] >= n
    /\ to # d
    /\ to \in Devices \cup wallet
    /\ Move(d, to, n)

\* By any device of the same account.
sweep_device_to_account(d) ==
    /\ linked[d] # None
    /\ balance[d] > 0
    /\ Move(d, linked[d], balance[d])

admin_mint(d) ==
    /\ mints < MaxMints
    /\ mints' = mints + 1
    /\ Credit([w \in Wallets |-> IF w = d THEN 1 ELSE 0])
    /\ UNCHANGED <<wallet, bonused, codes, claims, linked, session, linking, welcomes, referred>>

reset_genesis ==
    /\ mints < MaxMints
    /\ mints' = mints + 1
    /\ remaining' = INITIAL_MINT_POOL
    /\ balance' = Nothing /\ rows' = Nothing
    /\ wallet' = {} /\ bonused' = {} /\ codes' = {} /\ claims' = {}
    /\ linked' = [d \in Devices |-> None]
    /\ session' = [d \in Devices |-> None]
    /\ welcomes' = Nothing /\ referred' = Nothing
    /\ UNCHANGED linking

Next ==
    \/ Tick \/ reset_genesis
    \/ \E d \in Joiners :
        \/ \E o \in Wallets \cup {None} : apply_device_join_rewards(d, o)
        \/ admin_mint(d)
    \/ \E d \in Referrers : referral_code_for_device(d)
    \/ \E d \in Senders :
        \/ sweep_device_to_account(d)
        \/ \E to \in Wallets : transfer_from_device_wallet(d, to, 1)
    \/ \E d \in Linkers :
        \/ \E a \in Accounts : account_wallet_exists(d, a)
        \/ link_device_to_account(d) \/ RewardsRefused(d)
        \/ \E o \in Wallets \cup {None} : apply_account_join_rewards(d, o)

Spec == Init /\ [][Next]_vars

-----------------------------------------------------------------------------
Accrued(w) == IF w \in Devices /\ session[w] # None THEN session[w].accrued ELSE 0

\* A wallet's balance is the sum of its rows and of what its open availability
\* session has accrued: the drip pays at once and writes its row when the
\* session ends, through model changes, empty pools, sweeps and transfers.
RowsAndSessions ==
    \A w \in Wallets : balance[w] = rows[w] + Accrued(w)

\* However its joins, links and retries interleave, a wallet gets the welcome
\* bonus once and a referral bonus for joining once.
RewardedOnce ==
    \A w \in Wallets : welcomes[w] <= 1 /\ referred[w] <= 1
=============================================================================
