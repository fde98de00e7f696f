-------------------------- MODULE ApiKeySpendProofs --------------------------
(***************************************************************************)
(* For any accounts, keys, limits, costs and number of requests in flight: *)
(* no settlement overdraws an account, what an account paid is what its    *)
(* keys' usage adds up to, and the fleet's settlement keeps a key within   *)
(* its limit.                                                              *)
(*                                                                         *)
(* The sum of the usage is over the keys an account owns now, so it is     *)
(* inductive only with the fact that a key no account owns yet has no      *)
(* usage (Unused): create_api_key adds the key to its owner's sum.         *)
(***************************************************************************)
EXTENDS ApiKeySpend, SumLemmas, FiniteSetTheorems, TLAPS

\* A request past the middleware carries a key that an account owns.
KeyOwned ==
    \A r \in Requests :
       phase[r] \in {"authenticated", "fleet", "provider"}
          => key[r] \in ApiKeys /\ owner[key[r]] \in Accounts

IInv == TypeOK /\ KeyOwned

-----------------------------------------------------------------------------

\* The 70/25/5 split of settle_request_account pays every wallet a whole,
\* nonnegative number of credits, and the 95/5 split with a vendor leaves
\* operations no debt.
LEMMA SplitNat ==
    ASSUME NEW eff \in Nat, NEW peers \in Nat
    PROVE  /\ direct_earn(eff) \in Nat
           /\ per_peer(eff, peers) \in Nat
           /\ ops_total(eff, peers) \in Nat
           /\ provider_earn(eff) \in 0..eff
<1>1. direct_earn(eff) \in Nat /\ provider_earn(eff) \in 0..eff
  BY DEF direct_earn, provider_earn
<1>2. pool_share(eff) \in Nat /\ ops_fee(eff) \in Nat
  BY DEF direct_earn, pool_share, ops_fee
<1>3. per_peer(eff, peers) \in Nat /\ per_peer(eff, peers) * peers <= pool_share(eff)
  <2> DEFINE p == pool_share(eff)
  <2>1. p \in Nat
    BY <1>2, Zenon
  <2>2. CASE peers = 0
    BY <2>1, <2>2 DEF per_peer
  <2>3. CASE peers # 0
    <3>1. per_peer(eff, peers) = p \div peers
      BY <2>3, Zenon DEF per_peer
    <3> HIDE DEF p
    <3>2. (p \div peers) \in Nat /\ (p \div peers) * peers <= p
      BY <2>1, <2>3
    <3> QED BY <3>1, <3>2, Zenon DEF p
  <2> QED BY <2>2, <2>3, Zenon
<1>4. ops_total(eff, peers) \in Nat
  <2>1. ops_total(eff, peers) = ops_fee(eff) + (pool_share(eff) - per_peer(eff, peers) * peers)
    BY <1>2, <1>3, Zenon DEF ops_total
  <2>2. per_peer(eff, peers) * peers \in Nat
    BY <1>3
  <2> QED BY <2>1, <2>2, <1>2, <1>3
<1> QED BY <1>1, <1>3, <1>4, Zenon

\* Whatever set of devices is online, every wallet earns a whole number.
LEMMA EarnedNat ==
    ASSUME NEW eff \in Nat, NEW online \in SUBSET Devices, NEW d, NEW w
    PROVE  Earned(w, eff, d, online \ {d}, Ops) \in Nat
<1>1. IsFiniteSet(online \ {d})
  BY WalletAssumption, FS_Subset, Zenon
<1> DEFINE peers == Cardinality(online \ {d})
<1>2. peers \in Nat
  BY <1>1, FS_CardinalityType, Zenon
<1> HIDE DEF peers
<1>3. /\ direct_earn(eff) \in Nat
      /\ per_peer(eff, peers) \in Nat
      /\ ops_total(eff, peers) \in Nat
  BY <1>2, SplitNat, Zenon
<1>4. Earned(w, eff, d, online \ {d}, Ops)
        = (IF w = d THEN direct_earn(eff) ELSE 0)
          + (IF w \in online \ {d} THEN per_peer(eff, peers) ELSE 0)
          + (IF w = Ops THEN ops_total(eff, peers) ELSE 0)
  BY Zenon DEF Earned, peers
<1> QED BY <1>3, <1>4

\* settle_request_account never takes more than the balance, nor, when the
\* key has a limit and takes anything, past the limit.
LEMMA EffectiveCost ==
    ASSUME TypeOK, NEW k \in ApiKeys, owner[k] \in Accounts, NEW cost \in Costs
    PROVE  /\ effective_cost(k, cost) \in 0..balance_credits[owner[k]]
           /\ Payable(cost, balance_credits[owner[k]]) \in 0..balance_credits[owner[k]]
           /\ \/ credit_limit[k] = None
              \/ effective_cost(k, cost) = 0
              \/ usage_credits[k] + effective_cost(k, cost) <= credit_limit[k]
<1>1. cost \in Nat /\ balance_credits[owner[k]] \in Nat /\ usage_credits[k] \in Nat
      /\ credit_limit[k] \in Nat \cup {None}
  BY AmountAssumption, Zenon DEF TypeOK
<1> DEFINE b == balance_credits[owner[k]]
<1>2. Payable(cost, b) \in 0..b
  BY <1>1 DEF Payable, AtMost, AtLeast
<1>3. CASE credit_limit[k] = None
  BY <1>2, <1>3, Zenon DEF effective_cost, WithinLimit
<1>4. CASE credit_limit[k] # None
  BY <1>1, <1>2, <1>4 DEF effective_cost, WithinLimit, AtMost, AtLeast
<1> QED BY <1>2, <1>3, <1>4, Zenon

\* The initial state satisfies the inductive invariant.
LEMMA InitIInv == Init => IInv
BY AmountAssumption, NoKeyAssumption
   DEF Init, IInv, TypeOK, KeyOwned, Phases

\* Creating, changing and deleting keys keeps the invariant: an owner is set
\* once.
LEMMA ManageStep ==
    ASSUME IInv, NEW k \in ApiKeys, Manage(k)
    PROVE  IInv'
<1> USE DEF IInv, TypeOK, KeyOwned
<1>1. ASSUME NEW a \in Accounts, NEW limit \in Limits \cup {None}, create_api_key(a, k, limit)
      PROVE  IInv'
  <2>1. TypeOK'
    BY <1>1, AmountAssumption, Zenon DEF create_api_key
  <2>2. KeyOwned'
    BY <1>1, Zenon DEF create_api_key
  <2> QED BY <2>1, <2>2, Zenon
<1>2. ASSUME NEW limit \in Limits \cup {None}, NEW off \in BOOLEAN, update_api_key(k, limit, off)
      PROVE  IInv'
  BY <1>2, AmountAssumption, Zenon DEF update_api_key
<1>3. CASE delete_api_key(k)
  BY <1>3, Zenon DEF delete_api_key
<1> QED BY <1>1, <1>2, <1>3, Zenon DEF Manage

\* Charging at most the balance keeps both columns typed.
LEMMA ChargeType ==
    ASSUME IInv, NEW k \in ApiKeys, owner[k] \in Accounts,
           NEW eff \in 0..balance_credits[owner[k]], Charge(k, eff)
    PROVE  balance_credits' \in [Accounts -> Nat] /\ usage_credits' \in [ApiKeys -> Nat]
<1>1. eff \in Nat /\ balance_credits[owner[k]] - eff \in Nat
  BY DEF IInv, TypeOK
<1> QED BY <1>1 DEF IInv, TypeOK, Charge

\* Every step of a request keeps the invariant.
LEMMA ServeStep ==
    ASSUME IInv, NEW r \in Requests, Serve(r)
    PROVE  IInv'
<1>1. ASSUME NEW k \in ApiKeys, resolve_api_key(r, k)
      PROVE  IInv'
  BY <1>1, Zenon DEF IInv, TypeOK, KeyOwned, resolve_api_key, Move, Phases, api_keys
<1>2. CASE prepare_chat_request(r)
  BY <1>2, Zenon DEF IInv, TypeOK, KeyOwned, prepare_chat_request, Move, Phases, api_keys
<1>3. CASE try_centralized(r)
  BY <1>3, Zenon DEF IInv, TypeOK, KeyOwned, try_centralized, Move, Phases, api_keys
<1>4. CASE Fail(r)
  BY <1>4, Zenon DEF IInv, TypeOK, KeyOwned, Fail, Move, Phases, api_keys
<1>5. ASSUME NEW d \in Devices, NEW online \in SUBSET Devices, NEW cost \in Costs,
             settle_request_account(r, d, online, cost)
      PROVE  IInv'
  <2> DEFINE eff == effective_cost(key[r], cost)
  <2>1. key[r] \in ApiKeys /\ owner[key[r]] \in Accounts
    BY <1>5, Zenon DEF IInv, KeyOwned, settle_request_account
  <2>2. eff \in 0..balance_credits[owner[key[r]]] /\ eff \in Nat
    BY <2>1, EffectiveCost DEF IInv, TypeOK
  <2>3. balance_credits' \in [Accounts -> Nat] /\ usage_credits' \in [ApiKeys -> Nat]
    BY <1>5, <2>1, <2>2, ChargeType, Zenon DEF settle_request_account
  <2>4. wallets' \in [Wallets -> Nat]
    <3>1. wallets' = [w \in Wallets |-> wallets[w] + Earned(w, eff, d, online \ {d}, Ops)]
      BY <1>5, Zenon DEF settle_request_account
    <3> HIDE DEF eff
    <3>2. \A w \in Wallets : Earned(w, eff, d, online \ {d}, Ops) \in Nat
      BY <2>2, EarnedNat, Zenon
    <3>3. ASSUME NEW w \in Wallets
          PROVE  wallets[w] + Earned(w, eff, d, online \ {d}, Ops) \in Nat
      <4> DEFINE e == Earned(w, eff, d, online \ {d}, Ops)
      <4>1. e \in Nat
        BY <3>2, Zenon
      <4>2. wallets[w] \in Nat
        BY Zenon DEF IInv, TypeOK
      <4> HIDE DEF e
      <4>3. wallets[w] + e \in Nat
        BY <4>1, <4>2
      <4> QED BY <4>3, Zenon DEF e
    <3> QED BY <3>1, <3>3, Zenon
  <2>5. phase' \in [Requests -> Phases] /\ UNCHANGED <<provider_wallet, api_keys, key>>
    BY <1>5, Zenon DEF settle_request_account, Move, IInv, TypeOK, Phases
  <2>6. KeyOwned'
    BY <1>5, Zenon DEF settle_request_account, Move, IInv, TypeOK, KeyOwned, api_keys
  <2> QED BY <2>3, <2>4, <2>5, <2>6, Zenon DEF IInv, TypeOK, api_keys
<1>6. ASSUME NEW cost \in Costs, settle_provider_request(r, cost)
      PROVE  IInv'
  <2> DEFINE eff == Payable(cost, balance_credits[owner[key[r]]])
  <2>1. key[r] \in ApiKeys /\ owner[key[r]] \in Accounts
    BY <1>6, Zenon DEF IInv, KeyOwned, settle_provider_request
  <2>2. eff \in 0..balance_credits[owner[key[r]]] /\ eff \in Nat
    BY <2>1, EffectiveCost DEF IInv, TypeOK
  <2>3. balance_credits' \in [Accounts -> Nat] /\ usage_credits' \in [ApiKeys -> Nat]
    BY <1>6, <2>1, <2>2, ChargeType, Zenon DEF settle_provider_request
  <2>4. provider_earn(eff) \in Nat /\ eff - provider_earn(eff) \in Nat
    <3> HIDE DEF eff
    <3>1. provider_earn(eff) \in 0..eff
      BY <2>2, SplitNat, Zenon
    <3> QED BY <2>2, <3>1
  <2>5. wallets' \in [Wallets -> Nat] /\ provider_wallet' \in Nat
    <3> HIDE DEF eff
    <3>1. /\ wallets' = [wallets EXCEPT ![Ops] = @ + (eff - provider_earn(eff))]
          /\ provider_wallet' = provider_wallet + provider_earn(eff)
      BY <1>6, Zenon DEF settle_provider_request, eff
    <3> QED BY <3>1, <2>4 DEF IInv, TypeOK, Wallets
  <2>6. phase' \in [Requests -> Phases] /\ UNCHANGED <<api_keys, key>>
    BY <1>6, Zenon DEF settle_provider_request, Move, IInv, TypeOK, Phases
  <2>7. KeyOwned'
    BY <1>6, Zenon DEF settle_provider_request, Move, IInv, TypeOK, KeyOwned, api_keys
  <2> QED BY <2>3, <2>5, <2>6, <2>7, Zenon DEF IInv, TypeOK, api_keys
<1> QED BY <1>1, <1>2, <1>3, <1>4, <1>5, <1>6, Zenon DEF Serve

\* The inductive invariant is kept by every step.
LEMMA NextIInv == IInv /\ [Next]_vars => IInv'
<1> SUFFICES ASSUME IInv, [Next]_vars PROVE IInv'
  OBVIOUS
<1>1. CASE Next
  BY <1>1, ManageStep, ServeStep, Zenon DEF Next
<1>2. CASE UNCHANGED vars
  BY <1>2, Zenon DEF vars, api_keys, IInv, TypeOK, KeyOwned
<1> QED BY <1>1, <1>2, Zenon

\* The columns keep their types through every interleaving; in particular no
\* settlement, of the fleet or of a vendor, takes an account below zero.
THEOREM TypeCorrect == Spec => []TypeOK
<1>1. Init => IInv
  BY InitIInv, Zenon
<1>2. IInv /\ [Next]_vars => IInv'
  BY NextIInv, Zenon
<1>3. IInv => TypeOK
  BY Zenon DEF IInv
<1> QED BY <1>1, <1>2, <1>3, PTL DEF Spec

\* What a step adds to a key's usage, when a request on the fleet ends in it,
\* fits the key's limit.
LEMMA StepWithinLimit ==
    ASSUME IInv, [Next]_vars, NEW k \in ApiKeys, usage_credits'[k] > usage_credits[k],
           NEW r \in Requests, phase[r] = "fleet", phase'[r] = "done"
    PROVE  credit_limit[k] = None \/ usage_credits'[k] <= credit_limit[k]
<1>1. CASE UNCHANGED vars
  BY <1>1, Zenon DEF vars
<1>2. CASE \E j \in ApiKeys : Manage(j)
  BY <1>2, Zenon DEF Manage, create_api_key, update_api_key, delete_api_key
<1>3. ASSUME NEW q \in Requests, Serve(q)
      PROVE  credit_limit[k] = None \/ usage_credits'[k] <= credit_limit[k]
  <2>1. q = r
    BY <1>3, Zenon DEF Serve, resolve_api_key, prepare_chat_request, try_centralized, Fail,
         settle_request_account, settle_provider_request, Move, IInv, TypeOK
  <2>2. PICK d \in Devices, online \in SUBSET Devices, cost \in Costs :
           settle_request_account(r, d, online, cost)
    BY <1>3, <2>1 DEF Serve, resolve_api_key, prepare_chat_request, try_centralized, Fail,
         settle_provider_request, Move, IInv, TypeOK
  <2>3. key[r] \in ApiKeys /\ owner[key[r]] \in Accounts
    BY Zenon DEF IInv, KeyOwned
  <2> DEFINE eff == effective_cost(key[r], cost)
  <2>4. usage_credits' = [usage_credits EXCEPT ![key[r]] = @ + eff]
    BY <2>2, Zenon DEF settle_request_account, Charge
  <2>5. \/ credit_limit[key[r]] = None
        \/ eff = 0
        \/ usage_credits[key[r]] + eff <= credit_limit[key[r]]
    BY <2>3, EffectiveCost, Zenon DEF IInv
  <2> HIDE DEF eff
  <2>6. k = key[r] /\ eff # 0 /\ usage_credits'[k] = usage_credits[k] + eff
    BY <2>3, <2>4 DEF IInv, TypeOK
  <2> QED BY <2>5, <2>6, Zenon
<1> QED BY <1>1, <1>2, <1>3, Zenon DEF Next

\* However many requests of a key were checked against its limit before any
\* of them settled, settle_request_account never takes the key past the limit.
THEOREM FleetSpendWithinLimit == Spec => FleetWithinLimit
<1> DEFINE Step ==
      \A k \in ApiKeys :
         (usage_credits'[k] > usage_credits[k]
            /\ \E r \in Requests : phase[r] = "fleet" /\ phase'[r] = "done")
            => (credit_limit[k] = None \/ usage_credits'[k] <= credit_limit[k])
<1>1. Init => IInv
  BY InitIInv
<1>2. IInv /\ [Next]_vars => IInv'
  BY NextIInv
<1>3. IInv /\ [Next]_vars => [Step]_vars
  BY StepWithinLimit, Zenon
<1> QED BY <1>1, <1>2, <1>3, PTL DEF Spec, FleetWithinLimit

-----------------------------------------------------------------------------
(* What the accounts paid.                                                 *)

\* The usage of each key, as far as account a owns it.
UsageOf(a) == [k \in ApiKeys |-> IF owner[k] = a THEN usage_credits[k] ELSE 0]

PaysFor(a) == balance_credits[a] = Deposits[a] - SumFunctionOnSet(UsageOf(a), ApiKeys)

\* A key that no account owns yet was not used.
Unused == \A k \in ApiKeys : owner[k] = None => usage_credits[k] = 0

Paid == Unused /\ \A a \in Accounts : PaysFor(a)

\* Every summand is a number.
LEMMA UsageOfInt ==
    ASSUME TypeOK, NEW a
    PROVE  \A k \in ApiKeys : UsageOf(a)[k] \in Int
BY DEF TypeOK, UsageOf

\* A step that leaves the balances, the usage and the owners as they are.
LEMMA PaidKept ==
    ASSUME Paid, UNCHANGED <<balance_credits, usage_credits, owner>>
    PROVE  Paid'
<1>1. ASSUME NEW a PROVE UsageOf(a)' = UsageOf(a)
  BY Zenon DEF UsageOf
<1>2. ASSUME NEW a \in Accounts PROVE PaysFor(a)'
  BY <1>1, Zenon DEF Paid, PaysFor
<1> QED BY <1>2, Zenon DEF Paid, Unused

\* create_api_key gives an account a key that nothing was spent with.
LEMMA PaidCreate ==
    ASSUME IInv, Paid, NEW a \in Accounts, NEW k \in ApiKeys, NEW limit, create_api_key(a, k, limit)
    PROVE  Paid'
<1>1. /\ owner[k] = None /\ owner' = [owner EXCEPT ![k] = a]
      /\ UNCHANGED <<balance_credits, usage_credits>>
  BY Zenon DEF create_api_key
<1>2. usage_credits[k] = 0 /\ owner \in [ApiKeys -> Accounts \cup {None}]
  BY <1>1, Zenon DEF Paid, Unused, IInv, TypeOK
<1>3. ASSUME NEW b \in Accounts PROVE UsageOf(b)' = UsageOf(b)
  <2>1. ASSUME NEW j \in ApiKeys
        PROVE  (IF owner'[j] = b THEN usage_credits'[j] ELSE 0)
                  = (IF owner[j] = b THEN usage_credits[j] ELSE 0)
    BY <1>1, <1>2, NoKeyAssumption
  <2> QED BY <2>1, Zenon DEF UsageOf
<1>4. ASSUME NEW b \in Accounts PROVE PaysFor(b)'
  BY <1>1, <1>3, Zenon DEF Paid, PaysFor
<1>5. Unused'
  BY <1>1, <1>2, Zenon DEF Paid, Unused
<1> QED BY <1>4, <1>5, Zenon DEF Paid

\* A settlement takes from the account what it adds to the key's usage.
LEMMA PaidCharge ==
    ASSUME IInv, Paid, NEW k \in ApiKeys, owner[k] \in Accounts, NEW eff \in Int,
           Charge(k, eff), UNCHANGED owner
    PROVE  Paid'
<1> DEFINE o == owner[k]
<1>1. /\ \A a \in Accounts : balance_credits'[a] = balance_credits[a] - (IF a = o THEN eff ELSE 0)
      /\ \A j \in ApiKeys \ {k} : usage_credits'[j] = usage_credits[j]
      /\ usage_credits'[k] = usage_credits[k] + eff
  BY DEF Charge, IInv, TypeOK
<1>2. /\ \A a \in Accounts : Deposits[a] \in Int /\ balance_credits[a] \in Int
      /\ usage_credits[k] \in Int
  BY AmountAssumption DEF IInv, TypeOK
<1>3. ASSUME NEW a \in Accounts PROVE PaysFor(a)'
  <2> DEFINE f == UsageOf(a)
             g == UsageOf(a)'
  <2>1. \A j \in ApiKeys : f[j] \in Int
    BY UsageOfInt, Zenon DEF IInv
  <2>2. \A j \in ApiKeys \ {k} : g[j] = f[j]
    BY <1>1, Zenon DEF UsageOf
  <2>3. g[k] = f[k] + (IF a = o THEN eff ELSE 0)
    BY <1>1 DEF UsageOf
  <2>4. balance_credits[a] = Deposits[a] - SumFunctionOnSet(f, ApiKeys)
    BY Zenon DEF Paid, PaysFor
  <2> HIDE DEF f, g, o
  <2>5. g[k] \in Int /\ f[k] \in Int
    BY <2>1, <2>3
  <2>6. SumFunctionOnSet(g, ApiKeys) = SumFunctionOnSet(f, ApiKeys) - f[k] + g[k]
    BY <2>1, <2>2, <2>5, SumUpdate, KeyAssumption
  <2>7. SumFunctionOnSet(f, ApiKeys) \in Int
    BY <2>1, SumType, KeyAssumption, Zenon
  <2>8. balance_credits'[a] = Deposits[a] - SumFunctionOnSet(g, ApiKeys)
    BY <1>1, <1>2, <2>3, <2>4, <2>5, <2>6, <2>7
  <2> QED BY <2>8, Zenon DEF PaysFor, g
<1>4. Unused'
  <2>1. o # None
    BY NoKeyAssumption, Zenon
  <2> QED BY <1>1, <2>1, Zenon DEF Paid, Unused
<1> QED BY <1>3, <1>4, Zenon DEF Paid

\* Before the first request nothing was paid.
LEMMA InitPaid == Init => Paid
<1> SUFFICES ASSUME Init PROVE Paid
  OBVIOUS
<1>1. ASSUME NEW a \in Accounts PROVE PaysFor(a)
  <2>1. \A k \in ApiKeys : UsageOf(a)[k] = 0
    BY DEF Init, UsageOf
  <2>2. SumFunctionOnSet(UsageOf(a), ApiKeys) = 0
    BY <2>1, SumZero, KeyAssumption, Zenon
  <2>3. Deposits[a] \in Nat /\ balance_credits[a] = Deposits[a]
    BY AmountAssumption, Zenon DEF Init
  <2> HIDE DEF UsageOf
  <2> QED BY <2>2, <2>3 DEF PaysFor
<1> QED BY <1>1, Zenon DEF Paid, Unused, Init

\* Every step keeps the accounts' sums.
LEMMA NextPaid == IInv /\ Paid /\ [Next]_vars => Paid'
<1> SUFFICES ASSUME IInv, Paid, [Next]_vars PROVE Paid'
  OBVIOUS
<1>1. CASE UNCHANGED vars
  BY <1>1, PaidKept, Zenon DEF vars, api_keys
<1>2. ASSUME NEW k \in ApiKeys, Manage(k) PROVE Paid'
  BY <1>2, PaidKept, PaidCreate, Zenon DEF Manage, update_api_key, delete_api_key
<1>3. ASSUME NEW r \in Requests, Serve(r) PROVE Paid'
  <2>1. CASE \/ \E k \in ApiKeys : resolve_api_key(r, k)
             \/ prepare_chat_request(r) \/ try_centralized(r) \/ Fail(r)
    BY <2>1, PaidKept, Zenon
       DEF resolve_api_key, prepare_chat_request, try_centralized, Fail, api_keys
  <2>2. ASSUME phase[r] \in {"fleet", "provider"}
        PROVE  key[r] \in ApiKeys /\ owner[key[r]] \in Accounts
    BY <2>2, Zenon DEF IInv, KeyOwned
  <2>3. ASSUME NEW d \in Devices, NEW online \in SUBSET Devices, NEW cost \in Costs,
               settle_request_account(r, d, online, cost)
        PROVE  Paid'
    <3> DEFINE eff == effective_cost(key[r], cost)
    <3>1. /\ key[r] \in ApiKeys /\ owner[key[r]] \in Accounts
          /\ Charge(key[r], eff) /\ UNCHANGED owner
      BY <2>2, <2>3, Zenon DEF settle_request_account, api_keys
    <3>2. eff \in Int
      BY <3>1, EffectiveCost DEF IInv
    <3> HIDE DEF eff
    <3> QED BY <3>1, <3>2, PaidCharge, Zenon
  <2>4. ASSUME NEW cost \in Costs, settle_provider_request(r, cost)
        PROVE  Paid'
    <3> DEFINE eff == Payable(cost, balance_credits[owner[key[r]]])
    <3>1. /\ key[r] \in ApiKeys /\ owner[key[r]] \in Accounts
          /\ Charge(key[r], eff) /\ UNCHANGED owner
      BY <2>2, <2>4, Zenon DEF settle_provider_request, api_keys
    <3>2. eff \in Int
      BY <3>1, EffectiveCost DEF IInv
    <3> HIDE DEF eff
    <3> QED BY <3>1, <3>2, PaidCharge, Zenon
  <2> QED BY <1>3, <2>1, <2>3, <2>4, Zenon DEF Serve
<1> QED BY <1>1, <1>2, <1>3, Zenon DEF Next

\* Paid is AccountPaysUsage and the fact it rests on.
LEMMA PaidEnough == Paid => AccountPaysUsage
<1> SUFFICES ASSUME Paid, NEW a \in Accounts
             PROVE  balance_credits[a] = Deposits[a] - SumFunction(UsageOf(a))
  BY Zenon DEF AccountPaysUsage, UsageOf
<1>1. DOMAIN UsageOf(a) = ApiKeys
  BY Zenon DEF UsageOf
<1>2. SumFunction(UsageOf(a)) = SumFunctionOnSet(UsageOf(a), ApiKeys)
  BY <1>1, Zenon DEF SumFunction
<1> QED BY <1>2, Zenon DEF Paid, PaysFor

\* For every account, whichever of its keys were made, changed, deleted and
\* charged, by the fleet's settlement and the vendors', in whatever order:
\* what left its wallet is what its keys' usage_credits add up to.
THEOREM UsageIsPaid == Spec => []AccountPaysUsage
<1>1. Init => IInv /\ Paid
  BY InitIInv, InitPaid, Zenon
<1>2. IInv /\ Paid /\ [Next]_vars => IInv' /\ Paid'
  BY NextIInv, NextPaid, Zenon
<1>3. Paid => AccountPaysUsage
  BY PaidEnough, Zenon
<1> QED BY <1>1, <1>2, <1>3, PTL DEF Spec
=============================================================================
