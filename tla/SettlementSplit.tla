--------------------------- MODULE SettlementSplit ---------------------------
(***************************************************************************)
(* How a settled request's effective cost is divided, and how a share key's *)
(* pool pays it: the arithmetic of settle_request, settle_provider_request *)
(* and apply_pro_rata_share_key_spend_tx (gateway/src/ledger.rs).          *)
(***************************************************************************)
EXTENDS Integers, Sequences, FiniteSets, FiniteSetsExt, Functions

AtMost(a, b) == IF a <= b THEN a ELSE b
AtLeast(a, b) == IF a >= b THEN a ELSE b

\* What a wallet that must not go negative pays of a cost.
Payable(cost, balance) == AtMost(cost, AtLeast(balance, 0))

-----------------------------------------------------------------------------
(* The 70/25/5 split over the fleet and the 95/5 split with a vendor.      *)

direct_earn(eff) == (eff * 70) \div 100
pool_share(eff) == (eff * 25) \div 100
ops_fee(eff) == eff - direct_earn(eff) - pool_share(eff)

per_peer(eff, peers) == IF peers = 0 THEN 0 ELSE pool_share(eff) \div peers

\* What the whole-credit division of the pool leaves folds back to operations.
ops_total_KeepsFeeOnly(eff, peers) == ops_fee(eff)
ops_total(eff, peers) == ops_fee(eff) + pool_share(eff) - per_peer(eff, peers) * peers

provider_earn(eff) == (eff * 95) \div 100

\* What settling eff credits pays the wallet w: the device that served, each
\* recipient of the availability pool, and the operations wallet.
Earned(w, eff, provider, recipients, ops) ==
    LET peers == Cardinality(recipients)
    IN  (IF w = provider THEN direct_earn(eff) ELSE 0)
        + (IF w \in recipients THEN per_peer(eff, peers) ELSE 0)
        + (IF w = ops THEN ops_total(eff, peers) ELSE 0)

-----------------------------------------------------------------------------
(* The pro-rata spend: rem lists what is left of each contribution, oldest *)
(* first.  Each pays its floored share; the credits that flooring leaves   *)
(* are taken one each by largest remainder, the oldest first.              *)

Base(rem, spend, i) == (spend * rem[i]) \div SumFunction(rem)
Remainder(rem, spend, i) == (spend * rem[i]) % SumFunction(rem)

\* The place of i in the order the leftover is taken.
Rank(rem, spend, i) ==
    Cardinality({j \in DOMAIN rem :
        \/ Remainder(rem, spend, j) > Remainder(rem, spend, i)
        \/ Remainder(rem, spend, j) = Remainder(rem, spend, i) /\ j < i})

Leftover(rem, spend) ==
    spend - SumFunction([i \in DOMAIN rem |-> Base(rem, spend, i)])

Reduction_OldestFirst(rem, spend, i) ==
    AtMost(rem[i], AtLeast(spend - SumFunctionOnSet(rem, 1..(i - 1)), 0))
Reduction(rem, spend, i) ==
    Base(rem, spend, i) + (IF Rank(rem, spend, i) < Leftover(rem, spend) THEN 1 ELSE 0)

\* What is left of each contribution after the spend, which is capped at the
\* pool.  The query skips emptied contributions: their share is zero and, as
\* fewer credits are left over than there are nonzero remainders, their turn
\* never comes.
ProRata(rem, spend) ==
    LET total == SumFunction(rem)
    IN  IF spend <= 0 \/ total <= 0 THEN rem
        ELSE [i \in DOMAIN rem |->
                AtLeast(rem[i] - Reduction(rem, AtMost(spend, total), i), 0)]
=============================================================================
