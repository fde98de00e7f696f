----------------------------- MODULE MCShareKeys -----------------------------
(* Small instances of ShareKeys: an issuer, a second funder, and a key left *)
(* by an older version.                                                     *)
EXTENDS ShareKeys

CONSTANTS d1, d2, k1, k2, k3, r3

MCEarnings == d1 :> 12 @@ d2 :> 5
MCBudgets == {5}
MCCosts == {3, 9}

OneCost == {9}

\* Keys of older versions: two that compete for their issuer's wallet when
\* they are migrated, and two from before contributions.
MCUnfunded(budget, consumed) ==
    [issuer |-> d1, budget |-> budget, consumed |-> consumed, funded |-> FALSE,
     revoked |-> FALSE]
MCFunded(revoke) ==
    [issuer |-> d1, budget |-> 9, consumed |-> 2, funded |-> TRUE, revoked |-> revoke]

NoLegacy == [k \in {} |-> None]
MCLegacy == k1 :> MCUnfunded(9, 0) @@ k2 :> MCUnfunded(9, 2) @@ k3 :> MCFunded(TRUE)

\* The database an older version left, with a request of its own.
Old == INSTANCE ShareKeys WITH
    Keys <- {k1, k2, k3}, Requests <- {r3}, LegacyKeys <- MCLegacy, Costs <- OneCost

\* A behaviour starts from an empty database or from the old one.
VARIABLE database

DatabaseInit ==
    \/ database = "empty" /\ Init
    \/ database = "old" /\ Old!Init

DatabaseNext ==
    \/ database = "empty" /\ Next /\ UNCHANGED database
    \/ database = "old" /\ Old!Next /\ UNCHANGED database

DatabaseSpec == DatabaseInit /\ [][DatabaseNext]_<<database, vars>>

\* A key's pool holds exactly what its budget still allows until the key is
\* closed, credits in wallets, pools and vendors' wallets stay what they were,
\* and a device's rows explain its balance, from either database
\* (PoolBacksBudget, CreditsConserved and RowsExplainBalance of ShareKeys).
PoolSound ==
    IF database = "empty" THEN PoolBacksBudget /\ CreditsConserved /\ RowsExplainBalance
    ELSE Old!PoolBacksBudget /\ Old!CreditsConserved /\ Old!RowsExplainBalance

Symmetry == Permutations(Requests)
=============================================================================
