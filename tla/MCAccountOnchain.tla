-------------------------- MODULE MCAccountOnchain --------------------------
(* A small instance of AccountOnchain: a transaction that pays the treasury *)
(* for a1 and a user's own address, a treasury payout, and a transfer out   *)
(* of the user's own address.  One deposit covers both requests.            *)
EXTENDS AccountEscrow, TLC

CONSTANTS a1, a2, d1, d2, x1, x2, dep, pay, self

MCDelta(x, y, t) == (x1 :> x) @@ (x2 :> y) @@ (Treasury :> t)

MCTransactions ==
    (dep  :> [memos |-> {a1}, delta |-> MCDelta(-30000, 10000, 20000)]) @@
    (pay  :> [memos |-> {}, delta |-> MCDelta(9820, 0, -9820)]) @@
    (self :> [memos |-> {}, delta |-> MCDelta(9820, -10000, 180)])
MCChain == [s \in Signatures |-> MCTransactions[s]]

MCEarned == [d \in Devices |-> 0]
MCCents == {1}
MCTransfers == {20000}

Symmetry == Permutations(Operators) \cup Permutations(Requests)
=============================================================================
