---------------------------- MODULE AccountEscrow ----------------------------
(***************************************************************************)
(* AccountOnchain implements CreditEscrow: the refinement mapping.         *)
(***************************************************************************)
EXTENDS AccountOnchain

EscrowState(r) ==
    IF withdrawals[r] = None THEN None
    ELSE CASE withdrawals[r].status = "pending" -> "held"
           [] withdrawals[r].status = "submitted" -> "paid"
           [] withdrawals[r].status = "rejected" -> "refunded"

Escrow == INSTANCE CreditEscrow WITH
    Price <- credits_from_usdc_cents,
    Worth <- [s \in Signatures |-> {VerifiedCents(o, s) : o \in Owners}],
    supply <- InWallets,
    credited <- {s \in Signatures : deposits[s] # None},
    state <- [r \in Requests |-> EscrowState(r)],
    amount <- [r \in Requests |-> IF withdrawals[r] = None THEN 0 ELSE withdrawals[r].cents],
    paid_by <- [r \in Requests |-> IF withdrawals[r] = None THEN None ELSE withdrawals[r].sig]

\* Every step of the wallet handlers is one escrow step or leaves the money
\* alone: submit_account_withdrawal holds (or holds and pays, or pays what it
\* held), complete_account_withdrawal_from_treasury pays, and
\* reject_account_withdrawal refunds, each at most once for a request however
\* the handlers interleave; links, sweeps and transfers move nothing in total.
ImplementsEscrow == Escrow!Spec
=============================================================================
