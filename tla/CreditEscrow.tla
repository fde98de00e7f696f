---------------------------- MODULE CreditEscrow ----------------------------
(***************************************************************************)
(* What the account wallet promises about money, without accounts,         *)
(* devices, handlers or awaits: a deposit is credited once, a withdrawal   *)
(* takes its credits once, and they are either paid out or given back.     *)
(* AccountOnchain implements it (AccountEscrow).                           *)
(***************************************************************************)
EXTENDS Integers

CONSTANTS
    Requests,          \* withdrawal request ids
    Signatures,        \* transaction signatures
    Worth,             \* [Signatures -> the cents its deposit may be worth]
    Price(_),          \* the credits that an amount of cents is worth
    None

VARIABLES
    supply,            \* credits in all the wallets together
    credited,          \* the signatures whose deposit was credited
    state,             \* [Requests -> None, "held", "paid", "refunded"]
    amount,            \* [Requests -> cents, 0 while the request is unknown]
    paid_by            \* [Requests -> the transaction that paid it, or None]

vars == <<supply, credited, state, amount, paid_by>>

Init ==
    /\ supply \in Int
    /\ credited = {}
    /\ state = [r \in Requests |-> None]
    /\ amount = [r \in Requests |-> 0]
    /\ paid_by = [r \in Requests |-> None]

\* Credits for one verified transaction, once.
Deposit(s) ==
    /\ s \notin credited
    /\ credited' = credited \cup {s}
    /\ \E cents \in Worth[s] : supply' = supply + Price(cents)
    /\ UNCHANGED <<state, amount, paid_by>>

\* A new request takes its credits out of the wallets.
Take(r) ==
    /\ amount'[r] > 0
    /\ amount' = [amount EXCEPT ![r] = amount'[r]]
    /\ supply' = supply - Price(amount'[r])

\* It is paid by a transaction that paid no other request.
PaidOnce(r) ==
    \E s \in Signatures :
       /\ \A q \in Requests : paid_by[q] # s
       /\ paid_by' = [paid_by EXCEPT ![r] = s]

Hold(r) ==
    /\ state[r] = None
    /\ state' = [state EXCEPT ![r] = "held"]
    /\ Take(r)
    /\ UNCHANGED <<credited, paid_by>>

\* The credits of a held request are gone already.
Pay(r) ==
    /\ state[r] = "held"
    /\ state' = [state EXCEPT ![r] = "paid"]
    /\ PaidOnce(r)
    /\ UNCHANGED <<supply, credited, amount>>

\* A request that arrives with its transaction is held and paid at once.
HoldAndPay(r) ==
    /\ state[r] = None
    /\ state' = [state EXCEPT ![r] = "paid"]
    /\ Take(r)
    /\ PaidOnce(r)
    /\ UNCHANGED credited

\* A held request is refused, and its credits return.
Refund(r) ==
    /\ state[r] = "held"
    /\ state' = [state EXCEPT ![r] = "refunded"]
    /\ supply' = supply + Price(amount[r])
    /\ UNCHANGED <<credited, amount, paid_by>>

Next ==
    \/ \E s \in Signatures : Deposit(s)
    \/ \E r \in Requests : Hold(r) \/ Pay(r) \/ HoldAndPay(r) \/ Refund(r)

Spec == Init /\ [][Next]_vars
=============================================================================
