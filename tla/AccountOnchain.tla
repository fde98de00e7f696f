--------------------------- MODULE AccountOnchain ---------------------------
(***************************************************************************)
(* USDC deposits and withdrawals of account wallets.                       *)
(*                                                                         *)
(* gateway/src/ledger.rs keeps the tables; handlers/account.rs and         *)
(* handlers/admin.rs call it.  All tables sit behind one mutex around one  *)
(* SQLite connection, so a ledger function that takes the lock once is one *)
(* action.  A handler that verifies a signature on Solana awaits between   *)
(* two ledger calls: it is two actions, and anything may run in between.   *)
(*                                                                         *)
(* Solana is external and its history never changes: Chain gives, for each *)
(* settled signature, the accounts its memos name and the change of every  *)
(* owner's USDC balance in micro-USDC, all the gateway ever looks at.      *)
(***************************************************************************)
EXTENDS Integers, FiniteSets, Functions

CONSTANTS
    Accounts,         \* account_user_id
    Devices,          \* device_id
    Requests,         \* withdrawal request ids, chosen by the clients
    Addresses,        \* Solana owners other than the treasury
    Treasury,         \* the treasury's address
    Signatures,       \* signatures of settled transactions
    Chain,            \* what each of them did
    FeeBps,           \* withdrawal_fee_bps
    Cents,            \* amounts a client asks to withdraw
    TransferAmounts,  \* credits a client sends to another wallet
    EarnedCredits,    \* what each device holds at the start
    Handlers,         \* tasks that run handlers with an await in them
    Operators,        \* those that serve the operator's endpoints (admin.rs)
    None

MICRO_USDC_PER_CENT == 10000
CREDITS_PER_USDC_CENT == 10000

Owners == Addresses \cup {Treasury}

ASSUME ChainAssumption ==
    /\ Chain \in [Signatures -> [memos : SUBSET Accounts, delta : [Owners -> Int]]]
    /\ FeeBps \in Nat
ASSUME AmountsAssumption ==
    /\ Cents \subseteq Nat \ {0}
    /\ TransferAmounts \subseteq Nat \ {0}
    /\ EarnedCredits \in [Devices -> Nat]
ASSUME NoneAssumption ==
    /\ None \notin Accounts \cup Addresses \cup Signatures
    /\ None \notin [account : Accounts, dest : Addresses, cents : Nat \ {0},
                    status : {"pending", "submitted", "rejected"},
                    sig : Signatures \cup {None}]
    /\ None \notin [account : Accounts, address : Owners, cents : Int]
    /\ Treasury \notin Addresses
ASSUME OperatorsAssumption == Operators \subseteq Handlers
\* The tables hold finitely many rows: what is summed below has a sum.
ASSUME FiniteAssumption ==
    /\ IsFiniteSet(Accounts) /\ IsFiniteSet(Devices)
    /\ IsFiniteSet(Requests) /\ IsFiniteSet(Signatures)

VARIABLES
    account_devices,  \* the account each device is linked to, or None
    balances,         \* credits in each device wallet
    balance_credits,  \* account_wallets, one function per column
    usdc_cents,
    deposited_usdc_cents_total,
    withdrawn_usdc_cents_total,
    solana_address,   \* None until solana_enabled is set with it
    deposits,         \* account_onchain_deposits, by signature
    withdrawals,      \* account_withdrawals, by request id
    rows,             \* sums over account_ledger, by account and type of row
    call              \* what each handler carries over its await

totals == <<usdc_cents, deposited_usdc_cents_total, withdrawn_usdc_cents_total>>
wallets == <<balance_credits, totals, solana_address>>
vars == <<account_devices, balances, wallets, deposits, withdrawals, rows, call>>

-----------------------------------------------------------------------------
(* Verification against Solana: solana.rs.                                 *)

credits_from_usdc_cents(c) == c * CREDITS_PER_USDC_CENT

withdrawal_fee_micro_usdc(gross) == (gross * FeeBps) \div 10000

extract_verified_deposit(owner, s) ==
    /\ Chain[s].delta[owner] > 0
    /\ Chain[s].delta[owner] % MICRO_USDC_PER_CENT = 0

VerifiedCents(owner, s) == Chain[s].delta[owner] \div MICRO_USDC_PER_CENT

verify_treasury_deposit(s, account) ==
    /\ account \in Chain[s].memos
    /\ extract_verified_deposit(Treasury, s)

extract_verified_withdrawal(source, dest, cents, s) ==
    LET delta == Chain[s].delta
        gross == cents * MICRO_USDC_PER_CENT
        fee == withdrawal_fee_micro_usdc(gross)
    IN  /\ {o \in Owners \ {dest, Treasury} : delta[o] < 0} = {source}
        /\ delta[source] = -gross
        /\ delta[dest] > 0
        /\ delta[dest] = gross - fee
        /\ delta[Treasury] = fee

verify_treasury_payout(s, dest, cents) ==
    LET delta == Chain[s].delta
        gross == cents * MICRO_USDC_PER_CENT
        net == gross - withdrawal_fee_micro_usdc(gross)
    IN  /\ delta[Treasury] = -net
        /\ delta[dest] = net
        /\ \A o \in Owners \ {dest} : delta[o] <= 0

\* The transaction moved the net amount of a withdrawal to its destination.
Pays(s, dest, cents) ==
    \/ verify_treasury_payout(s, dest, cents)
    \/ \E source \in Addresses : extract_verified_withdrawal(source, dest, cents, s)

-----------------------------------------------------------------------------
(* State.                                                                  *)

Idle == [op |-> "idle"]

\* Credit rows: deposits, transfers and sweeps; HOLD; REFUND; BURN.  Usdc rows.
RowTypes == {"moved", "hold", "refund", "burn", "usdc"}

Withdrawal == [account : Accounts, dest : Addresses, cents : Nat \ {0},
               status : {"pending", "submitted", "rejected"},
               sig : Signatures \cup {None}]

DepositTreasuryCall == [op : {"deposit_treasury"}, device : Devices, sig : Signatures]
DepositIntentCall == [op : {"deposit_intent"}, device : Devices,
                      address : Addresses, sig : Signatures]
WithdrawCall == [op : {"withdraw"}, device : Devices, request : Requests,
                 dest : Addresses, cents : Nat \ {0}, sig : Signatures]
CompleteCall == [op : {"complete_withdrawal"}, request : Requests, sig : Signatures]

\* Every column has its type: the totals of deposits and withdrawals never go
\* below zero, whichever of submit, complete and reject touches them.
TypeOK ==
    /\ account_devices \in [Devices -> Accounts \cup {None}]
    /\ balances \in [Devices -> Int]
    /\ balance_credits \in [Accounts -> Int]
    /\ usdc_cents \in [Accounts -> Int]
    /\ deposited_usdc_cents_total \in [Accounts -> Nat]
    /\ withdrawn_usdc_cents_total \in [Accounts -> Nat]
    /\ solana_address \in [Accounts -> Addresses \cup {None}]
    /\ deposits \in [Signatures -> [account : Accounts, address : Owners, cents : Int]
                                   \cup {None}]
    /\ withdrawals \in [Requests -> Withdrawal \cup {None}]
    /\ rows \in [Accounts -> [RowTypes -> Int]]
    /\ call \in [Handlers -> {Idle} \cup DepositTreasuryCall \cup DepositIntentCall
                                    \cup WithdrawCall \cup CompleteCall]

\* Devices are linked and hold earnings; every account wallet row exists, empty.
Init ==
    /\ account_devices \in [Devices -> Accounts]
    /\ balances = EarnedCredits
    /\ balance_credits = [a \in Accounts |-> 0]
    /\ usdc_cents = [a \in Accounts |-> 0]
    /\ deposited_usdc_cents_total = [a \in Accounts |-> 0]
    /\ withdrawn_usdc_cents_total = [a \in Accounts |-> 0]
    /\ solana_address = [a \in Accounts |-> None]
    /\ deposits = [s \in Signatures |-> None]
    /\ withdrawals = [r \in Requests |-> None]
    /\ rows = [a \in Accounts |-> [t \in RowTypes |-> 0]]
    /\ call = [h \in Handlers |-> Idle]

-----------------------------------------------------------------------------
(* Device links and the other credit flows of an account wallet.           *)

Credit(a, n) == balance_credits' = [balance_credits EXCEPT ![a] = @ + n]

\* Append a row to account_ledger, seen through its sums.
Row(sums, a, type, n) == [sums EXCEPT ![a][type] = @ + n]

link_device_to_account(d, a) ==
    /\ account_devices' = [account_devices EXCEPT ![d] = a]
    /\ UNCHANGED <<balances, wallets, deposits, withdrawals, rows, call>>

remove_device_from_account(requester, target) ==
    /\ requester # target
    /\ account_devices[requester] # None
    /\ account_devices[target] = account_devices[requester]
    /\ account_devices' = [account_devices EXCEPT ![target] = None]
    /\ UNCHANGED <<balances, wallets, deposits, withdrawals, rows, call>>

sweep_device_to_account(requester, target) ==
    LET a == account_devices[requester]
        swept == balances[target]
    IN  /\ a # None
        /\ account_devices[target] = a
        /\ swept > 0
        /\ balances' = [balances EXCEPT ![target] = 0]
        /\ Credit(a, swept)
        /\ rows' = Row(rows, a, "moved", swept)
        /\ UNCHANGED <<account_devices, totals, solana_address, deposits, withdrawals, call>>

CanSend(a, recipient, amount) == recipient # a /\ balance_credits[a] >= amount

\* To a device wallet, or to another account's wallet.
transfer_from_account_wallet_for_account(a, recipient, amount) ==
    /\ CanSend(a, recipient, amount)
    /\ \/ /\ recipient \in Devices
          /\ balances' = [balances EXCEPT ![recipient] = @ + amount]
          /\ Credit(a, -amount)
          /\ rows' = Row(rows, a, "moved", -amount)
       \/ /\ recipient \in Accounts
          /\ balance_credits' = [balance_credits EXCEPT ![a] = @ - amount,
                                                        ![recipient] = @ + amount]
          /\ rows' = Row(Row(rows, a, "moved", -amount), recipient, "moved", amount)
          /\ UNCHANGED balances
    /\ UNCHANGED <<account_devices, totals, solana_address, deposits, withdrawals, call>>

-----------------------------------------------------------------------------
(* Deposits.                                                               *)

Resume(h) == call' = [call EXCEPT ![h] = Idle]

\* The totals and rows both deposit functions write for a new signature.
CreditDeposit(a, cents) ==
    /\ Credit(a, credits_from_usdc_cents(cents))
    /\ usdc_cents' = [usdc_cents EXCEPT ![a] = @ + cents]
    /\ deposited_usdc_cents_total' = [deposited_usdc_cents_total EXCEPT ![a] = @ + cents]
    /\ UNCHANGED withdrawn_usdc_cents_total

DepositRows(a, cents) ==
    Row(Row(rows, a, "moved", credits_from_usdc_cents(cents)), a, "usdc", cents)

\* The handler reads the device's account, then awaits the memo's verification.
deposit_treasury(h, d, s) ==
    /\ call[h] = Idle
    /\ account_devices[d] # None
    /\ verify_treasury_deposit(s, account_devices[d])
    /\ call' = [call EXCEPT ![h] = [op |-> "deposit_treasury", device |-> d, sig |-> s]]
    /\ UNCHANGED <<account_devices, balances, wallets, deposits, withdrawals, rows>>

\* It reads the device's account again.  A recorded signature is left alone.
record_account_treasury_deposit(h) ==
    LET c == call[h]
        a == account_devices[c.device]
        cents == VerifiedCents(Treasury, c.sig)
    IN  /\ c.op = "deposit_treasury"
        /\ Resume(h)
        /\ IF a # None /\ deposits[c.sig] = None
           THEN /\ deposits' = [deposits EXCEPT ![c.sig] =
                     [account |-> a, address |-> Treasury, cents |-> cents]]
                /\ CreditDeposit(a, cents)
                /\ rows' = DepositRows(a, cents)
           ELSE UNCHANGED <<deposits, balance_credits, totals, rows>>
        /\ UNCHANGED <<account_devices, balances, solana_address, withdrawals>>

\* The address a wallet is bound to wins; a different one is a mismatch.
resolve_account_onchain_address(a, requested) == solana_address[a] \in {None, requested}

\* Without a signature the call only binds the account's address.
bind_solana_address(d, address) ==
    LET a == account_devices[d]
    IN  /\ a # None
        /\ resolve_account_onchain_address(a, address)
        /\ solana_address' = [solana_address EXCEPT ![a] = address]
        /\ UNCHANGED <<account_devices, balances, balance_credits, totals, deposits,
                       withdrawals, rows, call>>

deposit_intent(h, d, address, s) ==
    /\ call[h] = Idle
    /\ account_devices[d] # None
    /\ resolve_account_onchain_address(account_devices[d], address)
    /\ extract_verified_deposit(address, s)
    /\ call' = [call EXCEPT ![h] =
         [op |-> "deposit_intent", device |-> d, address |-> address, sig |-> s]]
    /\ UNCHANGED <<account_devices, balances, wallets, deposits, withdrawals, rows>>

\* A conflicting replay rolls the whole transaction back, the address included.
record_account_onchain_deposit(h) ==
    LET c == call[h]
        a == account_devices[c.device]
        cents == VerifiedCents(c.address, c.sig)
        deposit == [account |-> a, address |-> c.address, cents |-> cents]
    IN  /\ c.op = "deposit_intent"
        /\ Resume(h)
        /\ IF a # None /\ resolve_account_onchain_address(a, c.address)
                       /\ deposits[c.sig] \in {None, deposit}
           THEN /\ solana_address' = [solana_address EXCEPT ![a] = c.address]
                /\ IF deposits[c.sig] = None
                   THEN /\ deposits' = [deposits EXCEPT ![c.sig] = deposit]
                        /\ CreditDeposit(a, cents)
                        /\ rows' = DepositRows(a, cents)
                   ELSE UNCHANGED <<deposits, balance_credits, totals, rows>>
           ELSE UNCHANGED <<deposits, wallets, rows>>
        /\ UNCHANGED <<account_devices, balances, withdrawals>>

-----------------------------------------------------------------------------
(* Withdrawals.                                                            *)

SignatureFree(s) == \A q \in Requests : withdrawals[q] # None => withdrawals[q].sig # s

\* Every early return of submit_account_withdrawal but its replays, which
\* change nothing: a request id may be resubmitted only to sign it.
CanSubmit(a, r, dest, cents, s) ==
    /\ a # None
    /\ solana_address[a] # None
    /\ s # None => SignatureFree(s)
    /\ IF withdrawals[r] = None
       THEN balance_credits[a] >= credits_from_usdc_cents(cents)
       ELSE /\ withdrawals[r] = [account |-> a, dest |-> dest, cents |-> cents,
                                 status |-> "pending", sig |-> None]
            /\ s # None

WasReserved_Never(r) == FALSE
WasReserved(r) == withdrawals[r] # None /\ withdrawals[r].status = "pending"

\* The BURN and OUT rows, and the total, of a settled withdrawal.
Burn(a, cents) ==
    /\ withdrawn_usdc_cents_total' = [withdrawn_usdc_cents_total EXCEPT ![a] = @ + cents]
    /\ rows' = Row(Row(rows, a, "burn", -credits_from_usdc_cents(cents)), a, "usdc", -cents)

\* Unsigned: the credits are reserved.  Signed: they are burned, and a
\* request that was pending has them reserved already.
submit_account_withdrawal(a, r, dest, cents, s) ==
    LET credits == credits_from_usdc_cents(cents)
        was_reserved == WasReserved(r)
        signed == s # None
    IN  /\ CanSubmit(a, r, dest, cents, s)
        /\ withdrawals' = [withdrawals EXCEPT ![r] =
              [account |-> a, dest |-> dest, cents |-> cents,
               status |-> IF signed THEN "submitted" ELSE "pending", sig |-> s]]
        /\ IF was_reserved
           THEN UNCHANGED <<balance_credits, usdc_cents>>
           ELSE /\ Credit(a, -credits)
                /\ usdc_cents' = [usdc_cents EXCEPT ![a] = @ - cents]
        /\ IF signed
           THEN Burn(a, cents)
           ELSE /\ rows' = Row(rows, a, "hold", -credits)
                /\ UNCHANGED withdrawn_usdc_cents_total
        /\ UNCHANGED <<deposited_usdc_cents_total, solana_address>>

\* The unsigned request goes straight to the ledger.
withdraw_unsigned(d, r, dest, cents) ==
    /\ submit_account_withdrawal(account_devices[d], r, dest, cents, None)
    /\ UNCHANGED <<account_devices, balances, deposits, call>>

\* The signed one first awaits the verification of a transfer out of the
\* address the device's account has at that moment.
withdraw(h, d, r, dest, cents, s) ==
    /\ call[h] = Idle
    /\ account_devices[d] # None
    /\ solana_address[account_devices[d]] # None
    /\ extract_verified_withdrawal(solana_address[account_devices[d]], dest, cents, s)
    /\ call' = [call EXCEPT ![h] = [op |-> "withdraw", device |-> d, request |-> r,
                                    dest |-> dest, cents |-> cents, sig |-> s]]
    /\ UNCHANGED <<account_devices, balances, wallets, deposits, withdrawals, rows>>

withdraw_verified(h) ==
    LET c == call[h]
        a == account_devices[c.device]
    IN  /\ c.op = "withdraw"
        /\ Resume(h)
        /\ IF CanSubmit(a, c.request, c.dest, c.cents, c.sig)
           THEN submit_account_withdrawal(a, c.request, c.dest, c.cents, c.sig)
           ELSE UNCHANGED <<wallets, withdrawals, rows>>
        /\ UNCHANGED <<account_devices, balances, deposits>>

\* The operator names a payout for a request that is pending; the payout is
\* verified for that request's destination and amount.
complete_withdrawal(h, r, s) ==
    /\ call[h] = Idle
    /\ withdrawals[r] # None
    /\ withdrawals[r].status = "pending"
    /\ verify_treasury_payout(s, withdrawals[r].dest, withdrawals[r].cents)
    /\ call' = [call EXCEPT ![h] =
         [op |-> "complete_withdrawal", request |-> r, sig |-> s]]
    /\ UNCHANGED <<account_devices, balances, wallets, deposits, withdrawals, rows>>

Settle(w, status, s) ==
    [account |-> w.account, dest |-> w.dest, cents |-> w.cents, status |-> status, sig |-> s]

CanComplete_AnySignature(r, s) == withdrawals[r].status = "pending"
\* By then the request may be paid or rejected, or the signature used.
CanComplete(r, s) == withdrawals[r].status = "pending" /\ SignatureFree(s)

complete_account_withdrawal_from_treasury(h) ==
    LET c == call[h]
        w == withdrawals[c.request]
    IN  /\ c.op = "complete_withdrawal"
        /\ Resume(h)
        /\ IF CanComplete(c.request, c.sig)
           THEN /\ withdrawals' = [withdrawals EXCEPT ![c.request] =
                                                      Settle(w, "submitted", c.sig)]
                /\ Burn(w.account, w.cents)
           ELSE UNCHANGED <<withdrawn_usdc_cents_total, withdrawals, rows>>
        /\ UNCHANGED <<account_devices, balances, balance_credits, usdc_cents,
                       deposited_usdc_cents_total, solana_address, deposits>>

CanReject_Twice(r) == withdrawals[r] # None /\ withdrawals[r].status # "submitted"
CanReject(r) == withdrawals[r] # None /\ withdrawals[r].status = "pending"

ReleaseReserve(a, cents) ==
    /\ Credit(a, credits_from_usdc_cents(cents))
    /\ usdc_cents' = [usdc_cents EXCEPT ![a] = @ + cents]
    /\ UNCHANGED <<deposited_usdc_cents_total, withdrawn_usdc_cents_total>>

reject_account_withdrawal(r) ==
    LET w == withdrawals[r]
    IN  /\ CanReject(r)
        /\ withdrawals' = [withdrawals EXCEPT ![r] = Settle(w, "rejected", w.sig)]
        /\ ReleaseReserve(w.account, w.cents)
        /\ rows' = Row(rows, w.account, "refund", credits_from_usdc_cents(w.cents))
        /\ UNCHANGED <<account_devices, balances, solana_address, deposits, call>>

\* A client that disconnects, or a failed or timed-out RPC, ends a handler at
\* its await.
Abandon(h) ==
    /\ call[h] # Idle
    /\ Resume(h)
    /\ UNCHANGED <<account_devices, balances, wallets, deposits, withdrawals, rows>>

Links ==
    \/ \E d \in Devices, a \in Accounts : link_device_to_account(d, a)
    \/ \E d, t \in Devices : remove_device_from_account(d, t) \/ sweep_device_to_account(d, t)
    \/ \E a \in Accounts, to \in Accounts \cup Devices, n \in TransferAmounts :
          transfer_from_account_wallet_for_account(a, to, n)

Immediate ==
    \/ \E d \in Devices, address \in Addresses : bind_solana_address(d, address)
    \/ \E d \in Devices, r \in Requests, dest \in Addresses, c \in Cents :
          withdraw_unsigned(d, r, dest, c)
    \/ \E r \in Requests : reject_account_withdrawal(r)

Begin(h) ==
    \E d \in Devices, s \in Signatures :
       \/ deposit_treasury(h, d, s)
       \/ \E address \in Addresses : deposit_intent(h, d, address, s)
       \/ \E r \in Requests, dest \in Addresses, c \in Cents : withdraw(h, d, r, dest, c, s)

Finish(h) ==
    \/ record_account_treasury_deposit(h)
    \/ record_account_onchain_deposit(h)
    \/ withdraw_verified(h)
    \/ complete_account_withdrawal_from_treasury(h)
    \/ Abandon(h)

Next ==
    \/ Links
    \/ Immediate
    \/ \E h \in Handlers \ Operators : Begin(h)
    \/ \E h \in Operators, r \in Requests, s \in Signatures : complete_withdrawal(h, r, s)
    \/ \E h \in Handlers : Finish(h)

Spec == Init /\ [][Next]_vars

-----------------------------------------------------------------------------
(* Properties.                                                             *)

WithStatus(status) == {r \in Requests : /\ withdrawals[r] # None
                                         /\ withdrawals[r].status = status}
SubmittedRequests == WithStatus("submitted")
PendingOf(a) == {r \in WithStatus("pending") : withdrawals[r].account = a}

CentsOf(R) ==
    SumFunctionOnSet([r \in Requests |-> IF r \in R THEN withdrawals[r].cents ELSE 0], Requests)

\* The credits in all wallets, and the cents of all recorded deposits.
InWallets ==
    SumFunctionOnSet(balance_credits, Accounts) + SumFunctionOnSet(balances, Devices)
DepositedCents ==
    SumFunctionOnSet([s \in Signatures |-> IF deposits[s] = None THEN 0 ELSE deposits[s].cents],
                     Signatures)

\* A request is marked submitted only with a transaction that paid its own
\* destination its own net amount, and one transaction settles one request,
\* although the pending check of complete_withdrawal and the address read of
\* withdraw are made before the verification's await.
SubmittedWasPaid ==
    \A r \in SubmittedRequests :
       /\ withdrawals[r].sig # None
       /\ Pays(withdrawals[r].sig, withdrawals[r].dest, withdrawals[r].cents)
       /\ \A q \in Requests \ {r} : withdrawals[q] # None
                                       => withdrawals[q].sig # withdrawals[r].sig

\* Credits are neither made nor lost: what wallets hold and what pending
\* requests reserve is what devices earned, plus each verified deposit once,
\* less each submitted withdrawal once, however submit, complete and reject
\* race and however often a client replays a call.
CreditsConserved ==
    InWallets + credits_from_usdc_cents(CentsOf(WithStatus("pending")))
    = SumFunctionOnSet(EarnedCredits, Devices)
      + credits_from_usdc_cents(DepositedCents - CentsOf(SubmittedRequests))

\* The account ledger's rows explain the wallet: deposits, transfers and burns
\* give the balance plus the open reserve, so HOLD and REFUND rows cancel out
\* of it, and usdc_cents lags the deposited and withdrawn totals by exactly
\* the pending requests.
RowsExplainWallet ==
    \A a \in Accounts :
       LET pending == CentsOf(PendingOf(a)) IN
       LET net == deposited_usdc_cents_total[a] - withdrawn_usdc_cents_total[a] IN
       /\ balance_credits[a] + credits_from_usdc_cents(pending)
             = rows[a]["moved"] + rows[a]["burn"]
       /\ usdc_cents[a] = net - pending
       /\ rows[a]["usdc"] = net

\* Credits are neither made nor lost by deposits, withdrawals, transfers and
\* their failures, and the ledger rows of an account explain its wallet.
LedgerSound == CreditsConserved /\ RowsExplainWallet

=============================================================================
