------------------------- MODULE AccountOnchainProofs -------------------------
(***************************************************************************)
(* TLAPS proofs about AccountOnchain, for every set of accounts, devices,  *)
(* requests, handlers and amounts, and every Solana history: its types,    *)
(* and that a submitted withdrawal was paid.                               *)
(***************************************************************************)
EXTENDS AccountOnchain, TLAPS

\* What a handler established before its await and holds after it: the
\* deposit it verified is one, and the request it verified a payment for
\* still exists with the destination and amount that were paid.
CallVerified(c) ==
    /\ c.op = "deposit_treasury" => extract_verified_deposit(Treasury, c.sig)
    /\ c.op = "deposit_intent" => extract_verified_deposit(c.address, c.sig)
    /\ c.op = "withdraw" => Pays(c.sig, c.dest, c.cents)
    /\ c.op = "complete_withdrawal" =>
          /\ withdrawals[c.request] # None
          /\ Pays(c.sig, withdrawals[c.request].dest, withdrawals[c.request].cents)

CallsVerified == \A h \in Handlers : CallVerified(call[h])

IInv == TypeOK /\ CallsVerified /\ SubmittedWasPaid

\* A verified deposit credits a whole, positive number of cents.
LEMMA VerifiedCentsNat ==
    ASSUME NEW o \in Owners, NEW s \in Signatures, extract_verified_deposit(o, s)
    PROVE  VerifiedCents(o, s) \in Nat
  <1>1. Chain[s].delta[o] \in Int /\ Chain[s].delta[o] > 0
    BY ChainAssumption, Zenon DEF extract_verified_deposit
  <1> QED
    BY <1>1 DEF VerifiedCents, MICRO_USDC_PER_CENT

\* The empty tables satisfy the invariant.
LEMMA InitIInv == Init => IInv
  <1> SUFFICES ASSUME Init PROVE IInv
    OBVIOUS
  <1>1. TypeOK
    BY AmountsAssumption DEF Init, TypeOK, Idle
  <1>2. CallsVerified
    BY Zenon DEF Init, CallsVerified, CallVerified, Idle
  <1>3. SubmittedWasPaid
    BY Zenon DEF Init, SubmittedWasPaid, SubmittedRequests, WithStatus
  <1> QED
    BY <1>1, <1>2, <1>3, Zenon DEF IInv

\* The part of FinalStaysFinal that CallsVerified rests on.
DetailsKept ==
    \A r \in Requests : withdrawals[r] # None =>
       /\ withdrawals'[r] # None
       /\ withdrawals'[r].dest = withdrawals[r].dest
       /\ withdrawals'[r].cents = withdrawals[r].cents

\* A handler that resumes or is not involved carries no stale fact over, as
\* long as recorded requests keep their details.
LEMMA CallsKept ==
    ASSUME TypeOK, CallsVerified, DetailsKept,
           UNCHANGED call \/ \E h \in Handlers : Resume(h)
    PROVE  CallsVerified'
  <1> SUFFICES ASSUME NEW h \in Handlers, call'[h] # Idle
               PROVE  /\ call'[h] = call[h]
                      /\ call[h].op = "complete_withdrawal" => call[h].request \in Requests
    BY DEF CallsVerified, CallVerified, DetailsKept, Pays, Idle
  <1>1. call'[h] = call[h]
    BY Zenon DEF TypeOK, Resume
  <1>2. call[h].op = "complete_withdrawal" => call[h] \in CompleteCall
    BY DEF TypeOK, Idle, DepositTreasuryCall, DepositIntentCall, WithdrawCall, CompleteCall
  <1> QED
    BY <1>1, <1>2, Zenon DEF CompleteCall

\* A step that leaves the withdrawals alone keeps them paid.
LEMMA PaidKept ==
    ASSUME SubmittedWasPaid, UNCHANGED withdrawals
    PROVE  SubmittedWasPaid' /\ DetailsKept
  BY Zenon DEF SubmittedWasPaid, SubmittedRequests, WithStatus, DetailsKept, Pays

\* The helpers that add to a wallet's balance and to its rows keep their types.
LEMMA CreditType ==
    ASSUME TypeOK, NEW a \in Accounts, NEW n \in Int, Credit(a, n)
    PROVE  balance_credits' \in [Accounts -> Int]
  BY DEF TypeOK, Credit

\* A ledger row keeps the account's rows typed.
LEMMA RowType ==
    ASSUME NEW sums \in [Accounts -> [RowTypes -> Int]],
           NEW a \in Accounts, NEW type \in RowTypes, NEW n \in Int
    PROVE  Row(sums, a, type, n) \in [Accounts -> [RowTypes -> Int]]
  BY DEF Row

\* Linking and unlinking devices, sweeps and transfers.
LEMMA LinksStep == ASSUME IInv, Links PROVE IInv'
  <1> USE DEF IInv
  <1>1. UNCHANGED <<deposits, withdrawals, call, totals, solana_address>>
    BY Zenon DEF Links, link_device_to_account, remove_device_from_account, wallets,
           sweep_device_to_account, transfer_from_account_wallet_for_account
  <1>2. SubmittedWasPaid' /\ CallsVerified'
    BY <1>1, PaidKept, CallsKept, Zenon
  <1>3. CASE \E d \in Devices, a \in Accounts : link_device_to_account(d, a)
    BY <1>1, <1>2, <1>3 DEF TypeOK, link_device_to_account, wallets, totals
  <1>4. CASE \E d, t \in Devices : remove_device_from_account(d, t)
    BY <1>1, <1>2, <1>4 DEF TypeOK, remove_device_from_account, wallets, totals
  <1>5. ASSUME NEW d \in Devices, NEW t \in Devices, sweep_device_to_account(d, t)
        PROVE  TypeOK'
    <2> DEFINE a == account_devices[d]
    <2>1. a \in Accounts /\ balances[t] \in Int /\ "moved" \in RowTypes
      BY <1>5, Zenon DEF TypeOK, sweep_device_to_account, RowTypes
    <2>2. Credit(a, balances[t]) /\ rows' = Row(rows, a, "moved", balances[t])
      BY <1>5, Zenon DEF sweep_device_to_account
    <2>3. /\ balance_credits' \in [Accounts -> Int]
          /\ rows' \in [Accounts -> [RowTypes -> Int]]
      BY <2>1, <2>2, CreditType, RowType, Zenon DEF TypeOK
    <2> QED
      BY <1>1, <1>5, <2>3 DEF TypeOK, sweep_device_to_account, totals
  <1>6. ASSUME NEW a \in Accounts, NEW to \in Accounts \cup Devices,
               NEW n \in TransferAmounts,
               transfer_from_account_wallet_for_account(a, to, n)
        PROVE  TypeOK'
    <2>1. n \in Int /\ -n \in Int /\ "moved" \in RowTypes
      BY AmountsAssumption DEF RowTypes
    <2>2. CASE to \in Devices /\ Credit(a, -n) /\ rows' = Row(rows, a, "moved", -n)
      <3>1. /\ balance_credits' \in [Accounts -> Int]
            /\ rows' \in [Accounts -> [RowTypes -> Int]]
        BY <2>1, <2>2, CreditType, RowType, Zenon DEF TypeOK
      <3> QED
        BY <1>1, <1>6, <2>1, <2>2, <3>1
           DEF TypeOK, transfer_from_account_wallet_for_account, totals
    <2>3. CASE /\ to \in Accounts
               /\ balance_credits' = [balance_credits EXCEPT ![a] = @ - n, ![to] = @ + n]
               /\ rows' = Row(Row(rows, a, "moved", -n), to, "moved", n)
               /\ UNCHANGED balances
      <3>1. balance_credits' \in [Accounts -> Int]
        BY <2>1, <2>3 DEF TypeOK
      <3>2. rows' \in [Accounts -> [RowTypes -> Int]]
        <4>1. Row(rows, a, "moved", -n) \in [Accounts -> [RowTypes -> Int]]
          BY <2>1, RowType, Zenon DEF TypeOK
        <4> QED
          BY <2>1, <2>3, <4>1, RowType, Zenon
      <3> QED
        BY <1>1, <1>6, <2>3, <3>1, <3>2, Zenon
           DEF TypeOK, transfer_from_account_wallet_for_account, totals
    <2> QED
      BY <1>6, <2>2, <2>3, Zenon DEF transfer_from_account_wallet_for_account
  <1> QED
    BY <1>2, <1>3, <1>4, <1>5, <1>6, Zenon DEF Links

\* A handler that starts waits with a verified call; nothing else moves.
LEMMA CallStarted ==
    ASSUME IInv, NEW h \in Handlers,
           NEW c \in DepositTreasuryCall \cup DepositIntentCall \cup WithdrawCall \cup CompleteCall,
           CallVerified(c), call' = [call EXCEPT ![h] = c],
           UNCHANGED <<account_devices, balances, wallets, deposits, withdrawals, rows>>
    PROVE  IInv'
  <1> DEFINE Calls == {Idle} \cup DepositTreasuryCall \cup DepositIntentCall
                      \cup WithdrawCall \cup CompleteCall
  <1>1. call \in [Handlers -> Calls] /\ CallsVerified /\ SubmittedWasPaid
    BY Zenon DEF IInv, TypeOK
  <1>2. /\ call' \in [Handlers -> Calls] /\ call'[h] = c
        /\ \A g \in Handlers \ {h} : call'[g] = call[g]
    <2> HIDE DEF Calls
    <2>1. c \in Calls
      BY Zenon DEF Calls
    <2> QED
      BY <1>1, <2>1, Zenon
  <1>3. UNCHANGED withdrawals
    OBVIOUS
  <1>4. CallsVerified'
    <2> SUFFICES ASSUME NEW g \in Handlers PROVE CallVerified(call[g])'
      BY Zenon DEF CallsVerified
    <2> CallVerified(call'[g])
      BY <1>1, <1>2, Zenon DEF CallsVerified
    <2> QED
      BY <1>3, Zenon DEF CallVerified, Pays
  <1>5. TypeOK'
    BY <1>2, Zenon DEF IInv, TypeOK, wallets, totals
  <1> QED
    BY <1>1, <1>3, <1>4, <1>5, PaidKept, Zenon DEF IInv

\* The four handlers that suspend in a Solana lookup have verified what they
\* store.
LEMMA BeginStep ==
    ASSUME IInv, NEW h \in Handlers,
           Begin(h) \/ \E r \in Requests, s \in Signatures : complete_withdrawal(h, r, s)
    PROVE  IInv'
  <1>1. ASSUME NEW d \in Devices, NEW s \in Signatures, deposit_treasury(h, d, s)
        PROVE  IInv'
    <2> DEFINE c == [op |-> "deposit_treasury", device |-> d, sig |-> s]
    <2>1. /\ extract_verified_deposit(Treasury, s)
          /\ call' = [call EXCEPT ![h] = c]
          /\ UNCHANGED <<account_devices, balances, wallets, deposits, withdrawals, rows>>
      BY <1>1, Zenon DEF deposit_treasury, verify_treasury_deposit
    <2>2. c \in DepositTreasuryCall /\ CallVerified(c)
      BY <2>1, Zenon DEF DepositTreasuryCall, CallVerified
    <2> QED
      BY <2>1, <2>2, CallStarted, Zenon
  <1>2. ASSUME NEW d \in Devices, NEW s \in Signatures, NEW address \in Addresses,
               deposit_intent(h, d, address, s)
        PROVE  IInv'
    <2> DEFINE c == [op |-> "deposit_intent", device |-> d, address |-> address, sig |-> s]
    <2>1. /\ extract_verified_deposit(address, s)
          /\ call' = [call EXCEPT ![h] = c]
          /\ UNCHANGED <<account_devices, balances, wallets, deposits, withdrawals, rows>>
      BY <1>2, Zenon DEF deposit_intent
    <2>2. c \in DepositIntentCall /\ CallVerified(c)
      BY <2>1, Zenon DEF DepositIntentCall, CallVerified
    <2> QED
      BY <2>1, <2>2, CallStarted, Zenon
  <1>3. ASSUME NEW d \in Devices, NEW s \in Signatures, NEW r \in Requests,
               NEW dest \in Addresses, NEW cents \in Cents,
               withdraw(h, d, r, dest, cents, s)
        PROVE  IInv'
    <2> DEFINE c == [op |-> "withdraw", device |-> d, request |-> r,
                     dest |-> dest, cents |-> cents, sig |-> s]
    <2> DEFINE source == solana_address[account_devices[d]]
    <2>1. /\ account_devices[d] # None /\ source # None
          /\ extract_verified_withdrawal(source, dest, cents, s)
          /\ call' = [call EXCEPT ![h] = c]
          /\ UNCHANGED <<account_devices, balances, wallets, deposits, withdrawals, rows>>
      BY <1>3, Zenon DEF withdraw
    <2>t. /\ account_devices \in [Devices -> Accounts \cup {None}]
          /\ solana_address \in [Accounts -> Addresses \cup {None}]
      BY Zenon DEF IInv, TypeOK
    <2>p. Pays(s, dest, cents)
      <3>1. source \in Addresses
        BY <2>1, <2>t, Zenon
      <3> QED
        BY <2>1, <3>1, Zenon DEF Pays
    <2>2. c \in WithdrawCall /\ CallVerified(c)
      BY <2>p, AmountsAssumption, Zenon DEF WithdrawCall, CallVerified
    <2> QED
      BY <2>1, <2>2, CallStarted, Zenon
  <1>4. ASSUME NEW r \in Requests, NEW s \in Signatures, complete_withdrawal(h, r, s)
        PROVE  IInv'
    <2> DEFINE c == [op |-> "complete_withdrawal", request |-> r, sig |-> s]
    <2>1. /\ withdrawals[r] # None /\ Pays(s, withdrawals[r].dest, withdrawals[r].cents)
          /\ call' = [call EXCEPT ![h] = c]
          /\ UNCHANGED <<account_devices, balances, wallets, deposits, withdrawals, rows>>
      BY <1>4, Zenon DEF complete_withdrawal, Pays
    <2>2. c \in CompleteCall /\ CallVerified(c)
      BY <2>1 DEF CompleteCall, CallVerified
    <2> QED
      BY <2>1, <2>2, CallStarted, Zenon
  <1> QED
    BY <1>1, <1>2, <1>3, <1>4, Zenon DEF Begin

\* What a table update must keep for the account side of TypeOK.
WalletsTyped ==
    /\ balance_credits' \in [Accounts -> Int]
    /\ usdc_cents' \in [Accounts -> Int]
    /\ deposited_usdc_cents_total' \in [Accounts -> Nat]
    /\ withdrawn_usdc_cents_total' \in [Accounts -> Nat]
    /\ solana_address' \in [Accounts -> Addresses \cup {None}]
    /\ rows' \in [Accounts -> [RowTypes -> Int]]

\* Cents convert to a whole number of credits.
LEMMA CreditsInt ==
    ASSUME NEW c \in Int
    PROVE  credits_from_usdc_cents(c) \in Int /\ -credits_from_usdc_cents(c) \in Int
  BY DEF credits_from_usdc_cents, CREDITS_PER_USDC_CENT

\* The burn of a withdrawal keeps the total and the rows typed.
LEMMA BurnType ==
    ASSUME TypeOK, NEW a \in Accounts, NEW c \in Nat, Burn(a, c)
    PROVE  /\ withdrawn_usdc_cents_total' \in [Accounts -> Nat]
           /\ rows' \in [Accounts -> [RowTypes -> Int]]
  <1>1. "burn" \in RowTypes /\ "usdc" \in RowTypes /\ -c \in Int
    BY DEF RowTypes
  <1>2. -credits_from_usdc_cents(c) \in Int
    BY CreditsInt
  <1>3. Row(rows, a, "burn", -credits_from_usdc_cents(c)) \in [Accounts -> [RowTypes -> Int]]
    BY <1>1, <1>2, RowType, Zenon DEF TypeOK
  <1>4. rows' \in [Accounts -> [RowTypes -> Int]]
    BY <1>1, <1>3, RowType, Zenon DEF Burn
  <1> QED
    BY <1>4 DEF TypeOK, Burn

\* Recording a request that is unsigned, or signed by a transaction that pays
\* it, keeps every submitted request paid and every recorded detail.
LEMMA SubmitStep ==
    ASSUME IInv, NEW a \in Accounts \cup {None}, NEW r \in Requests, NEW dest \in Addresses,
           NEW c \in Nat \ {0}, NEW s \in Signatures \cup {None},
           s # None => Pays(s, dest, c),
           submit_account_withdrawal(a, r, dest, c, s)
    PROVE  /\ WalletsTyped
           /\ withdrawals' \in [Requests -> Withdrawal \cup {None}]
           /\ DetailsKept
           /\ SubmittedWasPaid'
  <1> DEFINE credits == credits_from_usdc_cents(c)
             new == [account |-> a, dest |-> dest, cents |-> c,
                     status |-> IF s # None THEN "submitted" ELSE "pending", sig |-> s]
  <1> USE DEF IInv
  <1> DEFINE Table == [Requests -> Withdrawal \cup {None}]
  <1>1. /\ CanSubmit(a, r, dest, c, s)
        /\ a \in Accounts
        /\ withdrawals' = [withdrawals EXCEPT ![r] = new]
    BY Zenon DEF submit_account_withdrawal, CanSubmit
  <1>2. credits \in Int /\ -credits \in Int /\ "hold" \in RowTypes
    BY CreditsInt DEF RowTypes
  <1>t. /\ balance_credits \in [Accounts -> Int] /\ usdc_cents \in [Accounts -> Int]
        /\ rows \in [Accounts -> [RowTypes -> Int]]
        /\ withdrawals \in Table
    BY Zenon DEF TypeOK
  <1>3. WalletsTyped
    <2>1. balance_credits' \in [Accounts -> Int] /\ usdc_cents' \in [Accounts -> Int]
      <3>1. \/ UNCHANGED <<balance_credits, usdc_cents>>
            \/ /\ Credit(a, -credits)
               /\ usdc_cents' = [usdc_cents EXCEPT ![a] = @ - c]
        BY Zenon DEF submit_account_withdrawal
      <3> QED
        BY <1>1, <1>2, <1>t, <3>1, CreditType
    <2>2. /\ withdrawn_usdc_cents_total' \in [Accounts -> Nat]
          /\ rows' \in [Accounts -> [RowTypes -> Int]]
      <3>1. CASE s # None
        <4>1. Burn(a, c)
          BY <3>1, Zenon DEF submit_account_withdrawal
        <4> QED
          BY <1>1, <4>1, BurnType, Zenon
      <3>2. CASE s = None
        <4>1. /\ rows' = Row(rows, a, "hold", -credits)
              /\ UNCHANGED withdrawn_usdc_cents_total
          BY <3>2, Zenon DEF submit_account_withdrawal
        <4>2. rows' \in [Accounts -> [RowTypes -> Int]]
          BY <1>1, <1>2, <1>t, <4>1, RowType, Zenon
        <4> QED
          BY <4>1, <4>2, Zenon DEF TypeOK
      <3> QED
        BY <3>1, <3>2, Zenon
    <2>3. UNCHANGED <<deposited_usdc_cents_total, solana_address>>
      BY Zenon DEF submit_account_withdrawal
    <2> QED
      BY <2>1, <2>2, <2>3, Zenon DEF WalletsTyped, TypeOK
  <1>4. new \in Withdrawal
    BY <1>1, Zenon DEF Withdrawal
  <1>5. withdrawals' \in [Requests -> Withdrawal \cup {None}]
    BY <1>1, <1>4, <1>t, Zenon
  <1>6. DetailsKept
    BY <1>1, <1>4, <1>t, NoneAssumption DEF DetailsKept, CanSubmit, Withdrawal
  <1>7. SubmittedWasPaid'
    <2> SUFFICES ASSUME NEW p \in SubmittedRequests'
                 PROVE  /\ withdrawals'[p].sig # None
                        /\ Pays(withdrawals'[p].sig, withdrawals'[p].dest,
                                withdrawals'[p].cents)
                        /\ \A q \in Requests \ {p} : withdrawals'[q] # None
                              => withdrawals'[q].sig # withdrawals'[p].sig
      BY Zenon DEF SubmittedWasPaid
    <2>1. p \in Requests /\ withdrawals'[p] # None /\ withdrawals'[p].status = "submitted"
      BY Zenon DEF SubmittedRequests, WithStatus
    <2>2. CASE p = r
      <3>1. withdrawals'[p] = new /\ s # None
        BY <1>1, <1>t, <2>1, <2>2, Zenon
      <3>2. \A q \in Requests \ {p} : withdrawals'[q] = withdrawals[q]
        BY <1>1, <1>t, <2>2, Zenon
      <3> QED
        BY <1>1, <3>1, <3>2 DEF CanSubmit, SignatureFree
    <2>3. CASE p # r
      <3>1. withdrawals'[p] = withdrawals[p] /\ p \in SubmittedRequests
        BY <1>1, <1>t, <2>1, <2>3, Zenon DEF SubmittedRequests, WithStatus
      <3>2. withdrawals[p].sig # s
        BY <1>1, <3>1, Zenon DEF CanSubmit, SignatureFree, SubmittedWasPaid, SubmittedRequests, WithStatus
      <3>3. withdrawals'[r].sig = s /\ \A q \in Requests \ {r} : withdrawals'[q] = withdrawals[q]
        BY <1>1, <1>t, Zenon
      <3> QED
        BY <3>1, <3>2, <3>3 DEF SubmittedWasPaid
    <2> QED
      BY <2>2, <2>3, Zenon
  <1> QED
    BY <1>3, <1>5, <1>6, <1>7, Zenon

\* Settling a request changes its status and signature only.
LEMMA SettleKeeps ==
    ASSUME NEW w, NEW status, NEW s, Settle(w, status, s) \in Withdrawal
    PROVE  /\ Settle(w, status, s) # None
           /\ Settle(w, status, s).dest = w.dest
           /\ Settle(w, status, s).cents = w.cents
  BY NoneAssumption, Zenon DEF Settle, Withdrawal

-----------------------------------------------------------------------------
(* The rest of the steps: handlers that resume after their await.          *)

\* Binding an address, an unsigned request, and a rejection.
LEMMA ImmediateStep == ASSUME IInv, Immediate PROVE IInv'
  <1> USE DEF IInv
  <1>1. CASE \E d \in Devices, address \in Addresses : bind_solana_address(d, address)
    <2>1. UNCHANGED <<withdrawals, call>>
      BY <1>1, Zenon DEF bind_solana_address
    <2>2. TypeOK'
      BY <1>1 DEF TypeOK, bind_solana_address, totals
    <2> QED
      BY <2>1, <2>2, PaidKept, CallsKept, Zenon
  <1>2. ASSUME NEW d \in Devices, NEW r \in Requests, NEW dest \in Addresses, NEW c \in Cents,
               withdraw_unsigned(d, r, dest, c)
        PROVE  IInv'
    <2>1. account_devices[d] \in Accounts \cup {None} /\ c \in Nat \ {0}
      BY AmountsAssumption, Zenon DEF TypeOK
    <2>2. /\ submit_account_withdrawal(account_devices[d], r, dest, c, None)
          /\ UNCHANGED <<account_devices, balances, deposits, call>>
      BY <1>2, Zenon DEF withdraw_unsigned
    <2>3. /\ WalletsTyped
          /\ withdrawals' \in [Requests -> Withdrawal \cup {None}]
          /\ DetailsKept
          /\ SubmittedWasPaid'
      BY <2>1, <2>2, SubmitStep, Zenon
    <2>4. TypeOK'
      BY <2>2, <2>3, Zenon DEF TypeOK, WalletsTyped
    <2> QED
      BY <2>2, <2>3, <2>4, CallsKept, Zenon
  <1>3. ASSUME NEW r \in Requests, reject_account_withdrawal(r)
        PROVE  IInv'
    <2> DEFINE w == withdrawals[r]
    <2>1. w \in Withdrawal /\ w.status = "pending"
      BY <1>3, Zenon DEF TypeOK, reject_account_withdrawal, CanReject
    <2>2. /\ w.account \in Accounts /\ w.cents \in Nat
          /\ credits_from_usdc_cents(w.cents) \in Int /\ "refund" \in RowTypes
      BY <2>1, CreditsInt DEF Withdrawal, RowTypes
    <2>3. /\ withdrawals' = [withdrawals EXCEPT ![r] = Settle(w, "rejected", w.sig)]
          /\ UNCHANGED <<account_devices, balances, deposits, call>>
          /\ UNCHANGED <<deposited_usdc_cents_total, withdrawn_usdc_cents_total, solana_address>>
          /\ Credit(w.account, credits_from_usdc_cents(w.cents))
          /\ usdc_cents' = [usdc_cents EXCEPT ![w.account] = @ + w.cents]
          /\ rows' = Row(rows, w.account, "refund", credits_from_usdc_cents(w.cents))
      BY <1>3, Zenon DEF reject_account_withdrawal, ReleaseReserve
    <2>4. Settle(w, "rejected", w.sig) \in Withdrawal
      BY <2>1, Zenon DEF Settle, Withdrawal
    <2>5. rows \in [Accounts -> [RowTypes -> Int]]
      BY Zenon DEF TypeOK
    <2>6. /\ balance_credits' \in [Accounts -> Int]
          /\ rows' \in [Accounts -> [RowTypes -> Int]]
      BY <2>2, <2>3, <2>5, CreditType, RowType, Zenon
    <2>7. TypeOK'
      <3>1. withdrawals' \in [Requests -> Withdrawal \cup {None}]
        BY <2>3, <2>4, Zenon DEF TypeOK
      <3>2. usdc_cents' \in [Accounts -> Int]
        BY <2>2, <2>3 DEF TypeOK
      <3> QED
        BY <2>3, <2>6, <3>1, <3>2, Zenon DEF TypeOK
    <2>8. DetailsKept
      BY <2>3, <2>4, SettleKeeps DEF DetailsKept, TypeOK
    <2>9. SubmittedWasPaid'
      <3>1. /\ withdrawals'[r].sig = withdrawals[r].sig
            /\ withdrawals'[r].status = "rejected"
            /\ withdrawals[r] # None
            /\ \A q \in Requests \ {r} : withdrawals'[q] = withdrawals[q]
        BY <1>3, <2>3 DEF TypeOK, Settle, reject_account_withdrawal, CanReject
      <3> QED
        BY <3>1 DEF SubmittedWasPaid, SubmittedRequests, WithStatus
    <2> QED
      BY <2>3, <2>7, <2>8, <2>9, CallsKept, Zenon
  <1> QED
    BY <1>1, <1>2, <1>3, Zenon DEF Immediate

\* A credited deposit keeps the wallet columns and the rows typed.
DepositTyped ==
    /\ balance_credits' \in [Accounts -> Int]
    /\ usdc_cents' \in [Accounts -> Int]
    /\ deposited_usdc_cents_total' \in [Accounts -> Nat]
    /\ withdrawn_usdc_cents_total' \in [Accounts -> Nat]
    /\ rows' \in [Accounts -> [RowTypes -> Int]]

\* Crediting a verified deposit, with its rows, keeps the wallet typed.
LEMMA DepositType ==
    ASSUME TypeOK, NEW a \in Accounts, NEW cents \in Nat, CreditDeposit(a, cents),
           rows' = DepositRows(a, cents)
    PROVE  DepositTyped
  <1>1. credits_from_usdc_cents(cents) \in Int /\ cents \in Int
    BY CreditsInt
  <1>2. balance_credits' \in [Accounts -> Int]
    BY <1>1, CreditType, Zenon DEF CreditDeposit
  <1>3. /\ usdc_cents' \in [Accounts -> Int]
        /\ deposited_usdc_cents_total' \in [Accounts -> Nat]
        /\ withdrawn_usdc_cents_total' \in [Accounts -> Nat]
    BY DEF CreditDeposit, TypeOK
  <1>4. rows' \in [Accounts -> [RowTypes -> Int]]
    <2> DEFINE moved == Row(rows, a, "moved", credits_from_usdc_cents(cents))
    <2>1. "moved" \in RowTypes /\ "usdc" \in RowTypes
      BY Zenon DEF RowTypes
    <2>2. rows \in [Accounts -> [RowTypes -> Int]]
      BY Zenon DEF TypeOK
    <2>3. moved \in [Accounts -> [RowTypes -> Int]]
      BY <1>1, <2>1, <2>2, RowType, Zenon
    <2>4. Row(moved, a, "usdc", cents) \in [Accounts -> [RowTypes -> Int]]
      BY <1>1, <2>1, <2>3, RowType, Zenon
    <2> QED
      BY <2>4, Zenon DEF DepositRows
  <1> QED
    BY <1>2, <1>3, <1>4, Zenon DEF DepositTyped

\* What a deposit is recorded as, and the columns of TypeOK but for the calls.
DepositRecord == [account : Accounts, address : Owners, cents : Int]

TablesTyped ==
    /\ account_devices \in [Devices -> Accounts \cup {None}]
    /\ balances \in [Devices -> Int]
    /\ balance_credits \in [Accounts -> Int]
    /\ usdc_cents \in [Accounts -> Int]
    /\ deposited_usdc_cents_total \in [Accounts -> Nat]
    /\ withdrawn_usdc_cents_total \in [Accounts -> Nat]
    /\ solana_address \in [Accounts -> Addresses \cup {None}]
    /\ deposits \in [Signatures -> DepositRecord \cup {None}]
    /\ withdrawals \in [Requests -> Withdrawal \cup {None}]
    /\ rows \in [Accounts -> [RowTypes -> Int]]

\* What a suspended handler holds is of its own kind, and was verified.
LEMMA CallFacts ==
    ASSUME IInv, NEW h \in Handlers
    PROVE  /\ TablesTyped
           /\ CallVerified(call[h])
           /\ call[h].op = "deposit_treasury" => call[h] \in DepositTreasuryCall
           /\ call[h].op = "deposit_intent" => call[h] \in DepositIntentCall
           /\ call[h].op = "withdraw" => call[h] \in WithdrawCall
           /\ call[h].op = "complete_withdrawal" => call[h] \in CompleteCall
  <1>1. TablesTyped /\ CallVerified(call[h])
    BY Zenon DEF IInv, TypeOK, CallsVerified, TablesTyped, DepositRecord
  <1>2. call[h] \in {Idle} \cup DepositTreasuryCall \cup DepositIntentCall
                    \cup WithdrawCall \cup CompleteCall
    BY Zenon DEF IInv, TypeOK
  <1> QED
    BY <1>1, <1>2
       DEF Idle, DepositTreasuryCall, DepositIntentCall, WithdrawCall, CompleteCall

\* A handler that resumes keeps the invariant when it keeps the tables typed,
\* the recorded requests and the submitted ones paid.
LEMMA Finished ==
    ASSUME IInv, NEW h \in Handlers, Resume(h), DetailsKept, SubmittedWasPaid', TablesTyped'
    PROVE  IInv'
  <1>1. TypeOK'
    <2>1. call' \in [Handlers -> {Idle} \cup DepositTreasuryCall \cup DepositIntentCall
                                        \cup WithdrawCall \cup CompleteCall]
      BY Zenon DEF IInv, TypeOK, Resume
    <2> QED
      BY <2>1, Zenon DEF TypeOK, TablesTyped, DepositRecord
  <1>2. TypeOK /\ CallsVerified
    BY Zenon DEF IInv
  <1>3. CallsVerified'
    BY <1>2, CallsKept, Zenon
  <1> QED
    BY <1>1, <1>3, Zenon DEF IInv

\* A handler dropped in its await, or answered with an error: nothing moves.
LEMMA AbandonStep ==
    ASSUME IInv, NEW h \in Handlers, Resume(h),
           UNCHANGED <<account_devices, balances, wallets, deposits, withdrawals, rows>>
    PROVE  IInv'
  <1>1. TablesTyped'
    <2>1. TablesTyped
      BY CallFacts, Zenon
    <2> QED
      BY <2>1, Zenon DEF TablesTyped, wallets, totals
  <1>2. SubmittedWasPaid' /\ DetailsKept
    <2>1. SubmittedWasPaid /\ UNCHANGED withdrawals
      BY Zenon DEF IInv
    <2> QED
      BY <2>1, PaidKept, Zenon
  <1> QED
    BY <1>1, <1>2, Finished, Zenon

\* withdraw, resumed: a signed request is recorded with the payment the
\* handler verified, or refused.
LEMMA WithdrawStep ==
    ASSUME IInv, NEW h \in Handlers, withdraw_verified(h) PROVE IInv'
  <1> DEFINE c == call[h]
             a == account_devices[c.device]
  <1>1. /\ Resume(h) /\ c.op = "withdraw"
        /\ UNCHANGED <<account_devices, balances, deposits>>
        /\ \/ submit_account_withdrawal(a, c.request, c.dest, c.cents, c.sig)
           \/ UNCHANGED <<wallets, withdrawals, rows>>
    BY Zenon DEF withdraw_verified
  <1>t. TablesTyped /\ c \in WithdrawCall /\ Pays(c.sig, c.dest, c.cents)
    BY <1>1, CallFacts, Zenon DEF CallVerified
  <1>2. CASE submit_account_withdrawal(a, c.request, c.dest, c.cents, c.sig)
    <2>1. /\ a \in Accounts \cup {None} /\ c.request \in Requests /\ c.dest \in Addresses
          /\ c.cents \in Nat \ {0} /\ c.sig \in Signatures \cup {None}
      BY <1>t, Zenon DEF WithdrawCall, TablesTyped
    <2>2. /\ WalletsTyped
          /\ withdrawals' \in [Requests -> Withdrawal \cup {None}]
          /\ DetailsKept
          /\ SubmittedWasPaid'
      BY <1>t, <1>2, <2>1, SubmitStep, Zenon
    <2>3. TablesTyped'
      BY <1>1, <1>t, <2>2, Zenon DEF TablesTyped, WalletsTyped
    <2> QED
      BY <1>1, <2>2, <2>3, Finished, Zenon
  <1>3. CASE UNCHANGED <<wallets, withdrawals, rows>>
    BY <1>1, <1>3, AbandonStep, Zenon
  <1> QED
    BY <1>1, <1>2, <1>3, Zenon

\* complete_withdrawal, resumed: the request is settled with the payment the
\* handler verified if it is still pending and the signature still unused.
LEMMA CompleteStep ==
    ASSUME IInv, NEW h \in Handlers, complete_account_withdrawal_from_treasury(h) PROVE IInv'
  <1> DEFINE c == call[h]
             w == withdrawals[c.request]
             new == Settle(w, "submitted", c.sig)
  <1>1. /\ Resume(h) /\ c.op = "complete_withdrawal"
        /\ UNCHANGED <<account_devices, balances, balance_credits, usdc_cents,
                       deposited_usdc_cents_total, solana_address, deposits>>
        /\ \/ /\ CanComplete(c.request, c.sig)
              /\ withdrawals' = [withdrawals EXCEPT ![c.request] = new]
              /\ Burn(w.account, w.cents)
           \/ UNCHANGED <<withdrawn_usdc_cents_total, withdrawals, rows>>
    BY Zenon DEF complete_account_withdrawal_from_treasury
  <1>t. /\ TablesTyped /\ TypeOK /\ SubmittedWasPaid
        /\ c.request \in Requests /\ c.sig \in Signatures
        /\ w # None /\ Pays(c.sig, w.dest, w.cents)
    BY <1>1, CallFacts, Zenon DEF CallVerified, CompleteCall, IInv
  <1>2. CASE UNCHANGED <<withdrawn_usdc_cents_total, withdrawals, rows>>
    BY <1>1, <1>2, AbandonStep, Zenon DEF wallets, totals
  <1>3. CASE /\ CanComplete(c.request, c.sig)
             /\ withdrawals' = [withdrawals EXCEPT ![c.request] = new]
             /\ Burn(w.account, w.cents)
    <2>1. w \in Withdrawal
      BY <1>t, Zenon DEF TablesTyped
    <2>2. new \in Withdrawal /\ w.account \in Accounts /\ w.cents \in Nat
      BY <1>t, <2>1, Zenon DEF Settle, Withdrawal
    <2>3. TablesTyped'
      <3>1. /\ withdrawn_usdc_cents_total' \in [Accounts -> Nat]
            /\ rows' \in [Accounts -> [RowTypes -> Int]]
        BY <1>t, <1>3, <2>2, BurnType, Zenon
      <3>2. withdrawals' \in [Requests -> Withdrawal \cup {None}]
        BY <1>t, <1>3, <2>2, Zenon DEF TablesTyped
      <3> QED
        BY <1>1, <1>t, <3>1, <3>2, Zenon DEF TablesTyped
    <2>4. /\ withdrawals'[c.request] = new
          /\ \A q \in Requests \ {c.request} : withdrawals'[q] = withdrawals[q]
      BY <1>t, <1>3, Zenon DEF TablesTyped
    <2>5. DetailsKept
      BY <2>2, <2>4, SettleKeeps DEF DetailsKept
    <2>6. SubmittedWasPaid'
      <3>1. new.sig = c.sig /\ new.dest = w.dest /\ new.cents = w.cents /\ c.sig # None
        BY <1>t, NoneAssumption, Zenon DEF Settle
      <3>2. \A q \in Requests : withdrawals[q] # None => withdrawals[q].sig # c.sig
        BY <1>3, Zenon DEF CanComplete, SignatureFree
      <3> SUFFICES ASSUME NEW r \in Requests, withdrawals'[r] # None,
                          withdrawals'[r].status = "submitted"
                   PROVE  /\ withdrawals'[r].sig # None
                          /\ Pays(withdrawals'[r].sig, withdrawals'[r].dest, withdrawals'[r].cents)
                          /\ \A q \in Requests \ {r} : withdrawals'[q] # None
                                => withdrawals'[q].sig # withdrawals'[r].sig
        BY DEF SubmittedWasPaid, SubmittedRequests, WithStatus, Pays
      <3>3. CASE r = c.request
        <4> HIDE DEF new, w
        <4>1. withdrawals'[r] = new
          BY <2>4, <3>3
        <4>2. Pays(new.sig, new.dest, new.cents)
          BY <1>t, <3>1, Zenon
        <4>3. \A q \in Requests \ {r} : withdrawals'[q] # None
                => withdrawals'[q].sig # c.sig
          BY <2>4, <3>2, <3>3
        <4> QED
          BY <3>1, <4>1, <4>2, <4>3, Zenon
      <3>4. CASE r # c.request
        <4>1. withdrawals'[r] = withdrawals[r]
          BY <2>4, <3>4
        <4>2. /\ withdrawals[r].sig # None
              /\ Pays(withdrawals[r].sig, withdrawals[r].dest, withdrawals[r].cents)
              /\ \A q \in Requests \ {r} : withdrawals[q] # None
                    => withdrawals[q].sig # withdrawals[r].sig
          BY <1>t, <4>1 DEF SubmittedWasPaid, SubmittedRequests, WithStatus
        <4>3. withdrawals[r].sig # c.sig
          BY <3>2, <4>1
        <4> QED
          BY <2>4, <3>1, <4>1, <4>2, <4>3
      <3> QED
        BY <3>3, <3>4
    <2> QED
      BY <1>1, <2>3, <2>5, <2>6, Finished, Zenon
  <1> QED
    BY <1>1, <1>2, <1>3, Zenon

\* A verified deposit, recorded once for its signature.
LEMMA DepositStep ==
    ASSUME IInv, NEW h \in Handlers, Resume(h), NEW a \in Accounts, NEW o \in Owners,
           NEW s \in Signatures, extract_verified_deposit(o, s),
           deposits' = [deposits EXCEPT ![s] =
              [account |-> a, address |-> o, cents |-> VerifiedCents(o, s)]],
           CreditDeposit(a, VerifiedCents(o, s)),
           rows' = DepositRows(a, VerifiedCents(o, s)),
           UNCHANGED <<account_devices, balances, withdrawals>>,
           solana_address' \in [Accounts -> Addresses \cup {None}]
    PROVE  IInv'
  <1> DEFINE cents == VerifiedCents(o, s)
             deposit == [account |-> a, address |-> o, cents |-> cents]
  <1>1. TablesTyped /\ TypeOK /\ SubmittedWasPaid
    BY CallFacts, Zenon DEF IInv
  <1>2. cents \in Nat
    BY VerifiedCentsNat, Zenon
  <1>3. DepositTyped
    <2> HIDE DEF cents
    <2> QED
      BY <1>1, <1>2, DepositType, Zenon DEF cents
  <1>4. deposits' \in [Signatures -> DepositRecord \cup {None}]
    <2>1. deposit \in DepositRecord
      BY <1>2 DEF DepositRecord
    <2> QED
      BY <1>1, <2>1, Zenon DEF TablesTyped
  <1>5. TablesTyped'
    BY <1>1, <1>3, <1>4, Zenon DEF TablesTyped, DepositTyped
  <1>6. SubmittedWasPaid' /\ DetailsKept
    BY <1>1, PaidKept, Zenon
  <1> QED
    BY <1>5, <1>6, Finished, Zenon

\* deposit_treasury, resumed.
LEMMA TreasuryDepositStep ==
    ASSUME IInv, NEW h \in Handlers, record_account_treasury_deposit(h) PROVE IInv'
  <1> DEFINE c == call[h]
             a == account_devices[c.device]
             cents == VerifiedCents(Treasury, c.sig)
  <1>1. /\ Resume(h) /\ c.op = "deposit_treasury"
        /\ UNCHANGED <<account_devices, balances, solana_address, withdrawals>>
        /\ \/ /\ a # None
              /\ deposits' = [deposits EXCEPT ![c.sig] =
                    [account |-> a, address |-> Treasury, cents |-> cents]]
              /\ CreditDeposit(a, cents)
              /\ rows' = DepositRows(a, cents)
           \/ UNCHANGED <<deposits, balance_credits, totals, rows>>
    BY Zenon DEF record_account_treasury_deposit
  <1>t. /\ TablesTyped /\ c.device \in Devices /\ c.sig \in Signatures
        /\ extract_verified_deposit(Treasury, c.sig) /\ Treasury \in Owners
    BY <1>1, CallFacts, Zenon DEF CallVerified, DepositTreasuryCall, Owners
  <1>2. CASE UNCHANGED <<deposits, balance_credits, totals, rows>>
    BY <1>1, <1>2, AbandonStep, Zenon DEF wallets
  <1>3. CASE /\ a # None
             /\ deposits' = [deposits EXCEPT ![c.sig] =
                   [account |-> a, address |-> Treasury, cents |-> cents]]
             /\ CreditDeposit(a, cents)
             /\ rows' = DepositRows(a, cents)
    <2>1. a \in Accounts /\ solana_address' \in [Accounts -> Addresses \cup {None}]
      BY <1>1, <1>t, <1>3, Zenon DEF TablesTyped
    <2> QED
      BY <1>1, <1>t, <1>3, <2>1, DepositStep, Zenon
  <1> QED
    BY <1>1, <1>2, <1>3, Zenon

\* deposit_intent, resumed: the address is bound with the deposit, or neither.
LEMMA IntentDepositStep ==
    ASSUME IInv, NEW h \in Handlers, record_account_onchain_deposit(h) PROVE IInv'
  <1> DEFINE c == call[h]
             a == account_devices[c.device]
             cents == VerifiedCents(c.address, c.sig)
             bound == [solana_address EXCEPT ![a] = c.address]
             deposit == [account |-> a, address |-> c.address, cents |-> cents]
  <1>1. /\ Resume(h) /\ c.op = "deposit_intent"
        /\ UNCHANGED <<account_devices, balances, withdrawals>>
        /\ \/ /\ a # None /\ solana_address' = bound
              /\ deposits' = [deposits EXCEPT ![c.sig] = deposit]
              /\ CreditDeposit(a, cents)
              /\ rows' = DepositRows(a, cents)
           \/ /\ a # None /\ solana_address' = bound
              /\ UNCHANGED <<deposits, balance_credits, totals, rows>>
           \/ UNCHANGED <<deposits, wallets, rows>>
    BY Zenon DEF record_account_onchain_deposit
  <1>t. /\ TablesTyped /\ c.device \in Devices /\ c.sig \in Signatures
        /\ c.address \in Addresses /\ c.address \in Owners
        /\ extract_verified_deposit(c.address, c.sig)
    BY <1>1, CallFacts, Zenon DEF CallVerified, DepositIntentCall, Owners
  <1>2. ASSUME a # None, solana_address' = bound
        PROVE  a \in Accounts /\ solana_address' \in [Accounts -> Addresses \cup {None}]
    BY <1>t, <1>2, Zenon DEF TablesTyped
  <1>3. CASE UNCHANGED <<deposits, wallets, rows>>
    BY <1>1, <1>3, AbandonStep, Zenon
  <1>4. CASE /\ a # None /\ solana_address' = bound
             /\ UNCHANGED <<deposits, balance_credits, totals, rows>>
    <2>1. TablesTyped'
      BY <1>1, <1>t, <1>2, <1>4, Zenon DEF TablesTyped, totals
    <2>2. SubmittedWasPaid' /\ DetailsKept
      <3>1. SubmittedWasPaid /\ UNCHANGED withdrawals
        BY <1>1, Zenon DEF IInv
      <3> QED
        BY <3>1, PaidKept, Zenon
    <2> QED
      BY <1>1, <2>1, <2>2, Finished, Zenon
  <1>5. CASE /\ a # None /\ solana_address' = bound
             /\ deposits' = [deposits EXCEPT ![c.sig] = deposit]
             /\ CreditDeposit(a, cents)
             /\ rows' = DepositRows(a, cents)
    BY <1>1, <1>t, <1>2, <1>5, DepositStep, Zenon
  <1> QED
    BY <1>1, <1>3, <1>4, <1>5, Zenon

\* A handler that resumes: it finds its call settled by another one, or
\* applies it to what the tables hold now.
LEMMA FinishStep == ASSUME IInv, NEW h \in Handlers, Finish(h) PROVE IInv'
  <1>1. CASE Abandon(h)
    BY <1>1, AbandonStep, Zenon DEF Abandon
  <1> QED
    BY <1>1, WithdrawStep, CompleteStep, TreasuryDepositStep, IntentDepositStep, Zenon DEF Finish

\* Every step of the wallet handlers keeps the invariant.
LEMMA NextIInv == IInv /\ [Next]_vars => IInv'
  <1> SUFFICES ASSUME IInv, [Next]_vars PROVE IInv'
    OBVIOUS
  <1>1. CASE UNCHANGED vars
    <2>1. UNCHANGED <<withdrawals, call>>
      BY <1>1, Zenon DEF vars
    <2>2. TypeOK'
      BY <1>1, Zenon DEF vars, IInv, TypeOK, wallets, totals
    <2> QED
      BY <2>1, <2>2, PaidKept, CallsKept, Zenon DEF IInv
  <1>2. CASE Next
    BY <1>2, OperatorsAssumption, LinksStep, ImmediateStep, BeginStep, FinishStep, Zenon DEF Next
  <1> QED
    BY <1>1, <1>2, Zenon

\* Type correctness of the account wallet tables in every reachable state,
\* whichever handlers interleave.
THEOREM TypeCorrect == Spec => []TypeOK
  <1>1. Init => IInv
    BY InitIInv, Zenon
  <1>2. IInv /\ [Next]_vars => IInv'
    BY NextIInv, Zenon
  <1>3. IInv => TypeOK
    BY Zenon DEF IInv
  <1> QED
    BY <1>1, <1>2, <1>3, PTL DEF Spec

\* A withdrawal marked submitted carries the signature of a transaction that
\* pays its destination its amount, and no two share it, although
\* verify_treasury_payout runs before complete_account_withdrawal_from_treasury
\* takes the lock and other handlers run in between.
THEOREM SubmittedPaid == Spec => []SubmittedWasPaid
  <1>1. Init => IInv
    BY InitIInv
  <1>2. IInv /\ [Next]_vars => IInv'
    BY NextIInv
  <1>3. IInv => SubmittedWasPaid
    BY Zenon DEF IInv
  <1> QED
    BY <1>1, <1>2, <1>3, PTL DEF Spec
=============================================================================
