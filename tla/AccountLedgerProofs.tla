-------------------------- MODULE AccountLedgerProofs --------------------------
(***************************************************************************)
(* The ledger of AccountOnchain adds up, and its handlers implement        *)
(* CreditEscrow, for every set of accounts, devices, requests, handlers    *)
(* and amounts, and every Solana history.                                  *)
(*                                                                         *)
(* Both follow from one lemma: every step is one of a few movements of     *)
(* money (NextMoney).  What a movement does to the sums over wallets,      *)
(* requests and deposits is the same whichever handler makes it.           *)
(***************************************************************************)
EXTENDS AccountOnchainProofs, AccountEscrow, SumLemmas

-----------------------------------------------------------------------------
(* Where the money goes: every step is one of five movements.              *)

\* How far an account's columns are from what its rows and totals say.
CreditGap(b) == balance_credits[b] - (rows[b]["moved"] + rows[b]["burn"])
UsdcGap(b) == usdc_cents[b] - (deposited_usdc_cents_total[b] - withdrawn_usdc_cents_total[b])
RowGap(b) == rows[b]["usdc"] - (deposited_usdc_cents_total[b] - withdrawn_usdc_cents_total[b])

GapsMove(a, credits, cents) ==
    \A b \in Accounts :
       /\ CreditGap(b)' = CreditGap(b) + (IF b = a THEN credits ELSE 0)
       /\ UsdcGap(b)' = UsdcGap(b) + (IF b = a THEN cents ELSE 0)
       /\ RowGap(b)' = RowGap(b)
GapsStay ==
    \A b \in Accounts : /\ CreditGap(b)' = CreditGap(b)
                        /\ UsdcGap(b)' = UsdcGap(b)
                        /\ RowGap(b)' = RowGap(b)

NoMoney == InWallets' = InWallets /\ GapsStay /\ UNCHANGED <<deposits, withdrawals>>

MoneyIn(s, deposit) ==
    /\ deposits[s] = None
    /\ deposits' = [deposits EXCEPT ![s] = deposit]
    /\ InWallets' = InWallets + credits_from_usdc_cents(deposit.cents)
    /\ GapsStay
    /\ UNCHANGED withdrawals

Recorded(r, w) ==
    /\ withdrawals' = [withdrawals EXCEPT ![r] = w]
    /\ UNCHANGED deposits

Held(r, w) ==
    /\ Recorded(r, w)
    /\ withdrawals[r] = None
    /\ w.status = "pending" /\ w.sig = None
    /\ InWallets' = InWallets - credits_from_usdc_cents(w.cents)
    /\ GapsMove(w.account, -credits_from_usdc_cents(w.cents), -w.cents)

HeldAndPaid(r, w) ==
    /\ Recorded(r, w)
    /\ withdrawals[r] = None
    /\ w.status = "submitted" /\ w.sig \in Signatures /\ SignatureFree(w.sig)
    /\ InWallets' = InWallets - credits_from_usdc_cents(w.cents)
    /\ GapsStay

\* The request was pending, and keeps its account and amount.
WasPending(r, w) ==
    /\ Recorded(r, w)
    /\ withdrawals[r] # None /\ withdrawals[r].status = "pending"
    /\ w.account = withdrawals[r].account /\ w.cents = withdrawals[r].cents
    /\ GapsMove(w.account, credits_from_usdc_cents(w.cents), w.cents)

PaidOut(r, w) ==
    /\ WasPending(r, w)
    /\ w.status = "submitted" /\ w.sig \in Signatures /\ SignatureFree(w.sig)
    /\ InWallets' = InWallets

GivenBack(r, w) ==
    /\ WasPending(r, w)
    /\ w.status = "rejected" /\ w.sig = withdrawals[r].sig
    /\ InWallets' = InWallets + credits_from_usdc_cents(w.cents)

DepositOf(s) == {d \in DepositRecord : d.cents \in {VerifiedCents(o, s) : o \in Owners}}

MoneyStep ==
    \/ NoMoney
    \/ \E s \in Signatures : \E d \in DepositOf(s) : MoneyIn(s, d)
    \/ \E r \in Requests, w \in Withdrawal :
          Held(r, w) \/ HeldAndPaid(r, w) \/ PaidOut(r, w) \/ GivenBack(r, w)

\* What the tables' types say of single cells.
CellsTyped ==
    /\ \A b \in Accounts : /\ balance_credits[b] \in Int /\ usdc_cents[b] \in Int
                           /\ deposited_usdc_cents_total[b] \in Int
                           /\ withdrawn_usdc_cents_total[b] \in Int
                           /\ \A t \in RowTypes : rows[b][t] \in Int
    /\ \A d \in Devices : balances[d] \in Int

\* Every cell of a typed table is an integer.
LEMMA Cells == TypeOK => CellsTyped
  BY DEF TypeOK, CellsTyped

\* The sums over the wallets are integers.
LEMMA WalletsInt ==
    ASSUME TypeOK
    PROVE  /\ SumFunctionOnSet(balance_credits, Accounts) \in Int
           /\ SumFunctionOnSet(balances, Devices) \in Int
  BY Cells, SumType, FiniteAssumption DEF CellsTyped

\* A column of the account wallets gains n for one account.
Adds(new, old, a, n) == \A b \in Accounts : new[b] = IF b = a THEN old[b] + n ELSE old[b]

\* The columns of one account gain these amounts.
ColumnsAdd(a, credits, cents, in, out) ==
    /\ Adds(balance_credits', balance_credits, a, credits)
    /\ Adds(usdc_cents', usdc_cents, a, cents)
    /\ Adds(deposited_usdc_cents_total', deposited_usdc_cents_total, a, in)
    /\ Adds(withdrawn_usdc_cents_total', withdrawn_usdc_cents_total, a, out)

\* The rows of one account gain these amounts, in the cells the properties read.
RowsAdd(a, moved, burn, usdc) ==
    \A b \in Accounts :
       /\ rows'[b]["moved"] = IF b = a THEN rows[b]["moved"] + moved ELSE rows[b]["moved"]
       /\ rows'[b]["burn"] = IF b = a THEN rows[b]["burn"] + burn ELSE rows[b]["burn"]
       /\ rows'[b]["usdc"] = IF b = a THEN rows[b]["usdc"] + usdc ELSE rows[b]["usdc"]

\* The types of rows the ledger sums are taken over are different.
LEMMA RowNames ==
    /\ "moved" \in RowTypes /\ "hold" \in RowTypes /\ "refund" \in RowTypes
    /\ "burn" \in RowTypes /\ "usdc" \in RowTypes
  BY DEF RowTypes

\* An assignment of the form column[a] += n adds n.
LEMMA ColumnAdds ==
    ASSUME NEW old, old \in [Accounts -> Int], NEW a \in Accounts, NEW n \in Int, NEW new
    PROVE  /\ new = [old EXCEPT ![a] = @ + n] => Adds(new, old, a, n)
           /\ new = [old EXCEPT ![a] = @ - n] => Adds(new, old, a, -n)
           /\ new = old => Adds(new, old, a, 0)
  <1>1. new = [old EXCEPT ![a] = @ + n] => Adds(new, old, a, n)
    BY DEF Adds
  <1>2. new = [old EXCEPT ![a] = @ - n] => Adds(new, old, a, -n)
    BY DEF Adds
  <1>3. new = old => Adds(new, old, a, 0)
    BY DEF Adds
  <1> QED
    BY <1>1, <1>2, <1>3

\* Credits put into, or taken from, an account's wallet change the credits in
\* all wallets as much.
LEMMA CreditSum ==
    ASSUME TypeOK, NEW a \in Accounts, NEW n \in Int, Credit(a, n)
    PROVE  /\ SumFunctionOnSet(balance_credits, Accounts)'
                = SumFunctionOnSet(balance_credits, Accounts) + n
           /\ Adds(balance_credits', balance_credits, a, n)
  <1>1. /\ balance_credits'[a] = balance_credits[a] + n
        /\ \A b \in Accounts \ {a} : balance_credits'[b] = balance_credits[b]
    BY DEF Credit, TypeOK
  <1>2. \A b \in Accounts : balance_credits[b] \in Int
    BY Cells DEF CellsTyped
  <1>3. balance_credits'[a] \in Int /\ IsFiniteSet(Accounts)
    BY <1>1, <1>2, FiniteAssumption
  <1>4. SumFunctionOnSet(balance_credits', Accounts)
          = SumFunctionOnSet(balance_credits, Accounts) - balance_credits[a] + balance_credits'[a]
    BY <1>1, <1>2, <1>3, SumUpdate
  <1>5. SumFunctionOnSet(balance_credits, Accounts)'
          = SumFunctionOnSet(balance_credits, Accounts) + n
    BY <1>1, <1>2, <1>4, WalletsInt
  <1>6. Adds(balance_credits', balance_credits, a, n)
    BY <1>1 DEF Adds
  <1> QED
    BY <1>5, <1>6

\* The same, for a step that assigns only that account's balance_credits.
LEMMA WalletCredit ==
    ASSUME TypeOK, NEW a \in Accounts, NEW n \in Int, Credit(a, n), UNCHANGED balances
    PROVE  /\ InWallets' = InWallets + n
           /\ Adds(balance_credits', balance_credits, a, n)
  <1> DEFINE A == SumFunctionOnSet(balance_credits, Accounts)
             B == SumFunctionOnSet(balances, Devices)
  <1>1. A' = A + n /\ Adds(balance_credits', balance_credits, a, n)
    BY CreditSum, Zenon
  <1>2. A \in Int /\ B \in Int /\ B' = B /\ InWallets = A + B /\ InWallets' = A' + B'
    BY WalletsInt, Zenon DEF InWallets
  <1> HIDE DEF A, B
  <1>3. InWallets' = InWallets + n
    BY <1>1, <1>2
  <1> QED
    BY <1>1, <1>3

\* The same for a device's wallet.
LEMMA BalanceSum ==
    ASSUME TypeOK, NEW d \in Devices, balances'[d] \in Int,
           \A b \in Devices \ {d} : balances'[b] = balances[b]
    PROVE  SumFunctionOnSet(balances, Devices)'
              = SumFunctionOnSet(balances, Devices) - balances[d] + balances'[d]
  <1>1. \A b \in Devices : balances[b] \in Int
    BY Cells DEF CellsTyped
  <1>2. IsFiniteSet(Devices)
    BY FiniteAssumption
  <1> QED
    BY <1>1, <1>2, SumUpdate

\* Credits sent from one account's wallet to another's stay in the sum.
LEMMA TransferSum ==
    ASSUME TypeOK, NEW a \in Accounts, NEW to \in Accounts, to # a, NEW n \in Int,
           balance_credits'[a] = balance_credits[a] - n,
           balance_credits'[to] = balance_credits[to] + n,
           \A b \in Accounts \ {a, to} : balance_credits'[b] = balance_credits[b]
    PROVE  SumFunctionOnSet(balance_credits, Accounts)'
              = SumFunctionOnSet(balance_credits, Accounts)
  <1> DEFINE paid == [b \in Accounts |-> IF b = a THEN balance_credits[a] - n
                                         ELSE balance_credits[b]]
  <1>1. /\ \A b \in Accounts : balance_credits[b] \in Int
        /\ IsFiniteSet(Accounts)
    BY Cells, FiniteAssumption DEF CellsTyped
  <1>2. /\ paid[a] = balance_credits[a] - n /\ paid[a] \in Int
        /\ \A b \in Accounts : paid[b] \in Int
        /\ paid[to] = balance_credits[to]
    BY <1>1
  <1>3. \A b \in Accounts \ {a} : paid[b] = balance_credits[b]
    OBVIOUS
  <1>4. \A b \in Accounts \ {to} : balance_credits'[b] = paid[b]
    OBVIOUS
  <1>5. balance_credits'[to] \in Int
    BY <1>1
  <1> HIDE DEF paid
  <1>6. SumFunctionOnSet(paid, Accounts)
          = SumFunctionOnSet(balance_credits, Accounts) - balance_credits[a] + paid[a]
    BY <1>1, <1>2, <1>3, SumUpdate
  <1>7. SumFunctionOnSet(balance_credits', Accounts)
          = SumFunctionOnSet(paid, Accounts) - paid[to] + balance_credits'[to]
    BY <1>1, <1>2, <1>4, <1>5, SumUpdate
  <1> QED
    BY <1>1, <1>2, <1>6, <1>7, WalletsInt

\* A row of one of the kinds that move credits adds its amount to them.
LEMMA RowMoved ==
    ASSUME TypeOK, NEW a \in Accounts, NEW n \in Int, rows' = Row(rows, a, "moved", n)
    PROVE  RowsAdd(a, n, 0, 0)
  <1> SUFFICES ASSUME NEW b \in Accounts
               PROVE  /\ rows'[b]["moved"] = IF b = a THEN rows[b]["moved"] + n ELSE rows[b]["moved"]
                      /\ rows'[b]["burn"] = rows[b]["burn"] /\ rows[b]["burn"] \in Int
                      /\ rows'[b]["usdc"] = rows[b]["usdc"] /\ rows[b]["usdc"] \in Int
    BY DEF RowsAdd
  <1> QED
    BY RowNames DEF TypeOK, Row

\* WITHDRAWAL_HOLD and its refund are rows of none of the sums.
LEMMA RowReserve ==
    ASSUME TypeOK, NEW a \in Accounts, NEW n \in Int, NEW type \in {"hold", "refund"},
           rows' = Row(rows, a, type, n)
    PROVE  RowsAdd(a, 0, 0, 0)
  <1> SUFFICES ASSUME NEW b \in Accounts
               PROVE  /\ rows'[b]["moved"] = rows[b]["moved"] /\ rows[b]["moved"] \in Int
                      /\ rows'[b]["burn"] = rows[b]["burn"] /\ rows[b]["burn"] \in Int
                      /\ rows'[b]["usdc"] = rows[b]["usdc"] /\ rows[b]["usdc"] \in Int
    BY DEF RowsAdd
  <1> QED
    BY RowNames DEF TypeOK, Row

\* A credit row and a usdc row.
LEMMA RowPair ==
    ASSUME TypeOK, NEW a \in Accounts, NEW n \in Int, NEW c \in Int
    PROVE  /\ rows' = Row(Row(rows, a, "moved", n), a, "usdc", c) => RowsAdd(a, n, 0, c)
           /\ rows' = Row(Row(rows, a, "burn", n), a, "usdc", c) => RowsAdd(a, 0, n, c)
  <1>1. ASSUME rows' = Row(Row(rows, a, "moved", n), a, "usdc", c)
        PROVE  RowsAdd(a, n, 0, c)
    <2> SUFFICES ASSUME NEW b \in Accounts
        PROVE  /\ rows'[b]["moved"] = IF b = a THEN rows[b]["moved"] + n ELSE rows[b]["moved"]
               /\ rows'[b]["burn"] = rows[b]["burn"] /\ rows[b]["burn"] \in Int
               /\ rows'[b]["usdc"] = IF b = a THEN rows[b]["usdc"] + c ELSE rows[b]["usdc"]
      BY DEF RowsAdd
    <2> QED
      BY <1>1, RowNames DEF TypeOK, Row
  <1>2. ASSUME rows' = Row(Row(rows, a, "burn", n), a, "usdc", c)
        PROVE  RowsAdd(a, 0, n, c)
    <2> SUFFICES ASSUME NEW b \in Accounts
        PROVE  /\ rows'[b]["burn"] = IF b = a THEN rows[b]["burn"] + n ELSE rows[b]["burn"]
               /\ rows'[b]["moved"] = rows[b]["moved"] /\ rows[b]["moved"] \in Int
               /\ rows'[b]["usdc"] = IF b = a THEN rows[b]["usdc"] + c ELSE rows[b]["usdc"]
      BY DEF RowsAdd
    <2> QED
      BY <1>2, RowNames DEF TypeOK, Row
  <1> QED
    BY <1>1, <1>2, Zenon

\* The rows, and the total, of a settled withdrawal.
LEMMA BurnAdds ==
    ASSUME TypeOK, NEW a \in Accounts, NEW c \in Int, Burn(a, c)
    PROVE  /\ RowsAdd(a, 0, -credits_from_usdc_cents(c), -c)
           /\ Adds(withdrawn_usdc_cents_total', withdrawn_usdc_cents_total, a, c)
  <1>1. -credits_from_usdc_cents(c) \in Int /\ -c \in Int
    BY CreditsInt
  <1>2. withdrawn_usdc_cents_total \in [Accounts -> Int]
    BY DEF TypeOK
  <1> QED
    BY <1>1, <1>2, RowPair, ColumnAdds, Zenon DEF Burn

\* The gaps move by what the columns and rows gain.
LEMMA GapsFollow ==
    ASSUME TypeOK, NEW a \in Accounts,
           NEW credits \in Int, NEW cents \in Int, NEW in \in Int, NEW out \in Int,
           ColumnsAdd(a, credits, cents, in, out),
           NEW moved \in Int, NEW burn \in Int, NEW usdc \in Int, RowsAdd(a, moved, burn, usdc),
           usdc = in - out
    PROVE  GapsMove(a, credits - moved - burn, cents - in + out)
  <1> DEFINE g == credits - moved - burn
             h == cents - in + out
  <1>1. ASSUME NEW b \in Accounts
        PROVE  CreditGap(b)' = CreditGap(b) + (IF b = a THEN g ELSE 0)
    <2>1. balance_credits[b] \in Int /\ rows[b]["moved"] \in Int /\ rows[b]["burn"] \in Int
      BY Cells, RowNames DEF CellsTyped
    <2>2. /\ balance_credits'[b] = IF b = a THEN balance_credits[b] + credits ELSE balance_credits[b]
          /\ rows'[b]["moved"] = IF b = a THEN rows[b]["moved"] + moved ELSE rows[b]["moved"]
          /\ rows'[b]["burn"] = IF b = a THEN rows[b]["burn"] + burn ELSE rows[b]["burn"]
      BY DEF ColumnsAdd, Adds, RowsAdd
    <2> QED
      BY <2>1, <2>2 DEF CreditGap
  <1>2. ASSUME NEW b \in Accounts
        PROVE  /\ UsdcGap(b)' = UsdcGap(b) + (IF b = a THEN h ELSE 0)
               /\ RowGap(b)' = RowGap(b)
    <2>1. /\ usdc_cents[b] \in Int /\ rows[b]["usdc"] \in Int
          /\ deposited_usdc_cents_total[b] \in Int /\ withdrawn_usdc_cents_total[b] \in Int
      BY Cells, RowNames DEF CellsTyped
    <2>2. /\ usdc_cents'[b] = IF b = a THEN usdc_cents[b] + cents ELSE usdc_cents[b]
          /\ deposited_usdc_cents_total'[b] = IF b = a THEN deposited_usdc_cents_total[b] + in
                                              ELSE deposited_usdc_cents_total[b]
          /\ withdrawn_usdc_cents_total'[b] = IF b = a THEN withdrawn_usdc_cents_total[b] + out
                                              ELSE withdrawn_usdc_cents_total[b]
          /\ rows'[b]["usdc"] = IF b = a THEN rows[b]["usdc"] + usdc ELSE rows[b]["usdc"]
      BY DEF ColumnsAdd, Adds, RowsAdd
    <2>3. UsdcGap(b)' = UsdcGap(b) + (IF b = a THEN h ELSE 0)
      BY <2>1, <2>2 DEF UsdcGap
    <2>4. RowGap(b)' = RowGap(b)
      BY <2>1, <2>2 DEF RowGap
    <2> QED
      BY <2>3, <2>4
  <1> QED
    BY <1>1, <1>2, Zenon DEF GapsMove

\* Gaps that move by nothing stay.
LEMMA GapsZero ==
    ASSUME TypeOK, NEW a \in Accounts, GapsMove(a, 0, 0)
    PROVE  GapsStay
  <1> SUFFICES ASSUME NEW b \in Accounts
               PROVE  /\ CreditGap(b)' = CreditGap(b)
                      /\ UsdcGap(b)' = UsdcGap(b)
                      /\ RowGap(b)' = RowGap(b)
    BY Zenon DEF GapsStay
  <1>1. /\ balance_credits[b] \in Int /\ usdc_cents[b] \in Int
        /\ deposited_usdc_cents_total[b] \in Int /\ withdrawn_usdc_cents_total[b] \in Int
        /\ rows[b]["moved"] \in Int /\ rows[b]["burn"] \in Int
    BY Cells, RowNames DEF CellsTyped
  <1>2. CreditGap(b) \in Int /\ UsdcGap(b) \in Int
    BY <1>1 DEF CreditGap, UsdcGap
  <1>3. /\ CreditGap(b)' = CreditGap(b) + 0 /\ UsdcGap(b)' = UsdcGap(b) + 0
        /\ RowGap(b)' = RowGap(b)
    BY DEF GapsMove
  <1> QED
    BY <1>2, <1>3

\* Columns that stay gain nothing.
LEMMA ColumnsStay ==
    ASSUME TypeOK, NEW a \in Accounts
    PROVE  /\ UNCHANGED usdc_cents => Adds(usdc_cents', usdc_cents, a, 0)
           /\ UNCHANGED balance_credits => Adds(balance_credits', balance_credits, a, 0)
           /\ UNCHANGED deposited_usdc_cents_total
                => Adds(deposited_usdc_cents_total', deposited_usdc_cents_total, a, 0)
           /\ UNCHANGED withdrawn_usdc_cents_total
                => Adds(withdrawn_usdc_cents_total', withdrawn_usdc_cents_total, a, 0)
  <1>1. /\ usdc_cents \in [Accounts -> Int] /\ balance_credits \in [Accounts -> Int]
        /\ deposited_usdc_cents_total \in [Accounts -> Int]
        /\ withdrawn_usdc_cents_total \in [Accounts -> Int] /\ 0 \in Int
    BY DEF TypeOK
  <1> QED
    BY <1>1, ColumnAdds, Zenon

\* A handler that only waits, or gives up, moves nothing.
LEMMA IdleMoney ==
    ASSUME UNCHANGED <<balances, balance_credits, totals, deposits, withdrawals, rows>>
    PROVE  NoMoney
  BY DEF NoMoney, InWallets, GapsStay, CreditGap, UsdcGap, RowGap, totals

\* Credits sent from one account to another, with a row on either side.
LEMMA TransferMoney ==
    ASSUME TypeOK, NEW a \in Accounts, NEW to \in Accounts, to # a, NEW n \in Int,
           balance_credits' = [balance_credits EXCEPT ![a] = @ - n, ![to] = @ + n],
           rows' = Row(Row(rows, a, "moved", -n), to, "moved", n),
           UNCHANGED <<balances, totals>>
    PROVE  InWallets' = InWallets /\ GapsStay
  <1>1. /\ balance_credits'[a] = balance_credits[a] - n
        /\ balance_credits'[to] = balance_credits[to] + n
        /\ \A b \in Accounts \ {a, to} : balance_credits'[b] = balance_credits[b]
    BY DEF TypeOK
  <1>2. ASSUME NEW b \in Accounts
        PROVE  /\ b = a => rows'[b]["moved"] = rows[b]["moved"] - n
               /\ b = to => rows'[b]["moved"] = rows[b]["moved"] + n
               /\ b \notin {a, to} => rows'[b]["moved"] = rows[b]["moved"]
               /\ rows'[b]["burn"] = rows[b]["burn"]
               /\ rows'[b]["usdc"] = rows[b]["usdc"]
    BY RowNames DEF TypeOK, Row
  <1>3. SumFunctionOnSet(balance_credits, Accounts)' = SumFunctionOnSet(balance_credits, Accounts)
    <2> TypeOK => \A b \in Accounts : balance_credits[b] \in Int
      BY Cells DEF CellsTyped
    <2> QED
      BY <1>1, TransferSum, Zenon
  <1>4. InWallets' = InWallets
    BY <1>3 DEF InWallets
  <1>5. ASSUME NEW b \in Accounts
        PROVE  CreditGap(b)' = CreditGap(b) /\ UsdcGap(b)' = UsdcGap(b) /\ RowGap(b)' = RowGap(b)
    <2>1. balance_credits[b] \in Int /\ rows[b]["moved"] \in Int /\ rows[b]["burn"] \in Int
      BY Cells, RowNames DEF CellsTyped
    <2> DEFINE new == balance_credits'
    <2>2. /\ b = a => new[b] = balance_credits[b] - n
          /\ b = to => new[b] = balance_credits[b] + n
          /\ b \notin {a, to} => new[b] = balance_credits[b]
      BY <1>1
    <2>3. UsdcGap(b)' = UsdcGap(b) /\ RowGap(b)' = RowGap(b)
      BY <1>2 DEF UsdcGap, RowGap, totals
    <2>4. CreditGap(b)' = CreditGap(b)
      <3>1. CreditGap(b)' = new[b] - (rows'[b]["moved"] + rows'[b]["burn"])
        BY Zenon DEF CreditGap
      <3>2. /\ b = a => rows'[b]["moved"] = rows[b]["moved"] - n
            /\ b = to => rows'[b]["moved"] = rows[b]["moved"] + n
            /\ b \notin {a, to} => rows'[b]["moved"] = rows[b]["moved"]
            /\ rows'[b]["burn"] = rows[b]["burn"]
        BY <1>2, Zenon
      <3> DEFINE moved == rows'[b]["moved"]
                 burn == rows'[b]["burn"]
      <3> HIDE DEF new, moved, burn
      <3>3. new[b] - (moved + burn) = balance_credits[b] - (rows[b]["moved"] + rows[b]["burn"])
        <4>1. /\ b = a => moved = rows[b]["moved"] - n
              /\ b = to => moved = rows[b]["moved"] + n
              /\ b \notin {a, to} => moved = rows[b]["moved"]
              /\ burn = rows[b]["burn"]
          BY <3>2, Zenon DEF moved, burn
        <4>2. CASE b = a
          BY <2>1, <2>2, <4>1, <4>2
        <4>3. CASE b = to
          BY <2>1, <2>2, <4>1, <4>3
        <4>4. CASE b \notin {a, to}
          BY <2>1, <2>2, <4>1, <4>4
        <4> QED
          BY <4>2, <4>3, <4>4
      <3> QED
        BY <3>1, <3>3, Zenon DEF CreditGap, moved, burn
    <2> QED
      BY <2>3, <2>4
  <1> QED
    BY <1>4, <1>5 DEF GapsStay

\* Links, sweeps and transfers move credits between wallets and no more.
LEMMA LinksMoney == ASSUME IInv, Links PROVE NoMoney
  <1>t. TypeOK
    BY DEF IInv
  <1>1. CASE \/ \E d \in Devices, a \in Accounts : link_device_to_account(d, a)
             \/ \E d, t \in Devices : remove_device_from_account(d, t)
    BY <1>1, IdleMoney, Zenon DEF link_device_to_account, remove_device_from_account, wallets
  <1>2. ASSUME NEW a \in Accounts, NEW n \in Int, NEW t \in Devices, NEW m \in Int, m = -n,
               Credit(a, m), rows' = Row(rows, a, "moved", m),
               balances'[t] = balances[t] + n, \A b \in Devices \ {t} : balances'[b] = balances[b],
               UNCHANGED <<deposits, withdrawals, totals>>
        PROVE  NoMoney
    <2>1. SumFunctionOnSet(balances, Devices)' = SumFunctionOnSet(balances, Devices) + n
      <3>1. balances[t] \in Int /\ balances'[t] \in Int
        BY <1>t, <1>2, Cells DEF CellsTyped
      <3> QED
        BY <1>t, <1>2, <3>1, BalanceSum, WalletsInt
    <2>2. /\ SumFunctionOnSet(balance_credits, Accounts)'
                = SumFunctionOnSet(balance_credits, Accounts) + m
          /\ Adds(balance_credits', balance_credits, a, m)
      BY <1>t, <1>2, CreditSum, Zenon
    <2>3. InWallets' = InWallets
      BY <1>t, <1>2, <2>1, <2>2, WalletsInt DEF InWallets
    <2>4. RowsAdd(a, m, 0, 0)
      BY <1>t, <1>2, RowMoved, Zenon
    <2>5. ColumnsAdd(a, m, 0, 0, 0)
      BY <1>t, <1>2, <2>2, ColumnsStay, Zenon DEF totals, ColumnsAdd
    <2>6. 0 \in Int /\ 0 = 0 - 0 /\ 0 = m - m - 0 /\ 0 = 0 - 0 + 0
      BY <1>2
    <2>7. GapsStay
      <3>1. GapsMove(a, m - m - 0, 0 - 0 + 0)
        BY <1>t, <1>2, <2>4, <2>5, <2>6, GapsFollow, Zenon
      <3>2. GapsMove(a, 0, 0)
        BY <2>6, <3>1, Zenon
      <3> QED
        BY <1>t, <3>2, GapsZero, Zenon
    <2> QED
      BY <1>2, <2>3, <2>7, Zenon DEF NoMoney
  <1>3. ASSUME NEW d \in Devices, NEW t \in Devices, sweep_device_to_account(d, t)
        PROVE  NoMoney
    <2> DEFINE a == account_devices[d]
               n == balances[t]
    <2>1. a \in Accounts /\ n \in Int /\ -n \in Int /\ n = -(-n)
      BY <1>t, <1>3 DEF TypeOK, sweep_device_to_account
    <2>2. /\ Credit(a, n) /\ rows' = Row(rows, a, "moved", n)
          /\ balances' = [balances EXCEPT ![t] = 0]
          /\ UNCHANGED <<deposits, withdrawals, totals>>
      BY <1>3, Zenon DEF sweep_device_to_account
    <2>3. /\ balances'[t] = balances[t] + (-n)
          /\ \A b \in Devices \ {t} : balances'[b] = balances[b]
      <3>1. balances'[t] = 0 /\ \A b \in Devices \ {t} : balances'[b] = balances[b]
        BY <1>t, <2>2 DEF TypeOK
      <3>2. 0 = n + (-n)
        <4> HIDE DEF n
        <4> QED BY <2>1
      <3> QED
        BY <3>1, <3>2, Zenon
    <2> HIDE DEF a, n
    <2> QED
      BY <1>2, <2>1, <2>2, <2>3, Zenon
  <1>4. ASSUME NEW a \in Accounts, NEW to \in Accounts \cup Devices,
               NEW n \in TransferAmounts,
               transfer_from_account_wallet_for_account(a, to, n)
        PROVE  NoMoney
    <2>1. n \in Int /\ -n \in Int /\ to # a
      BY <1>4, AmountsAssumption DEF transfer_from_account_wallet_for_account, CanSend
    <2>2. UNCHANGED <<deposits, withdrawals, totals>>
      BY <1>4, Zenon DEF transfer_from_account_wallet_for_account
    <2>3. CASE /\ to \in Devices /\ Credit(a, -n) /\ rows' = Row(rows, a, "moved", -n)
               /\ balances' = [balances EXCEPT ![to] = @ + n]
      <3>1. /\ to \in Devices /\ balances'[to] = balances[to] + n
            /\ \A b \in Devices \ {to} : balances'[b] = balances[b]
        BY <1>t, <2>1, <2>3 DEF TypeOK
      <3> QED
        BY <1>2, <2>1, <2>2, <2>3, <3>1, Zenon
    <2>4. CASE /\ to \in Accounts
               /\ balance_credits' = [balance_credits EXCEPT ![a] = @ - n, ![to] = @ + n]
               /\ rows' = Row(Row(rows, a, "moved", -n), to, "moved", n)
               /\ UNCHANGED balances
      <3>1. InWallets' = InWallets /\ GapsStay
        BY <1>t, <2>1, <2>2, <2>4, TransferMoney, Zenon
      <3> QED
        BY <2>2, <3>1, Zenon DEF NoMoney
    <2> QED
      BY <1>4, <2>3, <2>4, Zenon DEF transfer_from_account_wallet_for_account
  <1> QED
    BY <1>1, <1>3, <1>4, Zenon DEF Links

\* A credited deposit: the wallet gains what the rows and totals say.
LEMMA DepositMoney ==
    ASSUME IInv, NEW a \in Accounts, NEW o \in Owners, NEW s \in Signatures,
           extract_verified_deposit(o, s), deposits[s] = None,
           deposits' = [deposits EXCEPT ![s] =
              [account |-> a, address |-> o, cents |-> VerifiedCents(o, s)]],
           CreditDeposit(a, VerifiedCents(o, s)),
           rows' = DepositRows(a, VerifiedCents(o, s)),
           UNCHANGED <<balances, withdrawals>>
    PROVE  \E d \in DepositOf(s) : MoneyIn(s, d)
  <1> DEFINE c == VerifiedCents(o, s)
             C == credits_from_usdc_cents(c)
             d == [account |-> a, address |-> o, cents |-> c]
  <1>1. c \in Int /\ C \in Int /\ 0 \in Int
    BY VerifiedCentsNat, CreditsInt
  <1>2. d \in DepositOf(s) /\ d.cents = c
    BY <1>1 DEF DepositOf, DepositRecord
  <1>3. TypeOK /\ CreditDeposit(a, c) /\ rows' = DepositRows(a, c)
    BY Zenon DEF IInv
  <1>4. MoneyIn(s, d) <=> InWallets' = InWallets + C /\ GapsStay
    BY <1>2, Zenon DEF MoneyIn
  <1> HIDE DEF c, C, d
  <1>5. /\ Credit(a, C)
        /\ usdc_cents' = [usdc_cents EXCEPT ![a] = @ + c]
        /\ deposited_usdc_cents_total' = [deposited_usdc_cents_total EXCEPT ![a] = @ + c]
        /\ UNCHANGED withdrawn_usdc_cents_total
        /\ rows' = Row(Row(rows, a, "moved", C), a, "usdc", c)
    BY <1>3, Zenon DEF CreditDeposit, DepositRows, C
  <1>6. InWallets' = InWallets + C /\ Adds(balance_credits', balance_credits, a, C)
    BY <1>1, <1>3, <1>5, WalletCredit, Zenon
  <1>7. ColumnsAdd(a, C, c, c, 0)
    <2>1. /\ usdc_cents \in [Accounts -> Int] /\ deposited_usdc_cents_total \in [Accounts -> Int]
          /\ withdrawn_usdc_cents_total \in [Accounts -> Int]
      BY <1>3 DEF TypeOK
    <2> QED
      BY <1>1, <1>5, <1>6, <2>1, ColumnAdds, Zenon DEF ColumnsAdd
  <1>8. RowsAdd(a, C, 0, c)
    BY <1>1, <1>3, <1>5, RowPair, Zenon
  <1>9. c = c - 0 /\ 0 = C - C - 0 /\ 0 = c - c + 0
    BY <1>1
  <1>10. GapsMove(a, C - C - 0, c - c + 0)
    BY <1>1, <1>3, <1>7, <1>8, <1>9, GapsFollow, Zenon
  <1>11. GapsStay
    <2>1. GapsMove(a, 0, 0)
      BY <1>9, <1>10, Zenon
    <2> QED
      BY <1>3, <2>1, GapsZero, Zenon
  <1> QED
    BY <1>2, <1>4, <1>6, <1>11, Zenon

\* submit_account_withdrawal holds, holds and pays, or pays what it held.
LEMMA SubmitMoney ==
    ASSUME IInv, NEW a \in Accounts \cup {None}, NEW r \in Requests, NEW dest \in Addresses,
           NEW c \in Nat \ {0}, NEW s \in Signatures \cup {None},
           submit_account_withdrawal(a, r, dest, c, s), UNCHANGED <<balances, deposits>>
    PROVE  \E w \in Withdrawal : Held(r, w) \/ HeldAndPaid(r, w) \/ PaidOut(r, w)
  <1> DEFINE w == [account |-> a, dest |-> dest, cents |-> c,
                   status |-> IF s # None THEN "submitted" ELSE "pending", sig |-> s]
             C == credits_from_usdc_cents(c)
  <1>1. /\ CanSubmit(a, r, dest, c, s) /\ a \in Accounts /\ TypeOK
        /\ withdrawals' = [withdrawals EXCEPT ![r] = w]
        /\ UNCHANGED deposited_usdc_cents_total
    BY Zenon DEF submit_account_withdrawal, CanSubmit, IInv
  <1>2. /\ w \in Withdrawal /\ w.account = a /\ w.cents = c /\ w.sig = s
        /\ s = None => w.status = "pending"
        /\ s # None => w.status = "submitted" /\ s \in Signatures
    BY <1>1 DEF Withdrawal
  <1>3. s # None => SignatureFree(s)
    BY <1>1, Zenon DEF CanSubmit
  <1>4. c \in Int /\ -c \in Int /\ C \in Int /\ -C \in Int /\ 0 \in Int
    BY CreditsInt
  <1>5. Recorded(r, w)
    BY <1>1, Zenon DEF Recorded
  <1>6. s # None => Burn(a, c)
    BY Zenon DEF submit_account_withdrawal
  <1>7. s # None => /\ RowsAdd(a, 0, -C, -c)
                    /\ Adds(withdrawn_usdc_cents_total', withdrawn_usdc_cents_total, a, c)
    BY <1>1, <1>4, <1>6, BurnAdds, Zenon
  <1>8. Adds(deposited_usdc_cents_total', deposited_usdc_cents_total, a, 0)
    BY <1>1, ColumnsStay, Zenon
  <1>9. CASE withdrawals[r] = None
    <2>1. Credit(a, -C) /\ usdc_cents' = [usdc_cents EXCEPT ![a] = @ - c]
      BY <1>9, Zenon DEF submit_account_withdrawal, WasReserved
    <2>2. InWallets' = InWallets + (-C) /\ Adds(balance_credits', balance_credits, a, -C)
      BY <1>1, <1>4, <2>1, WalletCredit, Zenon
    <2>3. InWallets' = InWallets - C
      <3>1. InWallets \in Int
        BY <1>1, WalletsInt DEF InWallets
      <3> HIDE DEF C
      <3> QED
        BY <1>4, <2>2, <3>1
    <2>4. Adds(usdc_cents', usdc_cents, a, -c)
      <3>1. usdc_cents \in [Accounts -> Int]
        BY <1>1, Zenon DEF TypeOK
      <3> QED
        BY <1>1, <1>4, <2>1, <3>1, ColumnAdds, Zenon
    <2>5. CASE s = None
      <3>1. rows' = Row(rows, a, "hold", -C) /\ UNCHANGED withdrawn_usdc_cents_total
        BY <2>5, Zenon DEF submit_account_withdrawal
      <3>2. RowsAdd(a, 0, 0, 0)
        BY <1>1, <1>4, <3>1, RowReserve, Zenon
      <3>3. ColumnsAdd(a, -C, -c, 0, 0)
        BY <1>1, <1>8, <2>2, <2>4, <3>1, ColumnsStay, Zenon DEF ColumnsAdd
      <3>4. 0 = 0 - 0 /\ -C = -C - 0 - 0 /\ -c = -c - 0 + 0
        <4> HIDE DEF C
        <4> QED BY <1>4
      <3>5. GapsMove(a, -C - 0 - 0, -c - 0 + 0)
        BY <1>1, <1>4, <3>2, <3>3, <3>4, GapsFollow, Zenon
      <3>6. GapsMove(a, -C, -c)
        BY <3>4, <3>5, Zenon
      <3> HIDE DEF w
      <3>7. Held(r, w)
        BY <1>2, <1>5, <1>9, <2>3, <2>5, <3>6, Zenon DEF Held
      <3> QED
        BY <1>2, <3>7, Zenon
    <2>6. CASE s # None
      <3>1. ColumnsAdd(a, -C, -c, 0, c)
        BY <1>7, <1>8, <2>2, <2>4, <2>6, Zenon DEF ColumnsAdd
      <3>2. -c = 0 - c /\ 0 = -C - 0 - (-C) /\ 0 = -c - 0 + c
        <4> HIDE DEF C
        <4> QED BY <1>4
      <3>3. GapsMove(a, -C - 0 - (-C), -c - 0 + c)
        BY <1>1, <1>4, <1>7, <2>6, <3>1, <3>2, GapsFollow, Zenon
      <3>4. GapsStay
        <4>1. GapsMove(a, 0, 0)
          BY <3>2, <3>3, Zenon
        <4> QED
          BY <1>1, <4>1, GapsZero, Zenon
      <3> HIDE DEF w
      <3>5. HeldAndPaid(r, w)
        BY <1>2, <1>3, <1>5, <1>9, <2>3, <2>6, <3>4, Zenon DEF HeldAndPaid
      <3> QED
        BY <1>2, <3>5, Zenon
    <2> QED
      BY <2>5, <2>6
  <1>10. CASE withdrawals[r] # None
    <2>1. /\ withdrawals[r] = [account |-> a, dest |-> dest, cents |-> c,
                               status |-> "pending", sig |-> None]
          /\ s # None
      BY <1>1, <1>10, Zenon DEF CanSubmit
    <2>2. withdrawals[r].status = "pending" /\ withdrawals[r].account = a /\ withdrawals[r].cents = c
      <3> DEFINE old == [account |-> a, dest |-> dest, cents |-> c, status |-> "pending",
                         sig |-> None]
      <3>1. old.status = "pending" /\ old.account = a /\ old.cents = c
        BY Zenon
      <3>2. withdrawals[r] = old
        BY <2>1, Zenon
      <3> HIDE DEF old
      <3> QED
        BY <3>1, <3>2, Zenon
    <2>3. UNCHANGED <<balance_credits, usdc_cents>>
      BY <1>10, <2>2, Zenon DEF submit_account_withdrawal, WasReserved
    <2>4. InWallets' = InWallets
      BY <2>3, Zenon DEF InWallets
    <2>5. ColumnsAdd(a, 0, 0, 0, c)
      BY <1>1, <1>7, <1>8, <2>1, <2>3, ColumnsStay, Zenon DEF ColumnsAdd
    <2>6. -c = 0 - c /\ C = 0 - 0 - (-C) /\ c = 0 - 0 + c
      <3> HIDE DEF C
      <3> QED BY <1>4
    <2>7. GapsMove(a, 0 - 0 - (-C), 0 - 0 + c)
      BY <1>1, <1>4, <1>7, <2>1, <2>5, <2>6, GapsFollow, Zenon
    <2>8. GapsMove(a, C, c)
      BY <2>6, <2>7, Zenon
    <2> HIDE DEF w
    <2>9. PaidOut(r, w)
      BY <1>2, <1>3, <1>5, <1>10, <2>1, <2>2, <2>4, <2>8, Zenon DEF PaidOut, WasPending
    <2> QED
      BY <1>2, <2>9, Zenon
  <1> QED
    BY <1>9, <1>10

\* reject_account_withdrawal gives back what the request held.
LEMMA RejectMoney ==
    ASSUME IInv, NEW r \in Requests, reject_account_withdrawal(r)
    PROVE  \E w \in Withdrawal : GivenBack(r, w)
  <1> DEFINE old == withdrawals[r]
             w == Settle(old, "rejected", old.sig)
             a == old.account
             c == old.cents
             C == credits_from_usdc_cents(c)
  <1>1. /\ old \in Withdrawal /\ old # None /\ old.status = "pending" /\ TypeOK
        /\ withdrawals' = [withdrawals EXCEPT ![r] = w]
        /\ UNCHANGED <<balances, deposits, deposited_usdc_cents_total, withdrawn_usdc_cents_total>>
        /\ Credit(a, C)
        /\ usdc_cents' = [usdc_cents EXCEPT ![a] = @ + c]
        /\ rows' = Row(rows, a, "refund", C)
    BY Zenon DEF IInv, TypeOK, reject_account_withdrawal, CanReject, ReleaseReserve
  <1>2. /\ w.account = a /\ w.cents = c /\ w.sig = old.sig /\ w.status = "rejected"
        /\ w = [account |-> a, dest |-> old.dest, cents |-> c, status |-> "rejected",
                sig |-> old.sig]
    BY Zenon DEF Settle
  <1>3. /\ w \in Withdrawal /\ a \in Accounts /\ c \in Int
    <2>1. w \in Withdrawal /\ a \in Accounts /\ c \in Nat \ {0}
      BY <1>1, Zenon DEF Settle, Withdrawal
    <2> HIDE DEF w, a, c
    <2> QED
      BY <2>1
  <1>4. C \in Int /\ 0 \in Int
    <2> HIDE DEF c
    <2> QED
      BY <1>3, CreditsInt
  <1>5. Recorded(r, w)
    BY <1>1, Zenon DEF Recorded
  <1> HIDE DEF w, a, c, C
  <1>6. InWallets' = InWallets + C /\ Adds(balance_credits', balance_credits, a, C)
    BY <1>1, <1>3, <1>4, WalletCredit, Zenon
  <1>7. ColumnsAdd(a, C, c, 0, 0)
    <2>1. usdc_cents \in [Accounts -> Int]
      BY <1>1, Zenon DEF TypeOK
    <2> QED
      BY <1>1, <1>3, <1>6, <2>1, ColumnAdds, ColumnsStay, Zenon DEF ColumnsAdd
  <1>8. RowsAdd(a, 0, 0, 0)
    BY <1>1, <1>3, <1>4, RowReserve, Zenon
  <1>9. 0 = 0 - 0 /\ C = C - 0 - 0 /\ c = c - 0 + 0
    BY <1>3, <1>4
  <1>10. GapsMove(a, C - 0 - 0, c - 0 + 0)
    BY <1>1, <1>3, <1>4, <1>7, <1>8, <1>9, GapsFollow, Zenon
  <1>11. GapsMove(a, C, c)
    BY <1>9, <1>10, Zenon
  <1>12. WasPending(r, w)
    BY <1>1, <1>2, <1>5, <1>11, Zenon DEF WasPending, a, c, C
  <1>13. GivenBack(r, w)
    BY <1>2, <1>6, <1>12, Zenon DEF GivenBack, C
  <1> QED
    BY <1>3, <1>13, Zenon

\* complete_account_withdrawal_from_treasury pays what the request held.
LEMMA CompleteMoney ==
    ASSUME IInv, NEW h \in Handlers, complete_account_withdrawal_from_treasury(h)
    PROVE  NoMoney \/ \E r \in Requests, w \in Withdrawal : PaidOut(r, w)
  <1> DEFINE k == call[h]
             r == k.request
             old == withdrawals[r]
             w == Settle(old, "submitted", k.sig)
             a == old.account
             c == old.cents
             C == credits_from_usdc_cents(c)
  <1>1. /\ k.op = "complete_withdrawal"
        /\ UNCHANGED <<balances, balance_credits, usdc_cents, deposited_usdc_cents_total, deposits>>
        /\ \/ /\ CanComplete(r, k.sig)
              /\ withdrawals' = [withdrawals EXCEPT ![r] = w]
              /\ Burn(a, c)
           \/ UNCHANGED <<withdrawn_usdc_cents_total, withdrawals, rows>>
    BY Zenon DEF complete_account_withdrawal_from_treasury
  <1>2. /\ TablesTyped /\ TypeOK /\ r \in Requests /\ k.sig \in Signatures /\ old # None
    BY <1>1, CallFacts, Zenon DEF CallVerified, CompleteCall, IInv
  <1>3. CASE UNCHANGED <<withdrawn_usdc_cents_total, withdrawals, rows>>
    BY <1>1, <1>3, IdleMoney, Zenon DEF totals
  <1>4. CASE /\ CanComplete(r, k.sig)
             /\ withdrawals' = [withdrawals EXCEPT ![r] = w]
             /\ Burn(a, c)
    <2>1. old \in Withdrawal /\ old.status = "pending" /\ SignatureFree(k.sig)
      BY <1>2, <1>4, Zenon DEF TablesTyped, CanComplete
    <2>2. /\ w.account = a /\ w.cents = c /\ w.sig = k.sig /\ w.status = "submitted"
          /\ w = [account |-> a, dest |-> old.dest, cents |-> c, status |-> "submitted",
                  sig |-> k.sig]
      BY Zenon DEF Settle
    <2>3. Recorded(r, w)
      BY <1>1, <1>4, Zenon DEF Recorded
    <2>4. /\ old.account \in Accounts /\ old.cents \in Nat \ {0} /\ old.dest \in Addresses
      BY <2>1, Zenon DEF Withdrawal
    <2>5. InWallets' = InWallets
      BY <1>1, Zenon DEF InWallets
    <2>6. w \in Withdrawal
      BY <1>2, <2>1, Zenon DEF Settle, Withdrawal
    <2>7. C \in Int /\ -C \in Int /\ 0 \in Int /\ c \in Int /\ -c \in Int /\ a \in Accounts
      <3> HIDE DEF old
      <3>1. c \in Nat \ {0} /\ a \in Accounts
        BY <2>4, Zenon
      <3> HIDE DEF a, c
      <3> QED
        BY <3>1, CreditsInt
    <2> HIDE DEF w, a, c, r, C
    <2>8. /\ RowsAdd(a, 0, -C, -c)
          /\ Adds(withdrawn_usdc_cents_total', withdrawn_usdc_cents_total, a, c)
      BY <1>2, <1>4, <2>7, BurnAdds, Zenon DEF C
    <2>9. ColumnsAdd(a, 0, 0, 0, c)
      BY <1>1, <1>2, <2>7, <2>8, ColumnsStay, Zenon DEF ColumnsAdd
    <2>10. -c = 0 - c /\ C = 0 - 0 - (-C) /\ c = 0 - 0 + c
      BY <2>7
    <2>11. GapsMove(a, 0 - 0 - (-C), 0 - 0 + c)
      BY <1>2, <2>7, <2>8, <2>9, <2>10, GapsFollow, Zenon
    <2>12. GapsMove(a, C, c)
      BY <2>10, <2>11, Zenon
    <2>13. WasPending(r, w)
      BY <1>2, <2>1, <2>2, <2>3, <2>12, Zenon DEF WasPending, a, c, C
    <2>14. PaidOut(r, w)
      BY <1>2, <2>1, <2>2, <2>5, <2>13, Zenon DEF PaidOut
    <2> QED
      BY <1>2, <2>6, <2>14, Zenon
  <1> QED
    BY <1>1, <1>3, <1>4, Zenon

\* Every step of the handlers is one of the movements.
LEMMA NextMoney == ASSUME IInv, [Next]_vars PROVE MoneyStep
  <1>1. CASE UNCHANGED vars
    BY <1>1, IdleMoney, Zenon DEF vars, wallets, totals, MoneyStep
  <1>2. CASE Links
    BY <1>2, LinksMoney, Zenon DEF MoneyStep
  <1>3. CASE Immediate
    <2>1. CASE \E d \in Devices, address \in Addresses : bind_solana_address(d, address)
      BY <2>1, IdleMoney, Zenon DEF bind_solana_address, totals, MoneyStep
    <2>2. ASSUME NEW d \in Devices, NEW r \in Requests, NEW dest \in Addresses, NEW c \in Cents,
                 withdraw_unsigned(d, r, dest, c)
          PROVE  MoneyStep
      <3>1. account_devices[d] \in Accounts \cup {None} /\ c \in Nat \ {0}
        BY AmountsAssumption, Zenon DEF IInv, TypeOK
      <3>2. /\ submit_account_withdrawal(account_devices[d], r, dest, c, None)
            /\ UNCHANGED <<balances, deposits>> /\ None \in Signatures \cup {None}
        BY <2>2, Zenon DEF withdraw_unsigned
      <3> QED
        BY <3>1, <3>2, SubmitMoney, Zenon DEF MoneyStep
    <2>3. ASSUME NEW r \in Requests, reject_account_withdrawal(r)
          PROVE  MoneyStep
      BY <2>3, RejectMoney, Zenon DEF MoneyStep
    <2> QED
      BY <1>3, <2>1, <2>2, <2>3, Zenon DEF Immediate
  <1>4. ASSUME NEW h \in Handlers,
               Begin(h) \/ \E r \in Requests, s \in Signatures : complete_withdrawal(h, r, s)
        PROVE  MoneyStep
    <2>1. UNCHANGED <<balances, balance_credits, totals, deposits, withdrawals, rows>>
      <3>1. ASSUME NEW d \in Devices, NEW s \in Signatures, deposit_treasury(h, d, s)
            PROVE  UNCHANGED <<balances, wallets, deposits, withdrawals, rows>>
        BY <3>1, Zenon DEF deposit_treasury
      <3>2. ASSUME NEW d \in Devices, NEW s \in Signatures, NEW address \in Addresses,
                   deposit_intent(h, d, address, s)
            PROVE  UNCHANGED <<balances, wallets, deposits, withdrawals, rows>>
        BY <3>2, Zenon DEF deposit_intent
      <3>3. ASSUME NEW d \in Devices, NEW s \in Signatures, NEW r \in Requests,
                   NEW dest \in Addresses, NEW c \in Cents, withdraw(h, d, r, dest, c, s)
            PROVE  UNCHANGED <<balances, wallets, deposits, withdrawals, rows>>
        BY <3>3, Zenon DEF withdraw
      <3>4. ASSUME NEW r \in Requests, NEW s \in Signatures, complete_withdrawal(h, r, s)
            PROVE  UNCHANGED <<balances, wallets, deposits, withdrawals, rows>>
        BY <3>4, Zenon DEF complete_withdrawal
      <3>5. UNCHANGED <<balances, wallets, deposits, withdrawals, rows>>
        BY <1>4, <3>1, <3>2, <3>3, <3>4, Zenon DEF Begin
      <3> QED
        BY <3>5, Zenon DEF wallets
    <2> QED
      BY <2>1, IdleMoney, Zenon DEF MoneyStep
  <1>5. ASSUME NEW h \in Handlers, Finish(h)
        PROVE  MoneyStep
    <2> DEFINE k == call[h]
               a == account_devices[k.device]
    <2>1. CASE Abandon(h)
      BY <2>1, IdleMoney, Zenon DEF Abandon, wallets, MoneyStep
    <2>2. CASE complete_account_withdrawal_from_treasury(h)
      BY <2>2, CompleteMoney, Zenon DEF MoneyStep
    <2>3. CASE withdraw_verified(h)
      <3>1. /\ k.op = "withdraw" /\ UNCHANGED <<balances, deposits>>
            /\ \/ submit_account_withdrawal(a, k.request, k.dest, k.cents, k.sig)
               \/ UNCHANGED <<wallets, withdrawals, rows>>
        BY <2>3, Zenon DEF withdraw_verified
      <3>2. TablesTyped /\ k \in WithdrawCall
        BY <3>1, CallFacts, Zenon
      <3>3. /\ a \in Accounts \cup {None} /\ k.request \in Requests /\ k.dest \in Addresses
            /\ k.cents \in Nat \ {0} /\ k.sig \in Signatures \cup {None}
        BY <3>2, Zenon DEF WithdrawCall, TablesTyped
      <3>4. CASE submit_account_withdrawal(a, k.request, k.dest, k.cents, k.sig)
        <4>1. \E w \in Withdrawal : \/ Held(k.request, w) \/ HeldAndPaid(k.request, w)
                                    \/ PaidOut(k.request, w)
          BY <3>1, <3>3, <3>4, SubmitMoney, Zenon
        <4> QED
          BY <3>3, <4>1, Zenon DEF MoneyStep
      <3>5. CASE UNCHANGED <<wallets, withdrawals, rows>>
        BY <3>1, <3>5, IdleMoney, Zenon DEF wallets, MoneyStep
      <3> QED
        BY <3>1, <3>4, <3>5, Zenon
    <2>4. CASE record_account_treasury_deposit(h)
      <3> DEFINE cents == VerifiedCents(Treasury, k.sig)
      <3>1. /\ k.op = "deposit_treasury" /\ UNCHANGED <<balances, withdrawals>>
            /\ \/ /\ a # None /\ deposits[k.sig] = None
                  /\ deposits' = [deposits EXCEPT ![k.sig] =
                        [account |-> a, address |-> Treasury, cents |-> cents]]
                  /\ CreditDeposit(a, cents)
                  /\ rows' = DepositRows(a, cents)
               \/ UNCHANGED <<deposits, balance_credits, totals, rows>>
        BY <2>4, Zenon DEF record_account_treasury_deposit
      <3>2. /\ TablesTyped /\ k.device \in Devices /\ k.sig \in Signatures
            /\ extract_verified_deposit(Treasury, k.sig) /\ Treasury \in Owners
        BY <3>1, CallFacts, Zenon DEF CallVerified, DepositTreasuryCall, Owners
      <3>3. CASE UNCHANGED <<deposits, balance_credits, totals, rows>>
        BY <3>1, <3>3, IdleMoney, Zenon DEF MoneyStep
      <3>4. CASE ~ UNCHANGED <<deposits, balance_credits, totals, rows>>
        <4>1. a \in Accounts
          BY <3>1, <3>2, <3>4, Zenon DEF TablesTyped
        <4>2. \E d \in DepositOf(k.sig) : MoneyIn(k.sig, d)
          BY <3>1, <3>2, <3>4, <4>1, DepositMoney, Zenon
        <4> QED
          BY <3>2, <4>2, Zenon DEF MoneyStep
      <3> QED
        BY <3>3, <3>4, Zenon
    <2>5. CASE record_account_onchain_deposit(h)
      <3> DEFINE cents == VerifiedCents(k.address, k.sig)
      <3>1. /\ k.op = "deposit_intent" /\ UNCHANGED <<balances, withdrawals>>
            /\ \/ /\ a # None /\ deposits[k.sig] = None
                  /\ deposits' = [deposits EXCEPT ![k.sig] =
                        [account |-> a, address |-> k.address, cents |-> cents]]
                  /\ CreditDeposit(a, cents)
                  /\ rows' = DepositRows(a, cents)
               \/ UNCHANGED <<deposits, balance_credits, totals, rows>>
        BY <2>5, Zenon DEF record_account_onchain_deposit, wallets
      <3>2. /\ TablesTyped /\ k.device \in Devices /\ k.sig \in Signatures
            /\ extract_verified_deposit(k.address, k.sig) /\ k.address \in Owners
        BY <3>1, CallFacts, Zenon DEF CallVerified, DepositIntentCall, Owners
      <3>3. CASE UNCHANGED <<deposits, balance_credits, totals, rows>>
        BY <3>1, <3>3, IdleMoney, Zenon DEF MoneyStep
      <3>4. CASE ~ UNCHANGED <<deposits, balance_credits, totals, rows>>
        <4>1. a \in Accounts
          BY <3>1, <3>2, <3>4, Zenon DEF TablesTyped
        <4>2. \E d \in DepositOf(k.sig) : MoneyIn(k.sig, d)
          BY <3>1, <3>2, <3>4, <4>1, DepositMoney, Zenon
        <4> QED
          BY <3>2, <4>2, Zenon DEF MoneyStep
      <3> QED
        BY <3>3, <3>4, Zenon
    <2> QED
      BY <1>5, <2>1, <2>2, <2>3, <2>4, <2>5, Zenon DEF Finish
  <1> QED
    BY <1>1, <1>2, <1>3, <1>4, <1>5, OperatorsAssumption, Zenon DEF Next

-----------------------------------------------------------------------------
(* What a movement does to the sums of LedgerSound.                        *)

\* The cents of a set of recorded requests.
LEMMA CentsInt ==
    ASSUME TypeOK, NEW R, \A q \in Requests : q \in R => withdrawals[q] # None
    PROVE  CentsOf(R) \in Int
  <1> DEFINE f == [q \in Requests |-> IF q \in R THEN withdrawals[q].cents ELSE 0]
  <1>1. \A q \in Requests : f[q] \in Int
    BY DEF TypeOK, Withdrawal
  <1>2. IsFiniteSet(Requests)
    BY FiniteAssumption
  <1> HIDE DEF f
  <1>3. SumFunctionOnSet(f, Requests) \in Int
    BY <1>1, <1>2, SumType
  <1> QED
    BY <1>3, Zenon DEF CentsOf, f

\* Recording one request changes such a sum by that request's share.
LEMMA CentsMove ==
    ASSUME TypeOK, NEW r \in Requests, NEW w \in Withdrawal, Recorded(r, w),
           NEW R, \A q \in Requests : q \in R => withdrawals[q] # None,
           NEW Q, \A q \in Requests \ {r} : q \in Q <=> q \in R
    PROVE  SumFunctionOnSet([q \in Requests |-> IF q \in Q THEN withdrawals'[q].cents ELSE 0],
                            Requests)
              = CentsOf(R) - (IF r \in R THEN withdrawals[r].cents ELSE 0)
                           + (IF r \in Q THEN w.cents ELSE 0)
  <1> DEFINE f == [q \in Requests |-> IF q \in R THEN withdrawals[q].cents ELSE 0]
             g == [q \in Requests |-> IF q \in Q THEN withdrawals'[q].cents ELSE 0]
  <1>1. /\ \A q \in Requests : f[q] \in Int
        /\ f[r] = IF r \in R THEN withdrawals[r].cents ELSE 0
    BY DEF TypeOK, Withdrawal
  <1>2. /\ withdrawals'[r] = w
        /\ \A q \in Requests \ {r} : withdrawals'[q] = withdrawals[q]
    BY DEF TypeOK, Recorded
  <1>3. \A q \in Requests \ {r} : g[q] = f[q]
    BY <1>2
  <1>4. g[r] = (IF r \in Q THEN w.cents ELSE 0) /\ g[r] \in Int
    BY <1>2 DEF Withdrawal
  <1>5. IsFiniteSet(Requests)
    BY FiniteAssumption
  <1> HIDE DEF f, g
  <1>6. SumFunctionOnSet(g, Requests) = SumFunctionOnSet(f, Requests) - f[r] + g[r]
    BY <1>1, <1>3, <1>4, <1>5, SumUpdate
  <1>7. SumFunctionOnSet(f, Requests) = CentsOf(R)
    BY Zenon DEF CentsOf, f
  <1>8. SumFunctionOnSet(g, Requests) = CentsOf(R) - (IF r \in R THEN withdrawals[r].cents ELSE 0)
                           + (IF r \in Q THEN w.cents ELSE 0)
    BY <1>1, <1>4, <1>6, <1>7
  <1> QED
    BY <1>8, Zenon DEF g

\* A request's share of the sum over one status, and over one account's
\* pending requests.
Share(r, status) ==
    IF withdrawals[r] # None /\ withdrawals[r].status = status THEN withdrawals[r].cents ELSE 0
PendingShare(a, r) ==
    IF withdrawals[r] # None /\ withdrawals[r].status = "pending" /\ withdrawals[r].account = a
    THEN withdrawals[r].cents ELSE 0

\* Recording a request moves its share of each sum.
LEMMA StatusMove ==
    ASSUME TypeOK, NEW r \in Requests, NEW w \in Withdrawal, Recorded(r, w),
           NEW status \in {"pending", "submitted"}
    PROVE  /\ CentsOf(WithStatus(status)) \in Int
           /\ CentsOf(WithStatus(status))'
                 = CentsOf(WithStatus(status)) - Share(r, status)
                   + (IF w.status = status THEN w.cents ELSE 0)
  <1> DEFINE R == WithStatus(status)
             Q == {q \in Requests : withdrawals'[q] # None /\ withdrawals'[q].status = status}
  <1>1. /\ withdrawals'[r] = w /\ w # None
        /\ \A q \in Requests \ {r} : withdrawals'[q] = withdrawals[q]
    BY NoneAssumption DEF TypeOK, Recorded, Withdrawal
  <1>2. /\ \A q \in Requests : q \in R => withdrawals[q] # None
        /\ \A q \in Requests \ {r} : q \in Q <=> q \in R
        /\ r \in R <=> withdrawals[r] # None /\ withdrawals[r].status = status
        /\ r \in Q <=> w.status = status
    BY <1>1 DEF WithStatus
  <1>3. CentsOf(R)' = SumFunctionOnSet([q \in Requests |-> IF q \in Q THEN withdrawals'[q].cents
                                                           ELSE 0], Requests)
    BY Zenon DEF CentsOf, WithStatus
  <1> HIDE DEF R, Q
  <1>4. CentsOf(R) \in Int
    BY <1>2, CentsInt
  <1>5. SumFunctionOnSet([q \in Requests |-> IF q \in Q THEN withdrawals'[q].cents ELSE 0],
                         Requests)
          = CentsOf(R) - (IF r \in R THEN withdrawals[r].cents ELSE 0)
                       + (IF r \in Q THEN w.cents ELSE 0)
    BY <1>2, CentsMove
  <1>6. CentsOf(R)' = CentsOf(R) - Share(r, status) + (IF w.status = status THEN w.cents ELSE 0)
    BY <1>2, <1>3, <1>5 DEF Share
  <1> QED
    BY <1>4, <1>6, Zenon DEF R

\* The same for the pending requests of an account.
LEMMA PendingMove ==
    ASSUME TypeOK, NEW r \in Requests, NEW w \in Withdrawal, Recorded(r, w), NEW a \in Accounts
    PROVE  /\ CentsOf(PendingOf(a)) \in Int
           /\ CentsOf(PendingOf(a))'
                 = CentsOf(PendingOf(a)) - PendingShare(a, r)
                   + (IF w.status = "pending" /\ w.account = a THEN w.cents ELSE 0)
  <1> DEFINE R == PendingOf(a)
             Q == {q \in {p \in Requests : withdrawals'[p] # None /\ withdrawals'[p].status = "pending"} :
                      withdrawals'[q].account = a}
  <1>1. /\ withdrawals'[r] = w /\ w # None
        /\ \A q \in Requests \ {r} : withdrawals'[q] = withdrawals[q]
    BY NoneAssumption DEF TypeOK, Recorded, Withdrawal
  <1>2. /\ \A q \in Requests : q \in R => withdrawals[q] # None
        /\ \A q \in Requests \ {r} : q \in Q <=> q \in R
        /\ r \in R <=> /\ withdrawals[r] # None /\ withdrawals[r].status = "pending"
                       /\ withdrawals[r].account = a
        /\ r \in Q <=> w.status = "pending" /\ w.account = a
    BY <1>1 DEF PendingOf, WithStatus
  <1>3. CentsOf(R)' = SumFunctionOnSet([q \in Requests |-> IF q \in Q THEN withdrawals'[q].cents
                                                           ELSE 0], Requests)
    BY Zenon DEF CentsOf, PendingOf, WithStatus
  <1> HIDE DEF R, Q
  <1>4. CentsOf(R) \in Int
    BY <1>2, CentsInt
  <1>5. SumFunctionOnSet([q \in Requests |-> IF q \in Q THEN withdrawals'[q].cents ELSE 0],
                         Requests)
          = CentsOf(R) - (IF r \in R THEN withdrawals[r].cents ELSE 0)
                       + (IF r \in Q THEN w.cents ELSE 0)
    BY <1>2, CentsMove
  <1>6. CentsOf(R)' = CentsOf(R) - PendingShare(a, r)
                      + (IF w.status = "pending" /\ w.account = a THEN w.cents ELSE 0)
    BY <1>2, <1>3, <1>5 DEF PendingShare
  <1> QED
    BY <1>4, <1>6, Zenon DEF R

\* Recording a deposit adds it to the deposited cents.
LEMMA DepositedMove ==
    ASSUME TypeOK, NEW s \in Signatures, NEW d \in DepositRecord, MoneyIn(s, d)
    PROVE  DepositedCents \in Int /\ DepositedCents' = DepositedCents + d.cents
  <1> DEFINE f == [t \in Signatures |-> IF deposits[t] = None THEN 0 ELSE deposits[t].cents]
             g == [t \in Signatures |-> IF deposits'[t] = None THEN 0 ELSE deposits'[t].cents]
  <1>1. deposits \in [Signatures -> DepositRecord \cup {None}] /\ deposits[s] = None
        /\ deposits' = [deposits EXCEPT ![s] = d]
    BY Zenon DEF TypeOK, DepositRecord, MoneyIn
  <1>n. d # None
    BY NoneAssumption DEF DepositRecord
  <1>2. (\A t \in Signatures : f[t] \in Int) /\ f[s] = 0
    BY <1>1 DEF DepositRecord
  <1>3. \A t \in Signatures \ {s} : g[t] = f[t]
    BY <1>1
  <1>4. g[s] = d.cents /\ g[s] \in Int
    BY <1>1, <1>n DEF DepositRecord
  <1>5. IsFiniteSet(Signatures)
    BY FiniteAssumption
  <1>6. DepositedCents = SumFunctionOnSet(f, Signatures)
        /\ DepositedCents' = SumFunctionOnSet(g, Signatures)
    BY Zenon DEF DepositedCents
  <1> HIDE DEF f, g
  <1>7. SumFunctionOnSet(g, Signatures) = SumFunctionOnSet(f, Signatures) - f[s] + g[s]
    BY <1>2, <1>3, <1>4, <1>5, SumUpdate
  <1>8. SumFunctionOnSet(f, Signatures) \in Int
    BY <1>2, <1>5, SumType
  <1> QED
    BY <1>2, <1>4, <1>6, <1>7, <1>8

\* All the sums are integers.
LEMMA SumsInt ==
    ASSUME TypeOK
    PROVE  /\ InWallets \in Int /\ DepositedCents \in Int
           /\ CentsOf(WithStatus("pending")) \in Int /\ CentsOf(SubmittedRequests) \in Int
           /\ SumFunctionOnSet(EarnedCredits, Devices) \in Int
           /\ \A a \in Accounts : CentsOf(PendingOf(a)) \in Int
  <1>1. InWallets \in Int
    BY WalletsInt DEF InWallets
  <1>2. DepositedCents \in Int
    <2> DEFINE f == [t \in Signatures |-> IF deposits[t] = None THEN 0 ELSE deposits[t].cents]
    <2>1. \A t \in Signatures : f[t] \in Int
      BY DEF TypeOK
    <2>2. IsFiniteSet(Signatures)
      BY FiniteAssumption
    <2>3. DepositedCents = SumFunctionOnSet(f, Signatures)
      BY Zenon DEF DepositedCents
    <2> HIDE DEF f
    <2> QED
      BY <2>1, <2>2, <2>3, SumType
  <1>3. CentsOf(WithStatus("pending")) \in Int /\ CentsOf(SubmittedRequests) \in Int
    <2>1. /\ \A q \in Requests : q \in WithStatus("pending") => withdrawals[q] # None
          /\ \A q \in Requests : q \in SubmittedRequests => withdrawals[q] # None
      BY DEF WithStatus, SubmittedRequests
    <2> QED
      BY <2>1, CentsInt
  <1>4. SumFunctionOnSet(EarnedCredits, Devices) \in Int
    <2>1. (\A d \in Devices : EarnedCredits[d] \in Int) /\ IsFiniteSet(Devices)
      BY AmountsAssumption, FiniteAssumption
    <2> QED
      BY <2>1, SumType
  <1>5. ASSUME NEW a \in Accounts PROVE CentsOf(PendingOf(a)) \in Int
    <2>1. \A q \in Requests : q \in PendingOf(a) => withdrawals[q] # None
      BY DEF WithStatus, PendingOf
    <2> QED
      BY <2>1, CentsInt
  <1> QED
    BY <1>1, <1>2, <1>3, <1>4, <1>5

\* The rows explain the wallet when the gaps are what is pending.
LEMMA GapsExplain ==
    ASSUME TypeOK
    PROVE  RowsExplainWallet <=> \A a \in Accounts :
              /\ CreditGap(a) = -(CentsOf(PendingOf(a)) * 10000)
              /\ UsdcGap(a) = -CentsOf(PendingOf(a))
              /\ RowGap(a) = 0
  <1>1. \A b \in Accounts :
           /\ balance_credits[b] \in Int /\ usdc_cents[b] \in Int
           /\ deposited_usdc_cents_total[b] \in Int /\ withdrawn_usdc_cents_total[b] \in Int
           /\ rows[b]["moved"] \in Int /\ rows[b]["burn"] \in Int /\ rows[b]["usdc"] \in Int
           /\ CentsOf(PendingOf(b)) \in Int
    BY Cells, RowNames, SumsInt DEF CellsTyped
  <1> QED
    BY <1>1 DEF RowsExplainWallet, CreditGap, UsdcGap, RowGap, credits_from_usdc_cents,
                CREDITS_PER_USDC_CENT

\* No request changes: neither do the sums over them.
LEMMA CentsStay ==
    ASSUME UNCHANGED withdrawals
    PROVE  /\ CentsOf(WithStatus("pending"))' = CentsOf(WithStatus("pending"))
           /\ CentsOf(SubmittedRequests)' = CentsOf(SubmittedRequests)
           /\ \A a \in Accounts : CentsOf(PendingOf(a))' = CentsOf(PendingOf(a))
  BY DEF CentsOf, WithStatus, SubmittedRequests, PendingOf

\* Every movement conserves credits.
LEMMA ConservedStep ==
    ASSUME TypeOK, MoneyStep, CreditsConserved
    PROVE  CreditsConserved'
  <1> DEFINE P == CentsOf(WithStatus("pending"))
             S == CentsOf(SubmittedRequests)
             E == SumFunctionOnSet(EarnedCredits, Devices)
  <1>1. /\ InWallets \in Int /\ DepositedCents \in Int /\ P \in Int /\ S \in Int /\ E \in Int
        /\ InWallets + P * 10000 = E + (DepositedCents - S) * 10000
    BY SumsInt DEF CreditsConserved, credits_from_usdc_cents, CREDITS_PER_USDC_CENT
  <1> DEFINE Goal == InWallets' + P' * 10000 = E + (DepositedCents' - S') * 10000
  <1> SUFFICES Goal
    BY DEF CreditsConserved, credits_from_usdc_cents, CREDITS_PER_USDC_CENT
  <1>2. CASE NoMoney
    <2>1. InWallets' = InWallets /\ P' = P /\ S' = S /\ DepositedCents' = DepositedCents
      BY <1>2, CentsStay DEF NoMoney, DepositedCents
    <2> HIDE DEF P, S, E
    <2> QED
      BY <1>1, <2>1
  <1>3. ASSUME NEW s \in Signatures, NEW d \in DepositOf(s), MoneyIn(s, d)
        PROVE  Goal
    <2>1. d \in DepositRecord /\ d.cents \in Int
      BY DEF DepositOf, DepositRecord
    <2>2. DepositedCents' = DepositedCents + d.cents
      BY <1>3, <2>1, DepositedMove
    <2>3. P' = P /\ S' = S
      BY <1>3, CentsStay DEF MoneyIn
    <2>4. InWallets' = InWallets + d.cents * 10000
      BY <1>3 DEF MoneyIn, credits_from_usdc_cents, CREDITS_PER_USDC_CENT
    <2> HIDE DEF P, S, E
    <2> QED
      BY <1>1, <2>1, <2>2, <2>3, <2>4
  <1>4. ASSUME NEW r \in Requests, NEW w \in Withdrawal,
               Held(r, w) \/ HeldAndPaid(r, w) \/ PaidOut(r, w) \/ GivenBack(r, w)
        PROVE  Goal
    <2>1. Recorded(r, w) /\ w.cents \in Int
      <3>1. Recorded(r, w)
        BY <1>4, Zenon DEF Held, HeldAndPaid, PaidOut, GivenBack, WasPending
      <3> QED
        BY <3>1 DEF Withdrawal
    <2>2. /\ P' = P - Share(r, "pending") + (IF w.status = "pending" THEN w.cents ELSE 0)
          /\ S' = S - Share(r, "submitted") + (IF w.status = "submitted" THEN w.cents ELSE 0)
      BY <2>1, StatusMove DEF SubmittedRequests
    <2>3. DepositedCents' = DepositedCents
      BY <2>1 DEF Recorded, DepositedCents
    <2> HIDE DEF P, S, E
    <2>4. CASE Held(r, w)
      <3>1. /\ Share(r, "pending") = 0 /\ Share(r, "submitted") = 0 /\ w.status = "pending"
            /\ InWallets' = InWallets - w.cents * 10000
        BY <2>4 DEF Held, Share, credits_from_usdc_cents, CREDITS_PER_USDC_CENT
      <3>2. P' = P + w.cents /\ S' = S
        BY <1>1, <2>1, <2>2, <3>1
      <3> QED
        BY <1>1, <2>1, <2>3, <3>1, <3>2
    <2>5. CASE HeldAndPaid(r, w)
      <3>1. /\ Share(r, "pending") = 0 /\ Share(r, "submitted") = 0 /\ w.status = "submitted"
            /\ InWallets' = InWallets - w.cents * 10000
        BY <2>5 DEF HeldAndPaid, Share, credits_from_usdc_cents, CREDITS_PER_USDC_CENT
      <3> QED
        BY <1>1, <2>1, <2>2, <2>3, <3>1
    <2>6. CASE PaidOut(r, w)
      <3>1. /\ Share(r, "pending") = w.cents /\ Share(r, "submitted") = 0 /\ w.status = "submitted"
            /\ InWallets' = InWallets
        BY <2>6 DEF PaidOut, WasPending, Share
      <3> QED
        BY <1>1, <2>1, <2>2, <2>3, <3>1
    <2>7. CASE GivenBack(r, w)
      <3>1. /\ Share(r, "pending") = w.cents /\ Share(r, "submitted") = 0 /\ w.status = "rejected"
            /\ InWallets' = InWallets + w.cents * 10000
        BY <2>7 DEF GivenBack, WasPending, Share, credits_from_usdc_cents, CREDITS_PER_USDC_CENT
      <3> QED
        BY <1>1, <2>1, <2>2, <2>3, <3>1
    <2> QED
      BY <1>4, <2>4, <2>5, <2>6, <2>7
  <1> HIDE DEF Goal
  <1> QED
    BY <1>2, <1>3, <1>4, Zenon DEF MoneyStep

\* Every movement leaves the rows explaining the wallets.
LEMMA ExplainedStep ==
    ASSUME TypeOK, TypeOK', MoneyStep, RowsExplainWallet
    PROVE  RowsExplainWallet'
  <1> SUFFICES ASSUME NEW a \in Accounts
               PROVE  /\ CreditGap(a)' = -(CentsOf(PendingOf(a))' * 10000)
                      /\ UsdcGap(a)' = -CentsOf(PendingOf(a))'
                      /\ RowGap(a)' = 0
    <2>1. \A a \in Accounts : /\ CreditGap(a)' = -(CentsOf(PendingOf(a))' * 10000)
                              /\ UsdcGap(a)' = -CentsOf(PendingOf(a))'
                              /\ RowGap(a)' = 0
      OBVIOUS
    <2>2. (TypeOK => (RowsExplainWallet <=> \A a \in Accounts :
              /\ CreditGap(a) = -(CentsOf(PendingOf(a)) * 10000)
              /\ UsdcGap(a) = -CentsOf(PendingOf(a))
              /\ RowGap(a) = 0))'
      BY GapsExplain, PTL
    <2> QED
      BY <2>1, <2>2
  <1> DEFINE p == CentsOf(PendingOf(a))
             Goal == CreditGap(a)' = -(p' * 10000) /\ UsdcGap(a)' = -p' /\ RowGap(a)' = 0
  <1> SUFFICES Goal
    OBVIOUS
  <1>1. /\ CreditGap(a) = -(p * 10000) /\ UsdcGap(a) = -p /\ RowGap(a) = 0
        /\ p \in Int
    BY GapsExplain, SumsInt
  <1>2. CASE NoMoney
    <2>1. p' = p
      BY <1>2, CentsStay DEF NoMoney
    <2> QED
      BY <1>1, <1>2, <2>1 DEF NoMoney, GapsStay
  <1>3. ASSUME NEW s \in Signatures, NEW d \in DepositOf(s), MoneyIn(s, d)
        PROVE  Goal
    <2>1. p' = p
      BY <1>3, CentsStay DEF MoneyIn
    <2> QED
      BY <1>1, <1>3, <2>1 DEF MoneyIn, GapsStay
  <1>4. ASSUME NEW r \in Requests, NEW w \in Withdrawal,
               Held(r, w) \/ HeldAndPaid(r, w) \/ PaidOut(r, w) \/ GivenBack(r, w)
        PROVE  Goal
    <2>1. Recorded(r, w) /\ w.cents \in Int
      <3>1. Recorded(r, w)
        BY <1>4, Zenon DEF Held, HeldAndPaid, PaidOut, GivenBack, WasPending
      <3> QED
        BY <3>1 DEF Withdrawal
    <2>2. p' = p - PendingShare(a, r)
               + (IF w.status = "pending" /\ w.account = a THEN w.cents ELSE 0)
      BY <2>1, PendingMove
    <2> HIDE DEF p
    <2>3. CASE Held(r, w)
      <3>1. /\ PendingShare(a, r) = 0 /\ w.status = "pending"
            /\ CreditGap(a)' = CreditGap(a) + (IF a = w.account THEN -(w.cents * 10000) ELSE 0)
            /\ UsdcGap(a)' = UsdcGap(a) + (IF a = w.account THEN -w.cents ELSE 0)
            /\ RowGap(a)' = RowGap(a)
        BY <2>3 DEF Held, GapsMove, PendingShare, credits_from_usdc_cents, CREDITS_PER_USDC_CENT
      <3>2. CASE a = w.account
        BY <1>1, <2>1, <2>2, <3>1, <3>2
      <3>3. CASE a # w.account
        BY <1>1, <2>1, <2>2, <3>1, <3>3
      <3> QED
        BY <3>2, <3>3
    <2>4. CASE HeldAndPaid(r, w)
      <3>1. /\ PendingShare(a, r) = 0 /\ w.status = "submitted"
            /\ CreditGap(a)' = CreditGap(a) /\ UsdcGap(a)' = UsdcGap(a) /\ RowGap(a)' = RowGap(a)
        BY <2>4 DEF HeldAndPaid, GapsStay, PendingShare
      <3> QED
        BY <1>1, <2>1, <2>2, <3>1
    <2>5. CASE PaidOut(r, w) \/ GivenBack(r, w)
      <3>0. WasPending(r, w) /\ w.status # "pending"
        BY <2>5 DEF PaidOut, GivenBack
      <3>1. /\ PendingShare(a, r) = (IF a = w.account THEN w.cents ELSE 0) /\ w.status # "pending"
            /\ CreditGap(a)' = CreditGap(a) + (IF a = w.account THEN w.cents * 10000 ELSE 0)
            /\ UsdcGap(a)' = UsdcGap(a) + (IF a = w.account THEN w.cents ELSE 0)
            /\ RowGap(a)' = RowGap(a)
        BY <3>0 DEF WasPending, GapsMove, PendingShare,
                    credits_from_usdc_cents, CREDITS_PER_USDC_CENT
      <3>2. CASE a = w.account
        BY <1>1, <2>1, <2>2, <3>1, <3>2
      <3>3. CASE a # w.account
        BY <1>1, <2>1, <2>2, <3>1, <3>3
      <3> QED
        BY <3>2, <3>3
    <2> QED
      BY <1>4, <2>3, <2>4, <2>5
  <1> HIDE DEF Goal
  <1> QED
    BY <1>2, <1>3, <1>4, Zenon DEF MoneyStep

\* The empty ledger is sound.
LEMMA LedgerInit == Init => LedgerSound
  <1> SUFFICES ASSUME Init PROVE LedgerSound
    OBVIOUS
  <1>1. TypeOK /\ withdrawals = [r \in Requests |-> None] /\ deposits = [s \in Signatures |-> None]
        /\ balances = EarnedCredits
    BY InitIInv, Zenon DEF IInv, Init
  <1>2. ASSUME NEW R, \A q \in Requests : q \notin R
        PROVE  CentsOf(R) = 0
    <2> DEFINE f == [q \in Requests |-> IF q \in R THEN withdrawals[q].cents ELSE 0]
    <2>1. \A q \in Requests : f[q] = 0
      BY <1>2
    <2>2. IsFiniteSet(Requests)
      BY FiniteAssumption
    <2> HIDE DEF f
    <2>3. SumFunctionOnSet(f, Requests) = 0
      BY <2>1, <2>2, SumZero
    <2> QED
      BY <2>3, Zenon DEF CentsOf, f
  <1>3. /\ CentsOf(WithStatus("pending")) = 0 /\ CentsOf(SubmittedRequests) = 0
        /\ \A a \in Accounts : CentsOf(PendingOf(a)) = 0
    BY <1>1, <1>2 DEF WithStatus, SubmittedRequests, PendingOf
  <1>4. DepositedCents = 0
    <2> DEFINE f == [t \in Signatures |-> IF deposits[t] = None THEN 0 ELSE deposits[t].cents]
    <2>1. \A t \in Signatures : f[t] = 0
      BY <1>1
    <2>2. IsFiniteSet(Signatures)
      BY FiniteAssumption
    <2>3. DepositedCents = SumFunctionOnSet(f, Signatures)
      BY Zenon DEF DepositedCents
    <2> HIDE DEF f
    <2> QED
      BY <2>1, <2>2, <2>3, SumZero
  <1>5. SumFunctionOnSet(balance_credits, Accounts) = 0
    <2>1. \A a \in Accounts : balance_credits[a] = 0
      BY DEF Init
    <2>2. IsFiniteSet(Accounts)
      BY FiniteAssumption
    <2> QED
      BY <2>1, <2>2, SumZero
  <1>6. CreditsConserved
    BY <1>1, <1>3, <1>4, <1>5, SumsInt DEF CreditsConserved, InWallets, credits_from_usdc_cents,
                                           CREDITS_PER_USDC_CENT
  <1>7. RowsExplainWallet
    <2>1. \A a \in Accounts : /\ balance_credits[a] = 0 /\ usdc_cents[a] = 0
                              /\ deposited_usdc_cents_total[a] = 0
                              /\ withdrawn_usdc_cents_total[a] = 0
                              /\ rows[a]["moved"] = 0 /\ rows[a]["burn"] = 0 /\ rows[a]["usdc"] = 0
      BY RowNames DEF Init
    <2> QED
      BY <1>3, <2>1 DEF RowsExplainWallet, credits_from_usdc_cents, CREDITS_PER_USDC_CENT
  <1> QED
    BY <1>6, <1>7, Zenon DEF LedgerSound

\* In every reachable state, whichever handlers interleave: the credits in all
\* wallets are what was there at the start, plus what verified deposits bought,
\* minus what pending requests hold and submitted ones burned; and the ledger
\* rows and running totals that db.rs writes beside each update explain every
\* wallet's columns.
THEOREM LedgerAlwaysSound == Spec => []LedgerSound
  <1> DEFINE LInv == IInv /\ LedgerSound
  <1>1. Init => LInv
    BY InitIInv, LedgerInit, Zenon
  <1>2. LInv /\ [Next]_vars => LInv'
    <2> SUFFICES ASSUME LInv, [Next]_vars PROVE LInv'
      BY Zenon
    <2>1. IInv' /\ MoneyStep
      BY NextIInv, NextMoney, Zenon
    <2>2. TypeOK /\ TypeOK' /\ CreditsConserved /\ RowsExplainWallet
      BY <2>1, Zenon DEF IInv, LedgerSound
    <2>3. CreditsConserved' /\ RowsExplainWallet'
      BY <2>1, <2>2, ConservedStep, ExplainedStep, Zenon
    <2> QED
      BY <2>1, <2>3, Zenon DEF LedgerSound
  <1>3. LInv => LedgerSound
    BY Zenon
  <1> QED
    BY <1>1, <1>2, <1>3, PTL DEF Spec

-----------------------------------------------------------------------------
(* Every movement is a step of the escrow, or none.                        *)

\* The variables of CreditEscrow, as AccountEscrow maps them.
EscrowStates == [r \in Requests |-> EscrowState(r)]
EscrowAmounts == [r \in Requests |-> IF withdrawals[r] = None THEN 0 ELSE withdrawals[r].cents]
EscrowPaidBy == [r \in Requests |-> IF withdrawals[r] = None THEN None ELSE withdrawals[r].sig]
EscrowCredited == {s \in Signatures : deposits[s] # None}

\* The escrow's state of a request follows its status.
StateFollowsStatus ==
    \A r : /\ withdrawals[r] = None => EscrowState(r) = None
           /\ withdrawals[r] # None /\ withdrawals[r].status = "pending" => EscrowState(r) = "held"
           /\ withdrawals[r] # None /\ withdrawals[r].status = "submitted" => EscrowState(r) = "paid"
           /\ withdrawals[r] # None /\ withdrawals[r].status = "rejected"
                 => EscrowState(r) = "refunded"

\* It does in every state, by the definition of AccountEscrow.
LEMMA EscrowStateOf == StateFollowsStatus
  BY DEF EscrowState, StateFollowsStatus

\* Recording one request changes the escrow's columns in its place.
LEMMA EscrowRecorded ==
    ASSUME TypeOK, NEW r \in Requests, NEW w \in Withdrawal, Recorded(r, w)
    PROVE  /\ EscrowAmounts' = [EscrowAmounts EXCEPT ![r] = w.cents]
           /\ EscrowPaidBy' = [EscrowPaidBy EXCEPT ![r] = w.sig]
           /\ w.status = "pending" => EscrowStates' = [EscrowStates EXCEPT ![r] = "held"]
           /\ w.status = "submitted" => EscrowStates' = [EscrowStates EXCEPT ![r] = "paid"]
           /\ w.status = "rejected" => EscrowStates' = [EscrowStates EXCEPT ![r] = "refunded"]
           /\ UNCHANGED EscrowCredited
  <1>1. /\ withdrawals'[r] = w /\ w # None
        /\ \A q \in Requests \ {r} : withdrawals'[q] = withdrawals[q]
    BY NoneAssumption DEF TypeOK, Recorded, Withdrawal
  <1>2. UNCHANGED EscrowCredited
    BY DEF Recorded, EscrowCredited
  <1>3. /\ EscrowAmounts' = [EscrowAmounts EXCEPT ![r] = w.cents]
        /\ EscrowPaidBy' = [EscrowPaidBy EXCEPT ![r] = w.sig]
    <2>1. EscrowAmounts' = [EscrowAmounts EXCEPT ![r] = w.cents]
      BY <1>1, Zenon DEF EscrowAmounts
    <2>2. EscrowPaidBy' = [EscrowPaidBy EXCEPT ![r] = w.sig]
      BY <1>1, Zenon DEF EscrowPaidBy
    <2> QED
      BY <2>1, <2>2
  <1>4. /\ w.status = "pending" => EscrowState(r)' = "held"
        /\ w.status = "submitted" => EscrowState(r)' = "paid"
        /\ w.status = "rejected" => EscrowState(r)' = "refunded"
        /\ \A q \in Requests \ {r} : EscrowState(q)' = EscrowState(q)
    <2>1. StateFollowsStatus'
      BY EscrowStateOf, PTL
    <2>2. \A q \in Requests : withdrawals[q] # None
             => withdrawals[q].status \in {"pending", "submitted", "rejected"}
      BY DEF TypeOK, Withdrawal
    <2> QED
      BY <1>1, <2>1, <2>2, EscrowStateOf DEF StateFollowsStatus
  <1>5. /\ w.status = "pending" => EscrowStates' = [EscrowStates EXCEPT ![r] = "held"]
        /\ w.status = "submitted" => EscrowStates' = [EscrowStates EXCEPT ![r] = "paid"]
        /\ w.status = "rejected" => EscrowStates' = [EscrowStates EXCEPT ![r] = "refunded"]
    <2>1. ASSUME NEW v, EscrowState(r)' = v
          PROVE  EscrowStates' = [EscrowStates EXCEPT ![r] = v]
      BY <1>4, <2>1, Zenon DEF EscrowStates
    <2> QED
      BY <1>4, <2>1, Zenon
  <1> QED
    BY <1>2, <1>3, <1>5

\* Each movement of money is an escrow step, or leaves the escrow alone.
LEMMA EscrowStep == ASSUME TypeOK, MoneyStep PROVE [Escrow!Next]_(Escrow!vars)
  <1>1. CASE NoMoney
    <2>1. UNCHANGED <<InWallets, EscrowCredited, EscrowStates, EscrowAmounts, EscrowPaidBy>>
      BY <1>1 DEF NoMoney, EscrowCredited, EscrowStates, EscrowAmounts, EscrowPaidBy, EscrowState
    <2> QED
      BY <2>1 DEF Escrow!vars, EscrowCredited, EscrowStates, EscrowAmounts, EscrowPaidBy
  <1>2. ASSUME NEW s \in Signatures, NEW d \in DepositOf(s), MoneyIn(s, d)
        PROVE  Escrow!Deposit(s)
    <2>1. UNCHANGED <<EscrowStates, EscrowAmounts, EscrowPaidBy>>
      BY <1>2 DEF MoneyIn, EscrowStates, EscrowAmounts, EscrowPaidBy, EscrowState
    <2>2. d # None
      BY NoneAssumption DEF DepositOf, DepositRecord
    <2>3. s \notin EscrowCredited /\ EscrowCredited' = EscrowCredited \cup {s}
      BY <1>2, <2>2 DEF MoneyIn, EscrowCredited, TypeOK
    <2>4. /\ d.cents \in {VerifiedCents(o, s) : o \in Owners}
          /\ InWallets' = InWallets + credits_from_usdc_cents(d.cents)
      BY <1>2, Zenon DEF DepositOf, MoneyIn
    <2>5. \E cents \in [t \in Signatures |-> {VerifiedCents(o, t) : o \in Owners}][s] :
             InWallets' = InWallets + credits_from_usdc_cents(cents)
      BY <2>4, Zenon
    <2> QED
      BY <2>1, <2>3, <2>5, Zenon DEF Escrow!Deposit, EscrowCredited, EscrowStates, EscrowAmounts,
                                     EscrowPaidBy
  <1>3. ASSUME NEW r \in Requests, NEW w \in Withdrawal,
               Held(r, w) \/ HeldAndPaid(r, w) \/ PaidOut(r, w) \/ GivenBack(r, w)
        PROVE  Escrow!Hold(r) \/ Escrow!Pay(r) \/ Escrow!HoldAndPay(r) \/ Escrow!Refund(r)
    <2>1. Recorded(r, w) /\ w.cents \in Nat /\ w.cents > 0
      <3>1. Recorded(r, w)
        BY <1>3, Zenon DEF Held, HeldAndPaid, PaidOut, GivenBack, WasPending
      <3> QED
        BY <3>1 DEF Withdrawal
    <2>2. /\ EscrowAmounts' = [EscrowAmounts EXCEPT ![r] = w.cents]
          /\ EscrowPaidBy' = [EscrowPaidBy EXCEPT ![r] = w.sig]
          /\ UNCHANGED EscrowCredited
      BY <2>1, EscrowRecorded, Zenon
    <2>3. EscrowAmounts'[r] = w.cents /\ EscrowStates[r] = EscrowState(r)
      BY <2>2 DEF EscrowAmounts, EscrowStates
    <2>4. ASSUME Held(r, w) \/ HeldAndPaid(r, w)
          PROVE  /\ EscrowStates[r] = None
                 /\ EscrowAmounts'[r] > 0
                 /\ EscrowAmounts' = [EscrowAmounts EXCEPT ![r] = EscrowAmounts'[r]]
                 /\ InWallets' = InWallets - credits_from_usdc_cents(EscrowAmounts'[r])
      <3>1. EscrowStates[r] = None
        BY <2>3, <2>4, EscrowStateOf, Zenon DEF Held, HeldAndPaid, StateFollowsStatus
      <3>2. InWallets' = InWallets - credits_from_usdc_cents(w.cents)
        BY <2>4, Zenon DEF Held, HeldAndPaid
      <3> QED
        BY <2>1, <2>2, <2>3, <3>1, <3>2, Zenon
    <2>5. ASSUME PaidOut(r, w) \/ GivenBack(r, w)
          PROVE  /\ EscrowStates[r] = "held" /\ UNCHANGED EscrowAmounts
                 /\ EscrowAmounts[r] = w.cents
      <3>1. /\ withdrawals[r] # None /\ withdrawals[r].status = "pending"
            /\ w.cents = withdrawals[r].cents
        BY <2>5, Zenon DEF PaidOut, GivenBack, WasPending
      <3>2. EscrowAmounts[r] = w.cents
        BY <3>1 DEF EscrowAmounts
      <3>3. UNCHANGED EscrowAmounts
        <4>1. EscrowAmounts = [q \in Requests |-> EscrowAmounts[q]]
          BY DEF EscrowAmounts
        <4> QED
          BY <2>2, <3>2, <4>1
      <3> QED
        BY <2>3, <3>1, <3>2, <3>3, EscrowStateOf, Zenon DEF StateFollowsStatus
    <2>6. ASSUME HeldAndPaid(r, w) \/ PaidOut(r, w)
          PROVE  /\ EscrowStates' = [EscrowStates EXCEPT ![r] = "paid"]
                 /\ w.sig \in Signatures
                 /\ \A q \in Requests : EscrowPaidBy[q] # w.sig
      <3>1. w.status = "submitted" /\ w.sig \in Signatures /\ SignatureFree(w.sig)
        BY <2>6, Zenon DEF HeldAndPaid, PaidOut
      <3>2. \A q \in Requests : EscrowPaidBy[q] # w.sig
        BY <3>1, NoneAssumption DEF SignatureFree, EscrowPaidBy
      <3> QED
        BY <2>1, <3>1, <3>2, EscrowRecorded, Zenon
    <2>7. CASE Held(r, w)
      <3>1. w.status = "pending" /\ w.sig = None /\ withdrawals[r] = None
        BY <2>7, Zenon DEF Held
      <3>2. EscrowStates' = [EscrowStates EXCEPT ![r] = "held"]
        BY <2>1, <3>1, EscrowRecorded, Zenon
      <3>3. UNCHANGED EscrowPaidBy
        <4>1. /\ EscrowPaidBy[r] = None
              /\ EscrowPaidBy = [q \in Requests |-> EscrowPaidBy[q]]
          BY <3>1 DEF EscrowPaidBy
        <4>2. EscrowPaidBy' = [EscrowPaidBy EXCEPT ![r] = None]
          BY <2>2, <3>1, Zenon
        <4> QED
          BY <4>1, <4>2
      <3>4. Escrow!Hold(r)
        BY <2>2, <2>4, <2>7, <3>2, <3>3, Zenon
           DEF Escrow!Hold, Escrow!Take, EscrowStates, EscrowAmounts, EscrowPaidBy, EscrowCredited
      <3> QED
        BY <3>4
    <2>8. CASE HeldAndPaid(r, w)
      <3>1. Escrow!HoldAndPay(r)
        BY <2>2, <2>4, <2>6, <2>8, Zenon
           DEF Escrow!HoldAndPay, Escrow!Take, Escrow!PaidOnce, EscrowStates, EscrowAmounts,
               EscrowPaidBy, EscrowCredited
      <3> QED
        BY <3>1
    <2>9. CASE PaidOut(r, w)
      <3>1. InWallets' = InWallets
        BY <2>9, Zenon DEF PaidOut
      <3>2. Escrow!Pay(r)
        BY <2>2, <2>5, <2>6, <2>9, <3>1, Zenon
           DEF Escrow!Pay, Escrow!PaidOnce, EscrowStates, EscrowAmounts, EscrowPaidBy, EscrowCredited
      <3> QED
        BY <3>2
    <2>10. CASE GivenBack(r, w)
      <3>1. /\ InWallets' = InWallets + credits_from_usdc_cents(w.cents)
            /\ w.status = "rejected" /\ w.sig = withdrawals[r].sig /\ withdrawals[r] # None
        BY <2>10, Zenon DEF GivenBack, WasPending
      <3>2. EscrowStates' = [EscrowStates EXCEPT ![r] = "refunded"]
        BY <2>1, <3>1, EscrowRecorded, Zenon
      <3>3. UNCHANGED EscrowPaidBy
        <4>1. EscrowPaidBy = [q \in Requests |-> EscrowPaidBy[q]] /\ EscrowPaidBy[r] = w.sig
          BY <3>1 DEF EscrowPaidBy
        <4> QED
          BY <2>2, <4>1
      <3>4. InWallets' = InWallets + credits_from_usdc_cents(EscrowAmounts[r])
        BY <2>5, <2>10, <3>1, Zenon
      <3>5. Escrow!Refund(r)
        BY <2>2, <2>5, <2>10, <3>2, <3>3, <3>4, Zenon
           DEF Escrow!Refund, EscrowStates, EscrowAmounts, EscrowPaidBy, EscrowCredited
      <3> QED
        BY <3>5
    <2> QED
      BY <1>3, <2>7, <2>8, <2>9, <2>10
  <1> QED
    BY <1>1, <1>2, <1>3, Zenon DEF MoneyStep, Escrow!Next

\* The empty tables are an empty escrow.
LEMMA EscrowInit == Init => Escrow!Init
  <1> SUFFICES ASSUME Init PROVE Escrow!Init
    OBVIOUS
  <1>1. TypeOK /\ withdrawals = [r \in Requests |-> None] /\ deposits = [s \in Signatures |-> None]
    BY InitIInv, Zenon DEF IInv, Init
  <1>2. InWallets \in Int
    BY <1>1, SumsInt
  <1>3. EscrowCredited = {}
    BY <1>1 DEF EscrowCredited
  <1>4. /\ EscrowStates = [r \in Requests |-> None]
        /\ EscrowAmounts = [r \in Requests |-> 0]
        /\ EscrowPaidBy = [r \in Requests |-> None]
    BY <1>1, EscrowStateOf
       DEF EscrowStates, EscrowAmounts, EscrowPaidBy, StateFollowsStatus
  <1> QED
    BY <1>2, <1>3, <1>4, Zenon DEF Escrow!Init, EscrowStates, EscrowAmounts, EscrowPaidBy,
                                   EscrowCredited

\* Every behaviour of the deposit and withdrawal handlers is one of
\* CreditEscrow: credits are bought once per deposit signature, and a
\* withdrawal holds its credits once and then either pays them out or gives
\* them back, never both.
THEOREM Refinement == Spec => ImplementsEscrow
  <1>1. Init => IInv /\ Escrow!Init
    BY InitIInv, EscrowInit, Zenon
  <1>2. IInv /\ [Next]_vars => IInv'
    BY NextIInv, Zenon
  <1>3. IInv /\ [Next]_vars => [Escrow!Next]_(Escrow!vars)
    <2> SUFFICES ASSUME IInv, [Next]_vars PROVE [Escrow!Next]_(Escrow!vars)
      OBVIOUS
    <2>1. TypeOK /\ MoneyStep
      BY NextMoney, Zenon DEF IInv
    <2> QED
      BY <2>1, EscrowStep, Zenon
  <1> QED
    BY <1>1, <1>2, <1>3, PTL DEF Spec, ImplementsEscrow, Escrow!Spec

=============================================================================
