CONSTANTS
    a1 = a1  a2 = a2  d1 = d1  d2 = d2  x1 = x1  x2 = x2
    dep = dep  pay = pay  self = self
    None = None  Treasury = treasury
    Accounts = {a1, a2}
    Devices = {d1, d2}
    Requests = {r1, r2}
    Addresses = {x1, x2}
    Signatures = {dep, pay, self}
    Handlers = {h1, o1, o2}
    Operators = {o1, o2}
    Chain <- MCChain
    FeeBps = 180
    Cents <- MCCents
    TransferAmounts <- MCTransfers
    EarnedCredits <- MCEarned
SPECIFICATION Spec
SYMMETRY Symmetry
INVARIANTS
    SubmittedWasPaid
    LedgerSound
PROPERTIES
    ImplementsEscrow
