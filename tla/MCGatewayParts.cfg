SPECIFICATION PartsSpec
CONSTANTS
    a1 = a1
    None = None  Ops = ops
    Accounts = {a1, a2}
    Devices = {d1, d2}
    ApiKeys = {k1, k2}
    Requests = {r1, r2}
    Deposits <- MCDeposits
    Limits <- MCLimits
    Costs <- MCCosts
    MinRequired = 2
INVARIANTS
    AccountPaysUsage
    
    MintedOnce
    AnchorsSound
    NoGap
PROPERTIES
    FleetWithinLimit
    ClientsRecover
CHECK_DEADLOCK FALSE
