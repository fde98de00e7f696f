CONSTANTS
    d1 = d1  d2 = d2  k1 = k1  k2 = k2  k3 = k3  r3 = r3
    None = None  Ops = ops
    Devices = {d1, d2}
    Keys = {k1}
    Requests = {r1, r2}
    Earnings <- MCEarnings
    LegacyKeys <- NoLegacy
    Budgets <- MCBudgets
    Costs <- MCCosts
    MinRequired = 2
    MaxActive = 1
SPECIFICATION DatabaseSpec
SYMMETRY Symmetry
INVARIANTS
    PoolSound
PROPERTIES
    SpendIsProRata
