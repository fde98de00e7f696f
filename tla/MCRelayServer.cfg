SPECIFICATION RelaySpec
CONSTANTS
    a = a
    b = b
    c = c
    a1 = a1
    a2 = a2
    b1 = b1
    b2 = b2
    c1 = c1
    NoEntry = NoEntry
    Nodes = {a, b, c}
    Sockets = {a1, a2, b1, b2, c1}
    NodeOf <- MCNodeOf
INVARIANTS
    RegisteredReachable
    ToldWhoIsThere
CHECK_DEADLOCK FALSE
