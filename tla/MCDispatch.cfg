SPECIFICATION DispatchSpec
CONSTANTS
    r1 = r1
    r2 = r2
    n1 = n1
    n2 = n2
    n3 = n3
    None = None
    Requests = {r1}
    Nodes = {n1, n2}
    Heavy = {}
    Buffered = {}
    LargeCold = FALSE
    MaxRetries = 1
    MaxGrace = 0
    MaxQueueDepth = 1
    ChanCap = 1
    Replaces = TRUE
    MaxAttempts = 5
    MaxWire = 1
    MaxFlaps = 1
    Errors = {"error"}
SYMMETRY Symmetric
INVARIANTS
    OneSource
    SettledServed
    CountedExactly
CHECK_DEADLOCK FALSE
