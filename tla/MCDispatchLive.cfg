SPECIFICATION AloneSpec
CONSTANTS
    r1 = r1
    r2 = r2
    n1 = n1
    n2 = n2
    n3 = n3
    None = None
    Requests = {r1}
    Nodes = {n1}
    Heavy = {}
    Buffered = {r1}
    LargeCold = TRUE
    MaxRetries = 0
    MaxGrace = 1
    MaxQueueDepth = 1
    ChanCap = 1
    Replaces = FALSE
    MaxAttempts = 5
    MaxWire = 1
    MaxFlaps = 2
    Errors = {"warmup", "clienterr", "queuefull"}
PROPERTIES
    
    RequestsEnd
CHECK_DEADLOCK FALSE
